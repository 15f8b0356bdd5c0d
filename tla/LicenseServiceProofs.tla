----------------------- MODULE LicenseServiceProofs -----------------------
(***************************************************************************)
(* For any campaign of requests, any number of licences, codes and         *)
(* transfers, and every interleaving at the awaits: bindings, trials and   *)
(* codes have one winner, a device's request runs once, a retry has the    *)
(* same answer, and a revoked binding fades within a lease.                *)
(***************************************************************************)
EXTENDS LicenseService, TLAPS, SequenceTheorems

----------------------------------------------------------------------------
(* The inductive invariant *)

TypeInv ==
    /\ now \in 0 .. MaxTime
    /\ licenses \in [Licenses -> LicenseRows \cup {None}]
    /\ devices \in Seq(DeviceRows)
    /\ codes \in [Codes -> CodeRows \cup {None}]
    /\ transfers \in [Transfers -> TransferRows \cup {None}]
    /\ claims \subseteq ClaimRows
    /\ idem \in [Reqs -> Keys \cup {None}]
    /\ sent \in [Reqs -> Contents]
    /\ inv \in [Deliveries -> Invocations]

\* References name rows; a deleted licence is suspended; what a code was spent
\* on is in the audit; an approved transfer names its licence and its device.
RowInv ==
    /\ \A l \in Licenses : licenses[l] # None /\ licenses[l].status = "ACTIVE"
         => licenses[l].gone = None
    /\ \A i \in DOMAIN devices : licenses[devices[i].license] # None
    /\ \A c \in Codes : codes[c] # None =>
         /\ licenses[codes[c].license] # None
         /\ codes[c].used => codes[c].by \in DOMAIN devices /\ <<"redeem", c>> \in audit
    /\ \A t \in Transfers : transfers[t] # None =>
         /\ transfers[t].device \in DOMAIN devices \cup {0}
         /\ transfers[t].status \in {"APPROVED", "CLAIMED"} =>
              /\ transfers[t].device \in DOMAIN devices
              /\ transfers[t].license \in Licenses
              /\ licenses[transfers[t].license] # None

\* The first two parts of SingleWinner: what the unique indexes keep.
UniqueInv ==
    /\ \A i, j \in DOMAIN devices :
         /\ devices[i].active /\ devices[j].active
         /\ devices[i].license = devices[j].license \/ devices[i].key = devices[j].key
         => i = j
    /\ \A a, b \in claims : a.subject = b.subject \/ a.key = b.key => a = b

\* A licence that was deleted since its row was read as active, or a device
\* that was unbound since, was so after the invocation had started.
HeldLicense(v, l) ==
    /\ v.lic \in LicenseRows
    /\ licenses[l] # None
    /\ v.lic.status = "ACTIVE" /\ licenses[l].gone # None => v.at =< licenses[l].gone

HeldDevice(v, i) == i \in DOMAIN devices /\ (devices[i].active \/ v.at =< devices[i].off)

\* The rows that an invocation v holds while it serves the request ask.
Redeeming(v, ask) ==
    ask.op = "redeem" =>
        /\ v.pc \in {"second", "write"} =>
             v.code \in CodeRows /\ HeldLicense(v, v.code.license)
        /\ v.pc \in {"second", "write", "recover"} => codes[ask.code] # None
        /\ v.pc = "write" => v.dev = 0 \/ HeldDevice(v, v.dev)

Claiming(v, ask) ==
    ask.op = "claim" =>
        /\ v.pc \in {"second", "third", "write"} =>
             /\ v.code \in TransferRows /\ transfers[ask.transfer] # None
             /\ v.code.license \in Licenses /\ licenses[v.code.license] # None
             /\ v.code.device \in DOMAIN devices
        /\ v.pc \in {"third", "write"} => HeldLicense(v, v.code.license)
        /\ v.pc = "write" => HeldDevice(v, v.code.device)

Administering(v, ask) ==
    /\ ask.op = "check" /\ v.pc = "second" => HeldLicense(v, ask.license)
    /\ ask.op \in {"code", "sources", "approve", "delete"} /\ v.pc \in {"second", "third", "write"} =>
         licenses[ask.license] # None
    /\ ask.op = "approve" /\ v.pc \in {"third", "write"} =>
         v.code \in TransferRows /\ transfers[ask.transfer] # None
    /\ ask.op = "approve" /\ v.pc = "write" => v.dev \in DOMAIN devices

Local(v, ask) ==
    /\ v.at =< now
    /\ v.pc \notin {"idle", "done"} => v.ran
    /\ v.pc \in {"finish", "done"} => v.reply # None
    /\ Redeeming(v, ask) /\ Claiming(v, ask) /\ Administering(v, ask)

\* What SingleWinner and RevocationFades say of an answer to the request ask.
Kept(ask, reply) ==
    (reply.code = "OK" /\ reply.device # 0) =>
        /\ reply.device \in DOMAIN devices
        /\ reply.license \in Licenses /\ licenses[reply.license] # None
        /\ reply.until =< now + LeaseLife
        /\ ~devices[reply.device].active => reply.until =< devices[reply.device].off + LeaseLife
        /\ licenses[reply.license].gone # None /\ reply.search =>
             reply.until =< licenses[reply.license].gone + LeaseLife
        /\ ask.op = "redeem" =>
             /\ codes[ask.code] # None /\ codes[ask.code].used
             /\ reply.device = codes[ask.code].by

LocalInv == \A d \in Deliveries : Local(inv[d], Ask(d))

ReplyInv ==
    /\ \A d \in Deliveries : inv[d].reply # None => Kept(Ask(d), inv[d].reply)
    /\ \A r \in Reqs : idem[r] # None /\ idem[r].reply # None => Kept(sent[r], idem[r].reply)

\* The key of a request that ran is there, or its retention is over.
KeyKept(r, v) ==
    \/ now > v.at + KeyLife
    \/ idem[r] # None /\ idem[r].expires >= v.at + KeyLife

OnceInv ==
    /\ ExecutedOnce
    /\ \A d \in Deliveries : inv[d].ran =>
         /\ KeyKept(d[1], inv[d])
         /\ Signed(d[1]) => inv[d].at - sent[d[1]].stamp \in -FreshWindow .. FreshWindow

\* A stored or repeated answer is the answer of a delivery that ran.
AnsweredBy(v, reply) == v.ran /\ v.pc \in {"finish", "done"} /\ v.reply = reply

Answered(r, reply) == \E n \in {1, 2} : AnsweredBy(inv[<<r, n>>], reply)

AnswerInv ==
    /\ \A r \in Reqs : idem[r] # None /\ idem[r].reply # None => Answered(r, idem[r].reply)
    /\ \A d \in Deliveries :
         inv[d].pc = "done" /\ inv[d].reply.code # "REQUEST_IN_PROGRESS" => Answered(d[1], inv[d].reply)

ServiceInv ==
    TypeInv /\ RowInv /\ UniqueInv /\ LocalInv /\ ReplyInv /\ OnceInv /\ AnswerInv

----------------------------------------------------------------------------
(* Fields *)

LEMMA LicenseFields ==
    ASSUME NEW v \in LicenseRows
    PROVE  /\ v.kind \in {"TRIAL", "SUBSCRIPTION", "PERPETUAL"}
           /\ v.status \in {"ACTIVE", "SUSPENDED"} /\ v.expires \in Nat
           /\ v.gone \in Nat \cup {None} /\ v.sourced \in BOOLEAN /\ v # None
    BY RowsAssumption, SMT DEF LicenseRows

LEMMA DeviceFields ==
    ASSUME NEW v \in DeviceRows
    PROVE  v.license \in Licenses /\ v.key \in STRING /\ v.active \in BOOLEAN /\ v.off \in Nat
    BY SMT DEF DeviceRows

LEMMA CodeFields ==
    ASSUME NEW v \in CodeRows
    PROVE  /\ v.license \in Licenses /\ v.kind \in CodeKinds /\ v.months \in Nat /\ v.bound \in Nat
           /\ v.expires \in Nat /\ v.used \in BOOLEAN /\ v.by \in Nat /\ v # None
    BY RowsAssumption, SMT DEF CodeRows

LEMMA TransferFields ==
    ASSUME NEW v \in TransferRows
    PROVE  /\ v.status \in {"PENDING", "APPROVED", "CLAIMED", "REJECTED", "EXPIRED"}
           /\ v.key \in STRING /\ v.license \in Licenses \cup {None} /\ v.device \in Nat
           /\ v.expires \in Nat /\ v # None
    BY RowsAssumption, SMT DEF TransferRows

LEMMA ContentsFields ==
    ASSUME NEW v \in Contents
    PROVE  /\ v.op \in {"trial", "check", "redeem", "transfer", "claim", "license", "code",
                        "sources", "approve", "delete"}
           /\ v.key \in STRING /\ v.subject \in STRING /\ v.license \in Licenses /\ v.device \in Nat
           /\ v.code \in Codes /\ v.transfer \in Transfers /\ v.kind \in CodeKinds
           /\ v.months \in Nat /\ v.sourced \in BOOLEAN /\ v.stamp \in Int /\ v.retried \in BOOLEAN
    BY SMT DEF Contents

LEMMA InvocationFields ==
    ASSUME NEW v \in Invocations
    PROVE  /\ v.pc \in {"idle", "first", "second", "third", "write", "recover", "finish", "done"}
           /\ v.at \in Nat /\ v.ran \in BOOLEAN /\ v.code \in CodeRows \cup TransferRows \cup {None}
           /\ v.lic \in LicenseRows \cup {None} /\ v.dev \in Nat /\ v.sourced \in BOOLEAN
           /\ v.reply \in Replies \cup {None}
    BY SMT DEF Invocations

LEMMA KeyFields ==
    ASSUME NEW v \in Keys
    PROVE  v.expires \in Nat /\ v.reply \in Replies \cup {None} /\ v # None
    BY RowsAssumption, SMT DEF Keys

LEMMA ReplyFields ==
    ASSUME NEW v \in Replies
    PROVE  /\ v.code \in ReplyCodes /\ v.license \in Licenses \cup Codes \cup Transfers \cup {None}
           /\ v.device \in Nat /\ v.search \in BOOLEAN /\ v.until \in Nat /\ v # None
    BY RowsAssumption, SMT DEF Replies

\* What the type invariant says of one delivery.
LEMMA DeliveryTypes ==
    ASSUME TypeInv, NEW d \in Deliveries
    PROVE  /\ d[1] \in Reqs /\ Ask(d) = sent[d[1]] /\ Ask(d) \in Contents
           /\ inv[d] \in Invocations /\ now \in Nat
    BY RowsAssumption, SMT DEF TypeInv, Deliveries, Ask

LEMMA DeviceTypes ==
    ASSUME TypeInv
    PROVE  /\ DOMAIN devices = 1 .. Len(devices) /\ Len(devices) \in Nat
           /\ DOMAIN devices \subseteq Nat \ {0}
           /\ \A i \in DOMAIN devices : devices[i] \in DeviceRows
    BY SMT DEF TypeInv

----------------------------------------------------------------------------
(* Answers *)

LEMMA FailReply ==
    ASSUME NEW code \in ReplyCodes
    PROVE  Fail(code) \in Replies /\ Fail(code).device = 0 /\ Fail(code).code = code
<1>1. Fail(code) \in Replies
    BY DEF Fail, Replies
<1> QED  BY <1>1, SMT DEF Fail

LEMMA DoneReply ==
    ASSUME NEW id \in Licenses \cup Codes \cup Transfers
    PROVE  Done(id) \in Replies /\ Done(id).device = 0 /\ Done(id).code = "OK"
<1>1. Done(id) \in Replies
  <2>1. id \in Licenses \cup Codes \cup Transfers \cup {None} /\ "OK" \in ReplyCodes /\ 0 \in Nat
      BY DEF ReplyCodes
  <2> QED  BY <2>1, Zenon DEF Done, Replies
<1> QED  BY <1>1, SMT DEF Done

LEMMA LeaseReply ==
    ASSUME NEW l \in Licenses, NEW i \in Nat, NEW lic, NEW sourced, NEW t \in Nat,
           sourced \in BOOLEAN
    PROVE  /\ createLease(l, i, lic, sourced, t) \in Replies
           /\ createLease(l, i, lic, sourced, t).code = "OK"
           /\ createLease(l, i, lic, sourced, t).license = l
           /\ createLease(l, i, lic, sourced, t).device = i
           /\ createLease(l, i, lic, sourced, t).until = t + LeaseLife
           /\ createLease(l, i, lic, sourced, t).search => lic.status = "ACTIVE"
<1> DEFINE search == canSearch(lic, t) /\ sourced
           until == t + LeaseLife
           reply == createLease(l, i, lic, sourced, t)
<1>1. search \in BOOLEAN /\ (search => lic.status = "ACTIVE")
    BY Zenon DEF canSearch
<1>2. until \in Nat
    BY RowsAssumption, SMT
<1>3. reply = [code |-> "OK", license |-> l, device |-> i, search |-> search, until |-> until]
    BY Zenon DEF createLease
<1> HIDE DEF search, until, reply
<1>4. reply \in Replies
  <2>1. l \in Licenses \cup Codes \cup Transfers \cup {None} /\ "OK" \in ReplyCodes
      BY DEF ReplyCodes
  <2> QED  BY <1>1, <1>2, <1>3, <2>1, Zenon DEF Replies
<1>5. reply.code = "OK" /\ reply.license = l /\ reply.device = i /\ reply.until = until
      /\ reply.search = search
    BY <1>3, SMT
<1> QED  BY <1>1, <1>4, <1>5 DEF reply, until

\* An answer without a device says nothing about bindings.
LEMMA PlainAnswer ==
    ASSUME NEW ask, NEW reply, reply.device = 0
    PROVE  Kept(ask, reply)
    BY DEF Kept

\* A lease that is granted now on an active licence and a device that are held.
LEMMA LeaseKept ==
    ASSUME TypeInv, NEW v \in Invocations, NEW ask, v.at =< now,
           NEW l \in Licenses, NEW i \in DOMAIN devices,
           ask.op = "redeem" =>
              codes[ask.code] # None /\ codes[ask.code].used /\ i = codes[ask.code].by,
           NEW lic, NEW sourced,
           sourced \in BOOLEAN, HeldDevice(v, i), licenses[l] # None,
           lic.status = "ACTIVE" /\ licenses[l].gone # None => v.at =< licenses[l].gone
    PROVE  /\ createLease(l, i, lic, sourced, v.at) \in Replies
           /\ Kept(ask, createLease(l, i, lic, sourced, v.at))
<1> DEFINE reply == createLease(l, i, lic, sourced, v.at)
<1>1. i \in Nat /\ v.at \in Nat /\ now \in Nat /\ devices[i].off \in Nat
    BY DeviceTypes, DeviceFields, InvocationFields, RowsAssumption, SMT DEF TypeInv
<1>2. /\ reply \in Replies /\ reply.code = "OK" /\ reply.license = l /\ reply.device = i
      /\ reply.until = v.at + LeaseLife /\ (reply.search => lic.status = "ACTIVE")
  <2>1. reply \in Replies
      BY <1>1, LeaseReply, Zenon
  <2> QED  BY <1>1, <2>1, LeaseReply, SMT
<1> HIDE DEF reply
<1>3. licenses[l].gone \in Nat \cup {None}
    BY LicenseFields DEF TypeInv
<1>4. Kept(ask, reply)
    BY <1>1, <1>2, <1>3, RowsAssumption, SMT DEF Kept, HeldDevice
<1> QED  BY <1>2, <1>4 DEF reply

----------------------------------------------------------------------------
(* What every step does to the tables *)

\* Rows stay; a licence is deleted and a device unbound at the instant of the
\* write; a code stays spent on its device.
Grow ==
    /\ sent' = sent /\ now =< now'
    /\ \A l \in Licenses : licenses[l] # None =>
         /\ licenses'[l] # None
         /\ licenses'[l].gone = licenses[l].gone \/ licenses'[l].gone = now
    /\ DOMAIN devices \subseteq DOMAIN devices'
    /\ \A i \in DOMAIN devices :
         \/ devices'[i].active = devices[i].active /\ devices'[i].off = devices[i].off
         \/ ~devices'[i].active /\ devices'[i].off = now
    /\ \A c \in Codes : codes[c] # None =>
         /\ codes'[c] # None
         /\ codes[c].used => codes'[c].used /\ codes'[c].by = codes[c].by
    /\ \A t \in Transfers : transfers[t] # None => transfers'[t] # None

LEMMA GrowKept ==
    ASSUME TypeInv, TypeInv', Grow, NEW ask \in Contents, NEW reply \in Replies, Kept(ask, reply)
    PROVE  Kept(ask, reply)'
<1> SUFFICES ASSUME reply.code = "OK", reply.device # 0 PROVE Kept(ask, reply)'
    BY DEF Kept
<1> DEFINE i == reply.device
           l == reply.license
<1>1. /\ i \in DOMAIN devices /\ l \in Licenses /\ licenses[l] # None
      /\ reply.until =< now + LeaseLife
      /\ ~devices[i].active => reply.until =< devices[i].off + LeaseLife
      /\ licenses[l].gone # None /\ reply.search => reply.until =< licenses[l].gone + LeaseLife
      /\ ask.op = "redeem" =>
           codes[ask.code] # None /\ codes[ask.code].used /\ i = codes[ask.code].by
    BY DEF Kept
<1>2. /\ now \in Nat /\ now' \in Nat /\ now =< now' /\ LeaseLife \in Nat /\ reply.until \in Nat
    BY RowsAssumption, ReplyFields, SMT DEF TypeInv, Grow
<1>3. i \in DOMAIN devices' /\ l \in Licenses /\ licenses'[l] # None
      /\ reply.until =< now' + LeaseLife
    BY <1>1, <1>2, SMT DEF Grow
<1>4. ~devices'[i].active => reply.until =< devices'[i].off + LeaseLife
    BY <1>1, <1>2, SMT DEF Grow
<1>5. licenses'[l].gone # None /\ reply.search => reply.until =< licenses'[l].gone + LeaseLife
    BY <1>1, <1>2, SMT DEF Grow
<1>6. ask.op = "redeem" =>
        codes'[ask.code] # None /\ codes'[ask.code].used /\ i = codes'[ask.code].by
  <2>1. ask.code \in Codes
      BY ContentsFields
  <2> QED  BY <1>1, <2>1 DEF Grow
<1> QED  BY <1>3, <1>4, <1>5, <1>6, Zenon DEF Kept

LEMMA GrowHeld ==
    ASSUME TypeInv, TypeInv', Grow, NEW v \in Invocations, v.at =< now
    PROVE  /\ \A l \in Licenses : HeldLicense(v, l) => HeldLicense(v, l)'
           /\ \A i \in DOMAIN devices : HeldDevice(v, i) => HeldDevice(v, i)'
<1>1. v.at \in Nat /\ now \in Nat
    BY RowsAssumption, InvocationFields, SMT DEF TypeInv
<1>2. ASSUME NEW l \in Licenses, HeldLicense(v, l) PROVE HeldLicense(v, l)'
    BY <1>1, <1>2, SMT DEF HeldLicense, Grow
<1>3. ASSUME NEW i \in DOMAIN devices, HeldDevice(v, i) PROVE HeldDevice(v, i)'
    BY <1>1, <1>3, SMT DEF HeldDevice, Grow
<1> QED  BY <1>2, <1>3

LEMMA GrowLocal ==
    ASSUME TypeInv, TypeInv', Grow, NEW ask \in Contents, NEW v \in Invocations, Local(v, ask)
    PROVE  Local(v, ask)'
<1>1. /\ v.at =< now /\ v.at \in Nat /\ now \in Nat /\ now' \in Nat /\ now =< now'
      /\ ask.license \in Licenses /\ ask.code \in Codes /\ ask.transfer \in Transfers
    BY RowsAssumption, InvocationFields, ContentsFields, SMT DEF TypeInv, Local, Grow
<1>2. v.at =< now'
    BY <1>1, SMT
<1>3. /\ \A l \in Licenses : licenses[l] # None => licenses'[l] # None
      /\ \A t \in Transfers : transfers[t] # None => transfers'[t] # None
      /\ \A c \in Codes : codes[c] # None => codes'[c] # None
      /\ DOMAIN devices \subseteq DOMAIN devices'
    BY DEF Grow
<1>4. Redeeming(v, ask)'
  <2> SUFFICES ASSUME ask.op = "redeem" PROVE Redeeming(v, ask)'
      BY DEF Redeeming
  <2>1. v.pc \in {"second", "write"} => v.code \in CodeRows /\ HeldLicense(v, v.code.license)'
    <3> SUFFICES ASSUME v.pc \in {"second", "write"}
                 PROVE  v.code \in CodeRows /\ HeldLicense(v, v.code.license)'
        OBVIOUS
    <3>1. v.code \in CodeRows /\ HeldLicense(v, v.code.license)
        BY DEF Local, Redeeming
    <3>2. PICK l \in Licenses : l = v.code.license
        BY <3>1, CodeFields
    <3> QED  BY <1>1, <3>1, <3>2, GrowHeld
  <2>2. v.pc \in {"second", "write", "recover"} => codes'[ask.code] # None
      BY <1>1, <1>3 DEF Local, Redeeming
  <2>3. v.pc = "write" => v.dev = 0 \/ HeldDevice(v, v.dev)'
    <3> SUFFICES ASSUME v.pc = "write", v.dev # 0 PROVE HeldDevice(v, v.dev)'
        OBVIOUS
    <3>1. HeldDevice(v, v.dev)
        BY DEF Local, Redeeming
    <3>2. PICK i \in DOMAIN devices : i = v.dev
        BY <3>1 DEF HeldDevice
    <3> QED  BY <1>1, <3>1, <3>2, GrowHeld
  <2> QED  BY <2>1, <2>2, <2>3, Zenon DEF Redeeming
<1>5. Claiming(v, ask)'
  <2> SUFFICES ASSUME ask.op = "claim" PROVE Claiming(v, ask)'
      BY DEF Claiming
  <2>0. Claiming(v, ask)
      BY DEF Local
  <2>1. v.pc \in {"second", "third", "write"} =>
             /\ v.code \in TransferRows /\ transfers'[ask.transfer] # None
             /\ v.code.license \in Licenses /\ licenses'[v.code.license] # None
             /\ v.code.device \in DOMAIN devices'
      BY <1>1, <1>3, <2>0 DEF Claiming
  <2>2. v.pc \in {"third", "write"} => HeldLicense(v, v.code.license)'
    <3> SUFFICES ASSUME v.pc \in {"third", "write"} PROVE HeldLicense(v, v.code.license)'
        OBVIOUS
    <3>1. v.code.license \in Licenses /\ HeldLicense(v, v.code.license)
        BY <2>0 DEF Claiming
    <3>2. PICK l \in Licenses : l = v.code.license
        BY <3>1
    <3> QED  BY <1>1, <3>1, <3>2, GrowHeld
  <2>3. v.pc = "write" => HeldDevice(v, v.code.device)'
    <3> SUFFICES ASSUME v.pc = "write" PROVE HeldDevice(v, v.code.device)'
        OBVIOUS
    <3>1. HeldDevice(v, v.code.device)
        BY <2>0 DEF Claiming
    <3>2. PICK i \in DOMAIN devices : i = v.code.device
        BY <3>1 DEF HeldDevice
    <3> QED  BY <1>1, <3>1, <3>2, GrowHeld
  <2> QED  BY <2>1, <2>2, <2>3, Zenon DEF Claiming
<1>6. Administering(v, ask)'
  <2>0. Administering(v, ask)
      BY DEF Local
  <2>1. PICK l \in Licenses : l = ask.license
      BY <1>1
  <2>2. HeldLicense(v, l) => HeldLicense(v, l)'
      BY <1>1, GrowHeld
  <2> QED  BY <1>1, <1>3, <2>0, <2>1, <2>2 DEF Administering
<1> QED  BY <1>2, <1>4, <1>5, <1>6, Zenon DEF Local

----------------------------------------------------------------------------
(* The frame of a step of a handler *)

\* A handler of delivery d goes on with the invocation new.
LEMMA HandlerStep ==
    ASSUME ServiceInv, NEW d \in Deliveries, NEW new \in Invocations,
           inv' = [inv EXCEPT ![d] = new], idem' = idem, now' = now,
           inv[d].pc \notin {"idle", "finish", "done"}, new.pc \notin {"idle", "done"},
           new.at = inv[d].at, new.ran = inv[d].ran,
           TypeInv', Grow, RowInv', UniqueInv', Local(new, Ask(d))',
           new.reply # None => Kept(Ask(d), new.reply)'
    PROVE  ServiceInv'
<1>0. TypeInv /\ LocalInv /\ ReplyInv /\ OnceInv /\ AnswerInv
    BY DEF ServiceInv
<1>1. /\ sent' = sent
      /\ \A e \in Deliveries : Ask(e)' = Ask(e) /\ Ask(e) \in Contents /\ e[1] \in Reqs
      /\ inv[d] \in Invocations
    BY <1>0, DeliveryTypes DEF Grow, Ask
<1>2. \A e \in Deliveries : inv'[e] = IF e = d THEN new ELSE inv[e]
    BY <1>0 DEF TypeInv
<1>3. LocalInv'
  <2> SUFFICES ASSUME NEW e \in Deliveries PROVE Local(inv[e], Ask(e))'
      BY DEF LocalInv
  <2>1. CASE e = d
      BY <1>1, <1>2, <2>1 DEF Ask
  <2>2. CASE e # d
    <3>1. PICK v \in Invocations : v = inv[e] /\ v = inv'[e]
        BY <1>0, <1>2, <2>2 DEF TypeInv
    <3>2. PICK ask \in Contents : ask = Ask(e) /\ ask = Ask(e)'
        BY <1>1
    <3>3. Local(v, ask)
        BY <1>0, <3>1, <3>2 DEF LocalInv
    <3>4. Local(v, ask)'
        BY <1>0, <3>3, GrowLocal
    <3> QED  BY <3>1, <3>2, <3>4
  <2> QED  BY <2>1, <2>2
<1>4. ReplyInv'
  <2>1. ASSUME NEW e \in Deliveries, inv'[e].reply # None PROVE Kept(Ask(e), inv[e].reply)'
    <3>1. CASE e = d
        BY <1>1, <1>2, <2>1, <3>1 DEF Ask
    <3>2. CASE e # d
      <4>1. inv'[e] = inv[e] /\ inv[e] \in Invocations
          BY <1>0, <1>2, <3>2 DEF TypeInv
      <4>2. PICK reply \in Replies : reply = inv[e].reply /\ reply = inv'[e].reply
          BY <2>1, <4>1, InvocationFields
      <4>3. PICK ask \in Contents : ask = Ask(e) /\ ask = Ask(e)'
          BY <1>1
      <4>4. Kept(ask, reply)
          BY <1>0, <2>1, <4>1, <4>2, <4>3 DEF ReplyInv
      <4>5. Kept(ask, reply)'
          BY <1>0, <4>4, GrowKept
      <4> QED  BY <4>2, <4>3, <4>5
    <3> QED  BY <3>1, <3>2
  <2>2. ASSUME NEW r \in Reqs, idem'[r] # None, idem'[r].reply # None
        PROVE  Kept(sent[r], idem[r].reply)'
    <3>1. idem'[r] = idem[r] /\ idem[r] \in Keys
        BY <1>0, <2>2 DEF TypeInv
    <3>2. PICK reply \in Replies : reply = idem[r].reply /\ reply = idem'[r].reply
        BY <2>2, <3>1, KeyFields
    <3>3. PICK ask \in Contents : ask = sent[r] /\ ask = sent'[r]
        BY <1>0, <1>1 DEF TypeInv
    <3>4. Kept(ask, reply)
        BY <1>0, <2>2, <3>1, <3>2, <3>3 DEF ReplyInv
    <3>5. Kept(ask, reply)'
        BY <1>0, <3>4, GrowKept
    <3> QED  BY <3>2, <3>3, <3>5
  <2> QED  BY <2>1, <2>2 DEF ReplyInv
<1>5. \A e \in Deliveries : inv'[e].ran = inv[e].ran /\ inv'[e].at = inv[e].at
    BY <1>2
<1>6. OnceInv'
  <2>1. \A r \in Reqs : <<r, 1>> \in Deliveries /\ <<r, 2>> \in Deliveries
      BY DEF Deliveries
  <2>2. ExecutedOnce'
      BY <1>0, <1>1, <1>5, <2>1 DEF OnceInv, ExecutedOnce, Signed
  <2>3. ASSUME NEW e \in Deliveries, inv'[e].ran
        PROVE  /\ KeyKept(e[1], inv[e])'
               /\ Signed(e[1])' => inv'[e].at - sent'[e[1]].stamp \in -FreshWindow .. FreshWindow
      BY <1>0, <1>1, <1>5, <2>3 DEF OnceInv, KeyKept, Signed
  <2> QED  BY <2>2, <2>3 DEF OnceInv
<1>7. AnswerInv'
  <2>1. ASSUME NEW r \in Reqs, NEW reply, Answered(r, reply) PROVE Answered(r, reply)'
    <3>1. PICK n \in {1, 2} : AnsweredBy(inv[<<r, n>>], reply)
        BY <2>1 DEF Answered
    <3>2. <<r, n>> \in Deliveries /\ <<r, n>> # d
        BY <3>1 DEF Deliveries, AnsweredBy
    <3>3. inv'[<<r, n>>] = inv[<<r, n>>]
        BY <1>2, <3>2
    <3> QED  BY <3>1, <3>3 DEF Answered, AnsweredBy
  <2>2. ASSUME NEW r \in Reqs, idem'[r] # None, idem'[r].reply # None
        PROVE  Answered(r, idem[r].reply)'
    <3>1. PICK reply : reply = idem[r].reply /\ reply = idem'[r].reply
        OBVIOUS
    <3>2. Answered(r, reply)
        BY <1>0, <2>2, <3>1 DEF AnswerInv
    <3> QED  BY <2>1, <3>1, <3>2
  <2>3. ASSUME NEW e \in Deliveries, inv'[e].pc = "done", inv'[e].reply.code # "REQUEST_IN_PROGRESS"
        PROVE  Answered(e[1], inv[e].reply)'
    <3>1. e # d /\ inv'[e] = inv[e] /\ e[1] \in Reqs
        BY <1>1, <1>2, <2>3
    <3>2. PICK r \in Reqs : r = e[1]
        BY <3>1
    <3>3. PICK reply : reply = inv[e].reply /\ reply = inv'[e].reply
        BY <3>1
    <3>4. Answered(r, reply)
        BY <1>0, <2>3, <3>1, <3>2, <3>3 DEF AnswerInv
    <3> QED  BY <2>1, <3>2, <3>3, <3>4
  <2> QED  BY <2>2, <2>3 DEF AnswerInv
<1> QED  BY <1>3, <1>4, <1>6, <1>7 DEF ServiceInv

LEMMA AnswerFields ==
    ASSUME NEW v \in Invocations, NEW reply \in Replies
    PROVE  LET new == [v EXCEPT !.pc = "finish", !.reply = reply]
           IN  /\ new \in Invocations /\ new.pc = "finish" /\ new.reply = reply
               /\ new.at = v.at /\ new.ran = v.ran
<1> DEFINE new == [v EXCEPT !.pc = "finish", !.reply = reply]
<1>1. new \in Invocations
  <2>1. "finish" \in {"idle", "first", "second", "third", "write", "recover", "finish", "done"}
        /\ reply \in Replies \cup {None}
      OBVIOUS
  <2> QED  BY <2>1, Zenon DEF Invocations
<1>2. new.pc = "finish" /\ new.reply = reply /\ new.at = v.at /\ new.ran = v.ran
    BY SMT DEF Invocations
<1> QED  BY <1>1, <1>2

LEMMA GoToFields ==
    ASSUME NEW v \in Invocations, NEW pc \in {"second", "third", "write", "recover"}
    PROVE  LET new == [v EXCEPT !.pc = pc]
           IN  /\ new \in Invocations /\ new.pc = pc /\ new.reply = v.reply
               /\ new.at = v.at /\ new.ran = v.ran /\ new.code = v.code /\ new.lic = v.lic
               /\ new.dev = v.dev
<1> DEFINE new == [v EXCEPT !.pc = pc]
<1>1. new \in Invocations
  <2>1. pc \in {"idle", "first", "second", "third", "write", "recover", "finish", "done"}
      OBVIOUS
  <2> QED  BY <2>1, Zenon DEF Invocations
<1>2. /\ new.pc = pc /\ new.reply = v.reply /\ new.at = v.at /\ new.ran = v.ran
      /\ new.code = v.code /\ new.lic = v.lic /\ new.dev = v.dev
    BY SMT DEF Invocations
<1> QED  BY <1>1, <1>2

\* A handler is at work for the delivery d.
Working(d) == d \in Deliveries /\ inv[d].pc \notin {"idle", "finish", "done"}

LEMMA WorkingFacts ==
    ASSUME ServiceInv, NEW d \in Deliveries, Working(d)
    PROVE  /\ inv[d] \in Invocations /\ Ask(d) \in Contents /\ now \in Nat
           /\ inv[d].at \in Nat /\ inv[d].at =< now /\ inv[d].ran
           /\ Local(inv[d], Ask(d))
           /\ inv[d].reply # None => Kept(Ask(d), inv[d].reply)
<1>1. inv[d] \in Invocations /\ Ask(d) \in Contents /\ now \in Nat
    BY DeliveryTypes DEF ServiceInv
<1>2. Local(inv[d], Ask(d)) /\ (inv[d].reply # None => Kept(Ask(d), inv[d].reply))
    BY DEF ServiceInv, LocalInv, ReplyInv
<1> QED  BY <1>1, <1>2, InvocationFields DEF Local, Working

\* The steps that only read.
LEMMA ReadStep ==
    ASSUME ServiceInv, NEW d \in Deliveries, Working(d), ReadsOnly, NEW new \in Invocations,
           inv' = [inv EXCEPT ![d] = new], new.pc \notin {"idle", "done"},
           new.at = inv[d].at, new.ran = inv[d].ran,
           Local(new, Ask(d)), new.reply # None => Kept(Ask(d), new.reply)
    PROVE  ServiceInv'
<1>0. TypeInv /\ RowInv /\ UniqueInv
    BY DEF ServiceInv
<1>1. /\ now' = now /\ idem' = idem /\ sent' = sent /\ licenses' = licenses /\ devices' = devices
      /\ codes' = codes /\ transfers' = transfers /\ claims' = claims /\ audit' = audit
    BY DEF ReadsOnly, tables
<1>2. TypeInv'
    BY <1>0, <1>1 DEF TypeInv
<1>3. RowInv' /\ UniqueInv'
    BY <1>0, <1>1, Zenon DEF RowInv, UniqueInv
<1>4. Grow
  <2>1. now \in Nat
      BY <1>0, RowsAssumption, SMT DEF TypeInv
  <2> QED  BY <1>1, <2>1, SMT DEF Grow
<1>5. PICK ask : ask = Ask(d) /\ ask = Ask(d)'
    BY <1>1 DEF Ask
<1>6. ASSUME NEW reply, Kept(ask, reply) PROVE Kept(ask, reply)'
    BY <1>1, <1>6, Zenon DEF Kept
<1>7. Local(new, ask)'
  <2>1. Local(new, ask)
      BY <1>5
  <2>2. Redeeming(new, ask)' /\ Claiming(new, ask)' /\ Administering(new, ask)'
      BY <1>1, <2>1, Zenon DEF Local, Redeeming, Claiming, Administering, HeldLicense, HeldDevice
  <2> QED  BY <1>1, <2>1, <2>2, Zenon DEF Local
<1>8. PICK reply : reply = new.reply
    OBVIOUS
<1>9. reply # None => Kept(ask, reply)'
    BY <1>5, <1>6, <1>8
<1> QED  BY <1>1, <1>2, <1>3, <1>4, <1>5, <1>7, <1>8, <1>9, HandlerStep DEF Working

LEMMA AnswerStep ==
    ASSUME ServiceInv, NEW d \in Deliveries, Working(d), ReadsOnly,
           NEW reply \in Replies, Kept(Ask(d), reply), Answer(d, reply)
    PROVE  ServiceInv'
<1>1. PICK v \in Invocations : v = inv[d]
    BY WorkingFacts
<1> DEFINE new == [v EXCEPT !.pc = "finish", !.reply = reply]
<1>2. /\ new \in Invocations /\ new.pc = "finish" /\ new.reply = reply
      /\ new.at = v.at /\ new.ran = v.ran
    BY AnswerFields
<1>3. inv' = [inv EXCEPT ![d] = new]
    BY <1>1 DEF Answer
<1> HIDE DEF new
<1>4. Local(new, Ask(d))
  <2>1. reply # None
      BY ReplyFields
  <2> QED  BY <1>1, <1>2, <2>1, WorkingFacts DEF Local, Redeeming, Claiming, Administering
<1> QED  BY <1>1, <1>2, <1>3, <1>4, ReadStep

LEMMA FailStep ==
    ASSUME ServiceInv, NEW d \in Deliveries, Working(d), ReadsOnly,
           NEW code \in ReplyCodes, Answer(d, Fail(code))
    PROVE  ServiceInv'
<1>1. Fail(code) \in Replies /\ Kept(Ask(d), Fail(code))
    BY FailReply, PlainAnswer
<1> QED  BY <1>1, AnswerStep

LEMMA GoToStep ==
    ASSUME ServiceInv, NEW d \in Deliveries, Working(d), ReadsOnly,
           NEW pc \in {"second", "third", "write", "recover"}, GoTo(d, pc),
           \A v \in Invocations :
              /\ v.pc = pc /\ v.at = inv[d].at /\ v.code = inv[d].code /\ v.lic = inv[d].lic
              /\ v.dev = inv[d].dev
              => Redeeming(v, Ask(d)) /\ Claiming(v, Ask(d)) /\ Administering(v, Ask(d))
    PROVE  ServiceInv'
<1>1. PICK v \in Invocations : v = inv[d]
    BY WorkingFacts
<1> DEFINE new == [v EXCEPT !.pc = pc]
<1>2. /\ new \in Invocations /\ new.pc = pc /\ new.reply = v.reply
      /\ new.at = v.at /\ new.ran = v.ran /\ new.code = v.code /\ new.lic = v.lic
      /\ new.dev = v.dev
    BY GoToFields
<1>3. inv' = [inv EXCEPT ![d] = new]
    BY <1>1 DEF GoTo
<1> HIDE DEF new
<1>4. Local(new, Ask(d))
  <2>1. Redeeming(new, Ask(d)) /\ Claiming(new, Ask(d)) /\ Administering(new, Ask(d))
      BY <1>1, <1>2
  <2> QED  BY <1>1, <1>2, <2>1, WorkingFacts DEF Local
<1>5. new.reply # None => Kept(Ask(d), new.reply)
    BY <1>1, <1>2, WorkingFacts
<1> QED  BY <1>1, <1>2, <1>3, <1>4, <1>5, ReadStep

\* The steps that write the tables and answer.
LEMMA WriteStep ==
    ASSUME ServiceInv, NEW d \in Deliveries, Working(d), WritesTables,
           NEW reply \in Replies, Answer(d, reply), Kept(Ask(d), reply)',
           licenses' \in [Licenses -> LicenseRows \cup {None}], devices' \in Seq(DeviceRows),
           codes' \in [Codes -> CodeRows \cup {None}],
           transfers' \in [Transfers -> TransferRows \cup {None}], claims' \subseteq ClaimRows,
           Grow, RowInv', UniqueInv'
    PROVE  ServiceInv'
<1>0. TypeInv
    BY DEF ServiceInv
<1>1. PICK v \in Invocations : v = inv[d]
    BY WorkingFacts
<1> DEFINE new == [v EXCEPT !.pc = "finish", !.reply = reply]
<1>2. /\ new \in Invocations /\ new.pc = "finish" /\ new.reply = reply
      /\ new.at = v.at /\ new.ran = v.ran
    BY AnswerFields
<1>3. inv' = [inv EXCEPT ![d] = new]
    BY <1>1 DEF Answer
<1> HIDE DEF new
<1>4. now' = now /\ idem' = idem /\ sent' = sent
    BY DEF WritesTables
<1>5. TypeInv'
    BY <1>0, <1>2, <1>3, <1>4 DEF TypeInv
<1>6. PICK ask : ask = Ask(d) /\ ask = Ask(d)'
    BY <1>4 DEF Ask
<1>7. Local(new, ask)'
  <2>1. reply # None
      BY ReplyFields
  <2>2. new.at =< now' /\ new.ran
      BY <1>1, <1>2, <1>4, WorkingFacts
  <2> QED  BY <1>2, <2>1, <2>2 DEF Local, Redeeming, Claiming, Administering
<1> QED  BY <1>1, <1>2, <1>3, <1>4, <1>5, <1>6, <1>7, HandlerStep DEF Working

----------------------------------------------------------------------------
(* The steps that read: trial and check *)

LEMMA TrialFound ==
    ASSUME ServiceInv, NEW d \in Deliveries, Working(d), Ask(d).op = "trial",
           NEW k, NEW subject, recoveredTrialResponse(k, subject, inv[d].at) # None
    PROVE  /\ recoveredTrialResponse(k, subject, inv[d].at) \in Replies
           /\ Kept(Ask(d), recoveredTrialResponse(k, subject, inv[d].at))
<1>0. TypeInv /\ RowInv
    BY DEF ServiceInv
<1>1. PICK v \in Invocations : v = inv[d]
    BY WorkingFacts
<1>2. v.at \in Nat /\ v.at =< now
    BY <1>1, WorkingFacts
<1> DEFINE own == {i \in TrialBinding(k, subject) : canSearch(licenses[devices[i].license], v.at)}
           i == CHOOSE i \in own : TRUE
           l == devices[i].license
<1>3. own # {} /\ recoveredTrialResponse(k, subject, v.at) =
                    createLease(l, i, licenses[l], licenses[l].sourced, v.at)
    BY <1>1 DEF recoveredTrialResponse
<1>4. i \in own
    BY <1>3
<1>5. /\ i \in DOMAIN devices /\ devices[i].active
      /\ licenses[l].status = "ACTIVE"
    BY <1>4 DEF TrialBinding, canSearch
<1> HIDE DEF i
<1>6. l \in Licenses /\ licenses[l] # None
    BY <1>0, <1>5, DeviceTypes, DeviceFields DEF RowInv
<1> HIDE DEF l
<1>7. licenses[l] \in LicenseRows /\ licenses[l].gone = None
    BY <1>0, <1>5, <1>6 DEF TypeInv, RowInv
<1>8. licenses[l].sourced \in BOOLEAN
    BY <1>7, LicenseFields
<1>9. HeldDevice(v, i)
    BY <1>5 DEF HeldDevice
<1> DEFINE lic == licenses[l]
           sourced == licenses[l].sourced
<1>10. lic.status = "ACTIVE" /\ licenses[l].gone # None => v.at =< licenses[l].gone
    BY <1>7
<1>11. sourced \in BOOLEAN /\ Ask(d).op # "redeem"
    BY <1>8
<1> HIDE DEF lic, sourced
<1>12. /\ createLease(l, i, lic, sourced, v.at) \in Replies
       /\ Kept(Ask(d), createLease(l, i, lic, sourced, v.at))
    BY <1>0, <1>2, <1>5, <1>6, <1>9, <1>10, <1>11, LeaseKept
<1> QED  BY <1>1, <1>3, <1>12 DEF lic, sourced

LEMMA TrialReadStep ==
    ASSUME ServiceInv, NEW d \in Deliveries, Working(d),
           TrialRecover(d) \/ TrialUnused(d) \/ TrialRaced(d)
    PROVE  ServiceInv'
<1>1. Ask(d).op = "trial" /\ ReadsOnly
    BY DEF TrialRecover, TrialUnused, TrialRaced, At
<1>2. \A v : Redeeming(v, Ask(d)) /\ Claiming(v, Ask(d)) /\ Administering(v, Ask(d))
    BY <1>1 DEF Redeeming, Claiming, Administering
<1>3. ASSUME NEW pc \in {"second", "write"}, GoTo(d, pc) PROVE ServiceInv'
    BY <1>1, <1>2, <1>3, GoToStep
<1>4. ASSUME Answer(d, Fail("TRIAL_UNAVAILABLE")) PROVE ServiceInv'
  <2>1. "TRIAL_UNAVAILABLE" \in ReplyCodes
      BY DEF ReplyCodes
  <2> QED  BY <1>1, <1>4, <2>1, FailStep
<1> DEFINE found == recoveredTrialResponse(Ask(d).key, Ask(d).subject, inv[d].at)
<1>5. ASSUME found # None, Answer(d, found) PROVE ServiceInv'
  <2>1. found \in Replies /\ Kept(Ask(d), found)
      BY <1>1, <1>5, TrialFound
  <2> HIDE DEF found
  <2> QED  BY <1>1, <1>5, <2>1, AnswerStep
<1>6. \/ found # None /\ Answer(d, found)
      \/ Answer(d, Fail("TRIAL_UNAVAILABLE"))
      \/ \E pc \in {"second", "write"} : GoTo(d, pc)
  <2>1. CASE TrialRecover(d)
      BY <2>1, Zenon DEF TrialRecover
  <2>2. CASE TrialUnused(d)
      BY <2>2, Zenon DEF TrialUnused
  <2>3. CASE TrialRaced(d)
    <3> HIDE DEF found
    <3>1. Answer(d, IF found # None THEN found ELSE Fail("TRIAL_UNAVAILABLE"))
        BY <2>3 DEF TrialRaced, found
    <3> QED  BY <3>1
  <2> QED  BY <2>1, <2>2, <2>3
<1> QED  BY <1>3, <1>4, <1>5, <1>6

LEMMA CheckStep ==
    ASSUME ServiceInv, NEW d \in Deliveries, Working(d), Check(d)
    PROVE  ServiceInv'
<1>0. TypeInv /\ RowInv
    BY DEF ServiceInv
<1>1. Ask(d).op = "check" /\ ReadsOnly
    BY DEF Check, CheckLicenseRow, CheckDevice, At
<1>2. PICK v \in Invocations : v = inv[d]
    BY WorkingFacts
<1>3. /\ Ask(d).license \in Licenses /\ Ask(d).device \in Nat /\ v.at \in Nat /\ v.at =< now /\ v.ran
      /\ now \in Nat
    BY <1>2, WorkingFacts, ContentsFields
<1>l. PICK l \in Licenses : l = Ask(d).license
    BY <1>3
<1>4. ASSUME NEW code \in {"LICENSE_NOT_AVAILABLE", "LICENSE_DELETED"}, Answer(d, Fail(code))
      PROVE  ServiceInv'
  <2>1. code \in ReplyCodes
      BY DEF ReplyCodes
  <2> QED  BY <1>1, <1>4, <2>1, FailStep
<1>5. CASE CheckLicenseRow(d)
  <2>1. \/ \E code \in {"LICENSE_NOT_AVAILABLE", "LICENSE_DELETED"} : Answer(d, Fail(code))
        \/ /\ licenses[l] # None /\ licenses[l].gone = None
           /\ inv' = [inv EXCEPT ![d] = [v EXCEPT !.pc = "second", !.lic = licenses[l]]]
      BY <1>5, <1>2, <1>l, Zenon DEF CheckLicenseRow
  <2>2. ASSUME licenses[l] # None, licenses[l].gone = None,
               inv' = [inv EXCEPT ![d] = [v EXCEPT !.pc = "second", !.lic = licenses[l]]]
        PROVE  ServiceInv'
    <3> DEFINE row == licenses[l]
               new == [v EXCEPT !.pc = "second", !.lic = row]
    <3>1. row \in LicenseRows
        BY <1>0, <2>2 DEF TypeInv
    <3>2. new \in Invocations
      <4>1. row \in LicenseRows \cup {None}
            /\ "second" \in {"idle", "first", "second", "third", "write", "recover", "finish", "done"}
          BY <3>1
      <4> HIDE DEF row
      <4> QED  BY <4>1, Zenon DEF Invocations
    <3>3. /\ new.pc = "second" /\ new.lic = row /\ new.at = v.at /\ new.ran = v.ran
          /\ new.reply = v.reply
        BY SMT DEF Invocations
    <3>4. inv' = [inv EXCEPT ![d] = new]
        BY <2>2
    <3> HIDE DEF new
    <3>5. HeldLicense(new, l)
        BY <2>2, <3>1, <3>3 DEF HeldLicense
    <3>6. Redeeming(new, Ask(d)) /\ Claiming(new, Ask(d)) /\ Administering(new, Ask(d))
        BY <1>1, <1>l, <3>3, <3>5 DEF Redeeming, Claiming, Administering
    <3>7. Local(new, Ask(d))
        BY <1>3, <3>3, <3>6 DEF Local
    <3>8. new.reply # None => Kept(Ask(d), new.reply)
        BY <1>2, <3>3, WorkingFacts
    <3> QED  BY <1>1, <1>2, <3>2, <3>3, <3>4, <3>7, <3>8, ReadStep
  <2> QED  BY <1>4, <2>1, <2>2
<1>6. CASE CheckDevice(d)
  <2>i. PICK i \in Nat : i = Ask(d).device
      BY <1>3
  <2>1. v.pc = "second"
      BY <1>2, <1>6 DEF CheckDevice, At
  <2>2. HeldLicense(v, l)
      BY <1>1, <1>2, <1>l, <2>1, WorkingFacts DEF Local, Administering
  <2>3. \/ Answer(d, Fail("LICENSE_NOT_AVAILABLE"))
        \/ /\ assertDeviceMatches(i, Ask(d).key)
           /\ Answer(d, createLease(l, i, v.lic, licenses[l].sourced, v.at))
      BY <1>6, <1>2, <1>l, <2>i, Zenon DEF CheckDevice
  <2>4. ASSUME assertDeviceMatches(i, Ask(d).key),
               Answer(d, createLease(l, i, v.lic, licenses[l].sourced, v.at))
        PROVE  ServiceInv'
    <3>1. i \in DOMAIN devices /\ HeldDevice(v, i)
        BY <2>4 DEF assertDeviceMatches, IsActive, HeldDevice
    <3>2. licenses[l] \in LicenseRows
        BY <1>0, <2>2 DEF TypeInv, HeldLicense
    <3> DEFINE lic == v.lic
               sourced == licenses[l].sourced
    <3>3. /\ licenses[l] # None /\ sourced \in BOOLEAN /\ Ask(d).op # "redeem"
          /\ lic.status = "ACTIVE" /\ licenses[l].gone # None => v.at =< licenses[l].gone
        BY <1>1, <2>2, <3>2, LicenseFields DEF HeldLicense
    <3>4. Answer(d, createLease(l, i, lic, sourced, v.at))
        BY <2>4
    <3> HIDE DEF lic, sourced
    <3>5. /\ createLease(l, i, lic, sourced, v.at) \in Replies
          /\ Kept(Ask(d), createLease(l, i, lic, sourced, v.at))
        BY <1>0, <1>3, <3>1, <3>3, LeaseKept
    <3> QED  BY <1>1, <3>4, <3>5, AnswerStep
  <2> QED  BY <1>4, <2>3, <2>4
<1> QED  BY <1>5, <1>6 DEF Check

----------------------------------------------------------------------------
(* The steps that read: redeem *)

LEMMA Recovered ==
    ASSUME ServiceInv, NEW d \in Deliveries, Working(d), NEW c \in Codes, c = Ask(d).code,
           codes[c] # None, NEW k
    PROVE  /\ recoveredRedemption(c, k, inv[d].at) \in Replies
           /\ Kept(Ask(d), recoveredRedemption(c, k, inv[d].at))
<1>0. TypeInv /\ RowInv
    BY DEF ServiceInv
<1>1. PICK v \in Invocations : v = inv[d]
    BY WorkingFacts
<1>2. v.at \in Nat /\ v.at =< now
    BY <1>1, WorkingFacts
<1> DEFINE row == codes[c]
           l == row.license
           i == row.by
           reply == recoveredRedemption(c, k, v.at)
<1>3. row \in CodeRows /\ l \in Licenses /\ licenses[l] # None /\ i \in Nat
      /\ (row.used => i \in DOMAIN devices)
    BY <1>0, CodeFields DEF TypeInv, RowInv
<1>4. licenses[l] \in LicenseRows /\ licenses[l].sourced \in BOOLEAN
    BY <1>0, <1>3, LicenseFields DEF TypeInv
<1>5. \/ /\ row.used /\ licenses[l].gone = None /\ assertDeviceMatches(i, k)
         /\ reply = createLease(l, i, licenses[l], licenses[l].sourced, v.at)
      \/ reply = Fail("CODE_NOT_AVAILABLE")
    BY Zenon DEF recoveredRedemption
<1>6. CASE reply = Fail("CODE_NOT_AVAILABLE")
  <2>1. "CODE_NOT_AVAILABLE" \in ReplyCodes
      BY DEF ReplyCodes
  <2> HIDE DEF reply
  <2>2. reply \in Replies /\ Kept(Ask(d), reply)
      BY <1>6, <2>1, FailReply, PlainAnswer
  <2> QED  BY <1>1, <2>2 DEF reply
<1>7. CASE /\ row.used /\ licenses[l].gone = None /\ assertDeviceMatches(i, k)
           /\ reply = createLease(l, i, licenses[l], licenses[l].sourced, v.at)
  <2> DEFINE lic == licenses[l]
             sourced == licenses[l].sourced
  <2>1. i \in DOMAIN devices /\ HeldDevice(v, i)
      BY <1>7 DEF assertDeviceMatches, IsActive, HeldDevice
  <2>2. /\ sourced \in BOOLEAN /\ (lic.status = "ACTIVE" /\ licenses[l].gone # None => v.at =< licenses[l].gone)
        /\ codes[Ask(d).code] # None /\ codes[Ask(d).code].used /\ i = codes[Ask(d).code].by
      BY <1>4, <1>7
  <2>3. reply = createLease(l, i, lic, sourced, v.at)
      BY <1>7
  <2> HIDE DEF lic, sourced, l, i, reply
  <2>4. reply \in Replies /\ Kept(Ask(d), reply)
      BY <1>0, <1>2, <1>3, <2>1, <2>2, <2>3, LeaseKept
  <2> QED  BY <1>1, <2>4 DEF reply
<1> QED  BY <1>5, <1>6, <1>7

LEMMA RedeemReadStep ==
    ASSUME ServiceInv, NEW d \in Deliveries, Working(d),
           RedeemCode(d) \/ RedeemDevice(d) \/ RedeemRaced(d)
    PROVE  ServiceInv'
<1>0. TypeInv /\ RowInv
    BY DEF ServiceInv
<1>1. Ask(d).op = "redeem" /\ ReadsOnly
    BY DEF RedeemCode, RedeemDevice, RedeemRaced, At
<1>2. PICK v \in Invocations : v = inv[d]
    BY WorkingFacts
<1>3. Ask(d).code \in Codes /\ v.at \in Nat /\ v.at =< now /\ v.ran /\ Redeeming(v, Ask(d))
    BY <1>2, WorkingFacts, ContentsFields DEF Local
<1>c. PICK c \in Codes : c = Ask(d).code
    BY <1>3
<1>4. ASSUME NEW code \in {"CODE_NOT_AVAILABLE", "LICENSE_NOT_AVAILABLE"}, Answer(d, Fail(code))
      PROVE  ServiceInv'
  <2>1. code \in ReplyCodes
      BY DEF ReplyCodes
  <2> QED  BY <1>1, <1>4, <2>1, FailStep
<1>5. ASSUME codes[c] # None, NEW k, Answer(d, recoveredRedemption(c, k, v.at)) PROVE ServiceInv'
  <2> DEFINE reply == recoveredRedemption(c, k, v.at)
  <2>1. reply \in Replies /\ Kept(Ask(d), reply)
      BY <1>2, <1>5, <1>c, Recovered
  <2> HIDE DEF reply
  <2>2. Answer(d, reply)
      BY <1>5 DEF reply
  <2> QED  BY <1>1, <2>1, <2>2, AnswerStep
<1>6. CASE RedeemCode(d)
  <2> DEFINE row == codes[c]
             lic == licenses[row.license]
  <2>1. \/ Answer(d, Fail("CODE_NOT_AVAILABLE"))
        \/ codes[c] # None /\ Answer(d, recoveredRedemption(c, Ask(d).key, v.at))
        \/ /\ codes[c] # None /\ lic.gone = None
           /\ inv' = [inv EXCEPT ![d] = [v EXCEPT !.pc = "second", !.code = row, !.lic = lic]]
      BY <1>6, <1>2, <1>c, Zenon DEF RedeemCode
  <2>2. ASSUME row # None, lic.gone = None,
               inv' = [inv EXCEPT ![d] = [v EXCEPT !.pc = "second", !.code = row, !.lic = lic]]
        PROVE  ServiceInv'
    <3> DEFINE new == [v EXCEPT !.pc = "second", !.code = row, !.lic = lic]
    <3>1. row \in CodeRows /\ row.license \in Licenses /\ lic # None /\ lic \in LicenseRows
        BY <1>0, <2>2, CodeFields DEF TypeInv, RowInv
    <3>2. new \in Invocations
      <4>1. /\ row \in CodeRows \cup TransferRows \cup {None} /\ lic \in LicenseRows \cup {None}
            /\ "second" \in {"idle", "first", "second", "third", "write", "recover", "finish", "done"}
          BY <3>1
      <4> HIDE DEF row, lic
      <4> QED  BY <4>1, Zenon DEF Invocations
    <3>3. /\ new.pc = "second" /\ new.code = row /\ new.lic = lic /\ new.at = v.at
          /\ new.ran = v.ran /\ new.reply = v.reply
      <4> HIDE DEF row, lic
      <4> QED  BY SMT DEF Invocations
    <3>4. inv' = [inv EXCEPT ![d] = new]
        BY <2>2
    <3> HIDE DEF new
    <3>5. HeldLicense(new, new.code.license)
        BY <2>2, <3>1, <3>3 DEF HeldLicense
    <3>6. Redeeming(new, Ask(d)) /\ Claiming(new, Ask(d)) /\ Administering(new, Ask(d))
        BY <1>1, <1>c, <2>2, <3>1, <3>3, <3>5 DEF Redeeming, Claiming, Administering
    <3>7. Local(new, Ask(d))
        BY <1>3, <3>3, <3>6 DEF Local
    <3>8. new.reply # None => Kept(Ask(d), new.reply)
        BY <1>2, <3>3, WorkingFacts
    <3> QED  BY <1>1, <1>2, <3>2, <3>3, <3>4, <3>7, <3>8, ReadStep
  <2> QED  BY <1>4, <1>5, <2>1, <2>2
<1>7. CASE RedeemDevice(d)
  <2> DEFINE l == v.code.license
             i == ActiveDevice(l)
             sourced == licenses[l].sourced
  <2>1. v.pc = "second"
      BY <1>2, <1>7 DEF RedeemDevice, At
  <2>2. v.code \in CodeRows /\ HeldLicense(v, l) /\ codes[Ask(d).code] # None
      BY <1>1, <1>3, <2>1 DEF Redeeming
  <2>3. l \in Licenses /\ licenses[l] \in LicenseRows
      BY <1>0, <2>2, CodeFields DEF TypeInv, HeldLicense
  <2>4. i = 0 \/ (i \in DOMAIN devices /\ devices[i].active)
      BY DEF ActiveDevice
  <2>5. \/ Answer(d, Fail("LICENSE_NOT_AVAILABLE"))
        \/ inv' = [inv EXCEPT ![d] = [v EXCEPT !.pc = "write", !.dev = i, !.sourced = sourced]]
      BY <1>7, <1>2, Zenon DEF RedeemDevice
  <2>6. ASSUME inv' = [inv EXCEPT ![d] = [v EXCEPT !.pc = "write", !.dev = i, !.sourced = sourced]]
        PROVE  ServiceInv'
    <3> DEFINE new == [v EXCEPT !.pc = "write", !.dev = i, !.sourced = sourced]
    <3>1. i \in Nat /\ sourced \in BOOLEAN
        BY <1>0, <2>3, <2>4, DeviceTypes, LicenseFields
    <3> HIDE DEF i, sourced
    <3>2. new \in Invocations
      <4>1. "write" \in {"idle", "first", "second", "third", "write", "recover", "finish", "done"}
          OBVIOUS
      <4> QED  BY <3>1, <4>1, Zenon DEF Invocations
    <3>3. /\ new.pc = "write" /\ new.code = v.code /\ new.lic = v.lic /\ new.at = v.at
          /\ new.ran = v.ran /\ new.reply = v.reply /\ new.dev = i
        BY SMT DEF Invocations
    <3>4. inv' = [inv EXCEPT ![d] = new]
        BY <2>6
    <3> HIDE DEF new
    <3>5. HeldLicense(new, l) /\ (i # 0 => HeldDevice(new, i))
        BY <2>2, <2>4, <3>3 DEF HeldLicense, HeldDevice
    <3>6. Redeeming(new, Ask(d)) /\ Claiming(new, Ask(d)) /\ Administering(new, Ask(d))
        BY <1>1, <2>2, <3>3, <3>5 DEF Redeeming, Claiming, Administering
    <3>7. Local(new, Ask(d))
        BY <1>3, <3>3, <3>6 DEF Local
    <3>8. new.reply # None => Kept(Ask(d), new.reply)
        BY <1>2, <3>3, WorkingFacts
    <3> QED  BY <1>1, <1>2, <3>2, <3>3, <3>4, <3>7, <3>8, ReadStep
  <2> QED  BY <1>4, <2>5, <2>6
<1>8. CASE RedeemRaced(d)
  <2>1. v.pc = "recover" /\ Answer(d, recoveredRedemption(c, Ask(d).key, v.at))
      BY <1>2, <1>c, <1>8 DEF RedeemRaced, At
  <2>2. codes[c] # None
      BY <1>1, <1>3, <1>c, <2>1 DEF Redeeming
  <2> QED  BY <1>5, <2>1, <2>2
<1> QED  BY <1>6, <1>7, <1>8

----------------------------------------------------------------------------
(* The steps that read: claim and the owner's handlers *)

\* A step that reads a row and goes on to the step pc.
LEMMA HoldStep ==
    ASSUME ServiceInv, NEW d \in Deliveries, Working(d), ReadsOnly, NEW new \in Invocations,
           inv' = [inv EXCEPT ![d] = new], new.pc \in {"second", "third", "write"},
           new.at = inv[d].at, new.ran = inv[d].ran, new.reply = inv[d].reply,
           Redeeming(new, Ask(d)), Claiming(new, Ask(d)), Administering(new, Ask(d))
    PROVE  ServiceInv'
<1>1. Local(new, Ask(d))
    BY WorkingFacts DEF Local
<1>2. new.reply # None => Kept(Ask(d), new.reply)
    BY WorkingFacts
<1> QED  BY <1>1, <1>2, ReadStep

\* The invocation v with a row of one kind and the next step.
LEMMA HeldCode ==
    ASSUME NEW v \in Invocations, NEW pc \in {"second", "third", "write"}, NEW row \in TransferRows
    PROVE  LET new == [v EXCEPT !.pc = pc, !.code = row]
           IN  /\ new \in Invocations /\ new.pc = pc /\ new.code = row /\ new.at = v.at
               /\ new.ran = v.ran /\ new.reply = v.reply
<1> DEFINE new == [v EXCEPT !.pc = pc, !.code = row]
<1>1. new \in Invocations
  <2>1. /\ row \in CodeRows \cup TransferRows \cup {None}
        /\ pc \in {"idle", "first", "second", "third", "write", "recover", "finish", "done"}
      OBVIOUS
  <2> QED  BY <2>1, Zenon DEF Invocations
<1>2. /\ new.pc = pc /\ new.code = row /\ new.at = v.at
      /\ new.ran = v.ran /\ new.reply = v.reply
    BY SMT DEF Invocations
<1> QED  BY <1>1, <1>2

LEMMA HeldDev ==
    ASSUME NEW v \in Invocations, NEW pc \in {"second", "third", "write"}, NEW i \in Nat
    PROVE  LET new == [v EXCEPT !.pc = pc, !.dev = i]
           IN  /\ new \in Invocations /\ new.pc = pc /\ new.dev = i /\ new.at = v.at
               /\ new.ran = v.ran /\ new.reply = v.reply /\ new.code = v.code
<1> DEFINE new == [v EXCEPT !.pc = pc, !.dev = i]
<1>1. new \in Invocations
  <2>1. pc \in {"idle", "first", "second", "third", "write", "recover", "finish", "done"}
      OBVIOUS
  <2> QED  BY <2>1, Zenon DEF Invocations
<1>2. /\ new.pc = pc /\ new.dev = i /\ new.at = v.at
      /\ new.ran = v.ran /\ new.reply = v.reply /\ new.code = v.code
    BY SMT DEF Invocations
<1> QED  BY <1>1, <1>2

LEMMA ClaimReadStep ==
    ASSUME ServiceInv, NEW d \in Deliveries, Working(d),
           ClaimTransferRow(d) \/ ClaimLicense(d) \/ ClaimDevice(d)
    PROVE  ServiceInv'
<1>0. TypeInv /\ RowInv
    BY DEF ServiceInv
<1>1. Ask(d).op = "claim" /\ ReadsOnly
    BY DEF ClaimTransferRow, ClaimLicense, ClaimDevice, At
<1>2. PICK v \in Invocations : v = inv[d]
    BY WorkingFacts
<1>3. Ask(d).transfer \in Transfers /\ v.at \in Nat /\ v.at =< now /\ v.ran /\ Claiming(v, Ask(d))
    BY <1>2, WorkingFacts, ContentsFields DEF Local
<1>t. PICK t \in Transfers : t = Ask(d).transfer
    BY <1>3
<1>4. ASSUME NEW code \in {"TRANSFER_NOT_AVAILABLE", "TRANSFER_EXPIRED", "TRANSFER_PENDING",
                           "LICENSE_NOT_AVAILABLE"}, Answer(d, Fail(code))
      PROVE  ServiceInv'
  <2>1. code \in ReplyCodes
      BY DEF ReplyCodes
  <2> QED  BY <1>1, <1>4, <2>1, FailStep
<1>5. ASSUME NEW w \in Invocations PROVE Redeeming(w, Ask(d)) /\ Administering(w, Ask(d))
    BY <1>1 DEF Redeeming, Administering
<1>6. CASE ClaimTransferRow(d)
  <2> DEFINE row == transfers[t]
             new == [v EXCEPT !.pc = "second", !.code = row]
  <2>1. \/ \E code \in {"TRANSFER_NOT_AVAILABLE", "TRANSFER_EXPIRED", "TRANSFER_PENDING"} :
              Answer(d, Fail(code))
        \/ /\ row # None /\ row.status \in {"APPROVED", "CLAIMED"}
           /\ inv' = [inv EXCEPT ![d] = new]
      BY <1>6, <1>2, <1>t, Zenon DEF ClaimTransferRow
  <2>2. ASSUME row # None, row.status \in {"APPROVED", "CLAIMED"}, inv' = [inv EXCEPT ![d] = new]
        PROVE  ServiceInv'
    <3>1. /\ row \in TransferRows /\ row.license \in Licenses /\ licenses[row.license] # None
          /\ row.device \in DOMAIN devices
        BY <1>0, <2>2 DEF TypeInv, RowInv
    <3>2. /\ new \in Invocations /\ new.pc = "second" /\ new.code = row /\ new.at = v.at
          /\ new.ran = v.ran /\ new.reply = v.reply
      <4>1. "second" \in {"second", "third", "write"}
          OBVIOUS
      <4> HIDE DEF row
      <4> QED  BY <3>1, <4>1, HeldCode, ZenonT(60)
    <3> HIDE DEF new
    <3>3. Claiming(new, Ask(d))
        BY <1>t, <2>2, <3>1, <3>2 DEF Claiming
    <3> QED  BY <1>1, <1>2, <1>5, <2>2, <3>2, <3>3, HoldStep
  <2> QED  BY <1>4, <2>1, <2>2
<1>7. CASE ClaimLicense(d)
  <2> DEFINE l == v.code.license
             lic == licenses[l]
             new == [v EXCEPT !.pc = "third", !.lic = lic]
  <2>1. v.pc = "second" /\ inv' = [inv EXCEPT ![d] = new]
      BY <1>7, <1>2, Zenon DEF ClaimLicense, At
  <2>2. /\ v.code \in TransferRows /\ transfers[Ask(d).transfer] # None
        /\ l \in Licenses /\ lic # None /\ v.code.device \in DOMAIN devices
      BY <1>1, <1>3, <2>1 DEF Claiming
  <2>3. lic \in LicenseRows
      BY <1>0, <2>2 DEF TypeInv
  <2>4. new \in Invocations
    <3>1. /\ lic \in LicenseRows \cup {None}
          /\ "third" \in {"idle", "first", "second", "third", "write", "recover", "finish", "done"}
        BY <2>3
    <3> HIDE DEF lic
    <3> QED  BY <3>1, Zenon DEF Invocations
  <2>5. /\ new.pc = "third" /\ new.lic = lic /\ new.at = v.at /\ new.code = v.code
        /\ new.ran = v.ran /\ new.reply = v.reply
    <3> HIDE DEF lic
    <3> QED  BY SMT DEF Invocations
  <2> HIDE DEF new
  <2>6. HeldLicense(new, l)
    <3>1. lic.status = "ACTIVE" => lic.gone = None
        BY <1>0, <2>2 DEF RowInv
    <3> QED  BY <2>2, <2>3, <2>5, <3>1 DEF HeldLicense
  <2>7. Claiming(new, Ask(d))
      BY <2>2, <2>5, <2>6 DEF Claiming
  <2> QED  BY <1>1, <1>2, <1>5, <2>1, <2>4, <2>5, <2>7, HoldStep
<1>8. CASE ClaimDevice(d)
  <2> DEFINE l == v.code.license
             i == v.code.device
             sourced == licenses[l].sourced
             lic == v.lic
             new == [v EXCEPT !.pc = "write", !.sourced = sourced]
  <2>1. v.pc = "third"
      BY <1>2, <1>8 DEF ClaimDevice, At
  <2>2. /\ v.code \in TransferRows /\ transfers[Ask(d).transfer] # None
        /\ l \in Licenses /\ licenses[l] # None /\ i \in DOMAIN devices /\ HeldLicense(v, l)
      BY <1>1, <1>3, <2>1 DEF Claiming
  <2>3. sourced \in BOOLEAN
      BY <1>0, <2>2, LicenseFields DEF TypeInv
  <2>4. \/ Answer(d, Fail("LICENSE_NOT_AVAILABLE"))
        \/ /\ assertDeviceMatches(i, Ask(d).key)
           /\ \/ Answer(d, createLease(l, i, lic, sourced, v.at))
              \/ inv' = [inv EXCEPT ![d] = new]
      BY <1>8, <1>2, Zenon DEF ClaimDevice
  <2>5. assertDeviceMatches(i, Ask(d).key) => HeldDevice(v, i)
      BY DEF assertDeviceMatches, IsActive, HeldDevice
  <2>6. ASSUME HeldDevice(v, i), Answer(d, createLease(l, i, lic, sourced, v.at)) PROVE ServiceInv'
    <3>1. lic.status = "ACTIVE" /\ licenses[l].gone # None => v.at =< licenses[l].gone
        BY <2>2 DEF HeldLicense
    <3> HIDE DEF l, i, lic, sourced
    <3>2. /\ createLease(l, i, lic, sourced, v.at) \in Replies
          /\ Kept(Ask(d), createLease(l, i, lic, sourced, v.at))
        BY <1>0, <1>1, <1>3, <2>2, <2>3, <2>6, <3>1, LeaseKept
    <3> QED  BY <1>1, <2>6, <3>2, AnswerStep
  <2>7. ASSUME HeldDevice(v, i), inv' = [inv EXCEPT ![d] = new] PROVE ServiceInv'
    <3>1. new \in Invocations
      <4>1. "write" \in {"idle", "first", "second", "third", "write", "recover", "finish", "done"}
          OBVIOUS
      <4> HIDE DEF sourced
      <4> QED  BY <2>3, <4>1, Zenon DEF Invocations
    <3>2. /\ new.pc = "write" /\ new.lic = v.lic /\ new.at = v.at /\ new.code = v.code
          /\ new.ran = v.ran /\ new.reply = v.reply
      <4> HIDE DEF sourced
      <4> QED  BY SMT DEF Invocations
    <3> HIDE DEF new
    <3>3. HeldLicense(new, l) /\ HeldDevice(new, i)
        BY <2>2, <2>7, <3>2 DEF HeldLicense, HeldDevice
    <3>4. Claiming(new, Ask(d))
        BY <2>2, <3>2, <3>3 DEF Claiming
    <3> QED  BY <1>1, <1>2, <1>5, <2>7, <3>1, <3>2, <3>4, HoldStep
  <2> QED  BY <1>4, <2>4, <2>5, <2>6, <2>7
<1> QED  BY <1>6, <1>7, <1>8

LEMMA OwnerReadStep ==
    ASSUME ServiceInv, NEW d \in Deliveries, Working(d),
           \/ CodeLicense(d) \/ CodeDevice(d) \/ SourcesLicense(d) \/ ApproveLicense(d)
           \/ ApproveTransferRow(d) \/ ApproveDevice(d) \/ DeleteLicense(d)
    PROVE  ServiceInv'
<1>0. TypeInv /\ RowInv
    BY DEF ServiceInv
<1>1. Ask(d).op \in {"code", "sources", "approve", "delete"} /\ ReadsOnly
    BY DEF CodeLicense, CodeDevice, SourcesLicense, ApproveLicense, ApproveTransferRow,
           ApproveDevice, DeleteLicense, At
<1>2. PICK v \in Invocations : v = inv[d]
    BY WorkingFacts
<1>3. /\ Ask(d).license \in Licenses /\ Ask(d).transfer \in Transfers
      /\ Administering(v, Ask(d))
    BY <1>2, WorkingFacts, ContentsFields DEF Local
<1>l. PICK l \in Licenses : l = Ask(d).license
    BY <1>3
<1>t. PICK t \in Transfers : t = Ask(d).transfer
    BY <1>3
<1>4. ASSUME NEW code \in {"LICENSE_NOT_FOUND", "LICENSE_NOT_ACTIVE", "LICENSE_NOT_BOUND",
                           "LICENSE_DELETED", "TRANSFER_NOT_AVAILABLE", "TRANSFER_EXPIRED"},
             Answer(d, Fail(code))
      PROVE  ServiceInv'
  <2>1. code \in ReplyCodes
      BY DEF ReplyCodes
  <2> QED  BY <1>1, <1>4, <2>1, FailStep
<1>5. ASSUME NEW w \in Invocations PROVE Redeeming(w, Ask(d)) /\ Claiming(w, Ask(d))
    BY <1>1 DEF Redeeming, Claiming
<1>6. ASSUME licenses[l] # None, NEW pc \in {"second", "write"}, GoTo(d, pc),
             Ask(d).op = "approve" => pc = "second"
      PROVE  ServiceInv'
  <2>1. ASSUME NEW w \in Invocations, w.pc = pc PROVE Administering(w, Ask(d))
      BY <1>1, <1>6, <1>l, <2>1 DEF Administering
  <2> QED  BY <1>1, <1>5, <1>6, <2>1, GoToStep
<1> DEFINE i == ActiveDevice(l)
<1>7. i = 0 \/ (i \in DOMAIN devices /\ i \in Nat)
    BY <1>0, DeviceTypes DEF ActiveDevice
<1>8. ASSUME v.pc \in {"second", "third"}, i # 0, Ask(d).op \in {"code", "approve"},
             Ask(d).op = "approve" => v.pc = "third",
             inv' = [inv EXCEPT ![d] = [v EXCEPT !.pc = "write", !.dev = i]]
      PROVE  ServiceInv'
  <2> HIDE DEF i
  <2> DEFINE new == [v EXCEPT !.pc = "write", !.dev = i]
  <2>1. /\ new \in Invocations /\ new.pc = "write" /\ new.dev = i /\ new.at = v.at
        /\ new.ran = v.ran /\ new.reply = v.reply /\ new.code = v.code
      BY <1>7, <1>8, HeldDev, ZenonT(60)
  <2>2. inv' = [inv EXCEPT ![d] = new]
      BY <1>8
  <2> HIDE DEF new
  <2>3. Administering(new, Ask(d))
      BY <1>3, <1>7, <1>8, <2>1 DEF Administering
  <2> QED  BY <1>1, <1>2, <1>5, <2>1, <2>2, <2>3, HoldStep
<1>9. CASE CodeLicense(d)
  <2>1. \/ \E code \in {"LICENSE_NOT_FOUND", "LICENSE_NOT_ACTIVE"} : Answer(d, Fail(code))
        \/ licenses[l] # None /\ \E pc \in {"second", "write"} : GoTo(d, pc)
      BY <1>9, <1>l, Zenon DEF CodeLicense
  <2>2. Ask(d).op = "code"
      BY <1>9 DEF CodeLicense, At
  <2> QED  BY <1>4, <1>6, <2>1, <2>2
<1>10. CASE CodeDevice(d)
  <2>1. \/ Answer(d, Fail("LICENSE_NOT_BOUND"))
        \/ i # 0 /\ inv' = [inv EXCEPT ![d] = [v EXCEPT !.pc = "write", !.dev = i]]
      BY <1>10, <1>2, <1>l, Zenon DEF CodeDevice
  <2>2. Ask(d).op = "code" /\ v.pc = "second"
      BY <1>2, <1>10 DEF CodeDevice, At
  <2> QED  BY <1>4, <1>8, <2>1, <2>2
<1>11. CASE SourcesLicense(d)
  <2>1. \/ \E code \in {"LICENSE_NOT_FOUND", "LICENSE_DELETED"} : Answer(d, Fail(code))
        \/ licenses[l] # None /\ GoTo(d, "write")
      BY <1>11, <1>l, Zenon DEF SourcesLicense
  <2>2. Ask(d).op = "sources"
      BY <1>11 DEF SourcesLicense, At
  <2> QED  BY <1>4, <1>6, <2>1, <2>2
<1>12. CASE ApproveLicense(d)
  <2>1. \/ Answer(d, Fail("LICENSE_NOT_ACTIVE"))
        \/ licenses[l] # None /\ GoTo(d, "second")
      BY <1>12, <1>l, Zenon DEF ApproveLicense
  <2> QED  BY <1>4, <1>6, <2>1
<1>13. CASE ApproveTransferRow(d)
  <2> DEFINE row == transfers[t]
             new == [v EXCEPT !.pc = "third", !.code = row]
  <2>1. \/ \E code \in {"TRANSFER_NOT_AVAILABLE", "TRANSFER_EXPIRED"} : Answer(d, Fail(code))
        \/ row # None /\ inv' = [inv EXCEPT ![d] = new]
      BY <1>13, <1>2, <1>t, Zenon DEF ApproveTransferRow
  <2>2. Ask(d).op = "approve" /\ v.pc = "second"
      BY <1>2, <1>13 DEF ApproveTransferRow, At
  <2>3. ASSUME row # None, inv' = [inv EXCEPT ![d] = new] PROVE ServiceInv'
    <3>1. row \in TransferRows
        BY <1>0, <2>3 DEF TypeInv
    <3>2. /\ new \in Invocations /\ new.pc = "third" /\ new.code = row /\ new.at = v.at
          /\ new.ran = v.ran /\ new.reply = v.reply
      <4> HIDE DEF row
      <4> QED  BY <3>1, HeldCode, ZenonT(60)
    <3> HIDE DEF new
    <3>3. Administering(new, Ask(d))
        BY <1>3, <1>t, <2>2, <2>3, <3>1, <3>2 DEF Administering
    <3> QED  BY <1>1, <1>2, <1>5, <2>3, <3>2, <3>3, HoldStep
  <2> QED  BY <1>4, <2>1, <2>3
<1>14. CASE ApproveDevice(d)
  <2>1. \/ Answer(d, Fail("LICENSE_NOT_BOUND"))
        \/ i # 0 /\ inv' = [inv EXCEPT ![d] = [v EXCEPT !.pc = "write", !.dev = i]]
      BY <1>14, <1>2, <1>l, Zenon DEF ApproveDevice
  <2>2. Ask(d).op = "approve" /\ v.pc = "third"
      BY <1>2, <1>14 DEF ApproveDevice, At
  <2> QED  BY <1>4, <1>8, <2>1, <2>2
<1>15. CASE DeleteLicense(d)
  <2>1. \/ Answer(d, Fail("LICENSE_NOT_FOUND"))
        \/ Answer(d, Done(l))
        \/ licenses[l] # None /\ GoTo(d, "write")
      BY <1>15, <1>l, Zenon DEF DeleteLicense
  <2>2. Ask(d).op = "delete"
      BY <1>15 DEF DeleteLicense, At
  <2>3. ASSUME Answer(d, Done(l)) PROVE ServiceInv'
    <3>1. Done(l) \in Replies /\ Kept(Ask(d), Done(l))
        BY DoneReply, PlainAnswer
    <3> QED  BY <1>1, <2>3, <3>1, AnswerStep
  <2> QED  BY <1>4, <1>6, <2>1, <2>2, <2>3
<1> QED  BY <1>9, <1>10, <1>11, <1>12, <1>13, <1>14, <1>15

----------------------------------------------------------------------------
(* The steps that write: insertions of one row *)

\* The batch that a constraint rejects leaves every table as it is.
LEMMA RejectedReadsOnly ==
    ASSUME UNCHANGED tables, WritesTables
    PROVE  ReadsOnly
    BY DEF tables, WritesTables, ReadsOnly

LEMMA PlainDone ==
    ASSUME NEW d, NEW id
    PROVE  Kept(Ask(d), Done(id))'
<1>1. Done(id).device = 0
    BY SMT DEF Done
<1> QED  BY <1>1 DEF Kept, Done

LEMMA RequestTransferStep ==
    ASSUME ServiceInv, NEW d \in Deliveries, Working(d), RequestTransfer(d)
    PROVE  ServiceInv'
<1>0. TypeInv /\ RowInv /\ UniqueInv
    BY DEF ServiceInv
<1>1. PICK t \in Transfers, key \in STRING, until \in Nat :
        /\ transfers[t] = None
        /\ transfers' = [transfers EXCEPT ![t] =
             [status |-> "PENDING", key |-> key, license |-> None, device |-> 0, expires |-> until]]
        /\ Answer(d, Done(t))
  <2>1. Ask(d).key \in STRING /\ inv[d].at + TransferLife \in Nat
      BY WorkingFacts, ContentsFields, RowsAssumption
  <2> DEFINE t == CHOOSE t \in Unused(Transfers, transfers) : TRUE
  <2>2. t \in Transfers /\ transfers[t] = None
      BY DEF RequestTransfer, Unused
  <2>3. /\ transfers' = [transfers EXCEPT ![t] =
             [status |-> "PENDING", key |-> Ask(d).key, license |-> None,
              device |-> 0, expires |-> inv[d].at + TransferLife]]
        /\ Answer(d, Done(t))
      BY Zenon DEF RequestTransfer
  <2> HIDE DEF t
  <2> QED  BY <2>1, <2>2, <2>3
<1>2. /\ licenses' = licenses /\ devices' = devices /\ codes' = codes /\ claims' = claims
      /\ audit \subseteq audit' /\ WritesTables /\ now' = now /\ sent' = sent
    BY DEF RequestTransfer, WritesTables
<1> DEFINE row == [status |-> "PENDING", key |-> key, license |-> None,
                   device |-> 0, expires |-> until]
<1>3. row \in TransferRows
  <2>1. /\ "PENDING" \in {"PENDING", "APPROVED", "CLAIMED", "REJECTED", "EXPIRED"}
        /\ None \in Licenses \cup {None} /\ 0 \in Nat
      OBVIOUS
  <2> QED  BY <2>1, Zenon DEF TransferRows
<1>4. row.status = "PENDING" /\ row.device = 0 /\ row # None
    BY <1>3, TransferFields
<1>5. transfers' = [transfers EXCEPT ![t] = row]
    BY <1>1
<1> HIDE DEF row
<1>6. /\ transfers' \in [Transfers -> TransferRows \cup {None}]
      /\ \A x \in Transfers : transfers'[x] = IF x = t THEN row ELSE transfers[x]
    BY <1>0, <1>3, <1>5 DEF TypeInv
<1>7. Grow
  <2>1. now \in Nat
      BY WorkingFacts
  <2> QED  BY <1>1, <1>2, <1>4, <1>6, <2>1, SMT DEF Grow
<1>8. RowInv'
    BY <1>0, <1>2, <1>4, <1>6, SMT DEF RowInv
<1>9. UniqueInv'
    BY <1>0, <1>2, Zenon DEF UniqueInv
<1>10. Done(t) \in Replies /\ Kept(Ask(d), Done(t))'
    BY DoneReply, PlainDone
<1> QED  BY <1>0, <1>1, <1>2, <1>6, <1>7, <1>8, <1>9, <1>10, WriteStep DEF TypeInv

LEMMA CreateLicenseStep ==
    ASSUME ServiceInv, NEW d \in Deliveries, Working(d), CreateLicense(d)
    PROVE  ServiceInv'
<1>0. TypeInv /\ RowInv /\ UniqueInv
    BY DEF ServiceInv
<1>1. PICK l \in Licenses, until \in Nat :
        /\ licenses[l] = None
        /\ licenses' = [licenses EXCEPT ![l] =
             [kind |-> "SUBSCRIPTION", status |-> "ACTIVE", expires |-> until,
              gone |-> None, sourced |-> TRUE]]
        /\ Answer(d, Done(l))
  <2>1. inv[d].at \in Nat
      BY WorkingFacts
  <2> DEFINE l == CHOOSE l \in Unused(Licenses, licenses) : TRUE
  <2>2. l \in Licenses /\ licenses[l] = None
      BY DEF CreateLicense, Unused
  <2>3. /\ licenses' = [licenses EXCEPT ![l] =
             [kind |-> "SUBSCRIPTION", status |-> "ACTIVE", expires |-> inv[d].at,
              gone |-> None, sourced |-> TRUE]]
        /\ Answer(d, Done(l))
      BY Zenon DEF CreateLicense
  <2> HIDE DEF l
  <2> QED  BY <2>1, <2>2, <2>3
<1>2. /\ devices' = devices /\ codes' = codes /\ transfers' = transfers /\ claims' = claims
      /\ audit \subseteq audit' /\ WritesTables /\ now' = now /\ sent' = sent
    BY DEF CreateLicense, WritesTables
<1> DEFINE row == [kind |-> "SUBSCRIPTION", status |-> "ACTIVE", expires |-> until,
                   gone |-> None, sourced |-> TRUE]
<1>3. row \in LicenseRows /\ row.gone = None
  <2>1. /\ "SUBSCRIPTION" \in {"TRIAL", "SUBSCRIPTION", "PERPETUAL"}
        /\ "ACTIVE" \in {"ACTIVE", "SUSPENDED"}
        /\ None \in Nat \cup {None} /\ TRUE \in BOOLEAN
      OBVIOUS
  <2>2. row \in LicenseRows
      BY <2>1, Zenon DEF LicenseRows
  <2> QED  BY <2>2, SMT
<1>4. row # None
    BY <1>3, LicenseFields
<1>5. licenses' = [licenses EXCEPT ![l] = row]
    BY <1>1
<1> HIDE DEF row
<1>6. /\ licenses' \in [Licenses -> LicenseRows \cup {None}]
      /\ \A x \in Licenses : licenses'[x] = IF x = l THEN row ELSE licenses[x]
    BY <1>0, <1>3, <1>5 DEF TypeInv
<1>7. Grow
  <2>1. now \in Nat
      BY WorkingFacts
  <2> QED  BY <1>1, <1>2, <1>4, <1>6, <2>1, SMT DEF Grow
<1>8. RowInv'
  <2>1. /\ \A i \in DOMAIN devices : devices[i].license \in Licenses
        /\ \A c \in Codes : codes[c] # None => codes[c].license \in Licenses
      BY <1>0, DeviceTypes, DeviceFields, CodeFields DEF TypeInv
  <2> QED  BY <1>0, <1>1, <1>2, <1>3, <1>4, <1>6, <2>1, SMT DEF RowInv
<1>9. UniqueInv'
    BY <1>0, <1>2, Zenon DEF UniqueInv
<1>10. Done(l) \in Replies /\ Kept(Ask(d), Done(l))'
    BY DoneReply, PlainDone
<1> QED  BY <1>0, <1>1, <1>2, <1>6, <1>7, <1>8, <1>9, <1>10, WriteStep DEF TypeInv

LEMMA CodeWriteStep ==
    ASSUME ServiceInv, NEW d \in Deliveries, Working(d), CodeWrite(d)
    PROVE  ServiceInv'
<1>0. TypeInv /\ RowInv /\ UniqueInv
    BY DEF ServiceInv
<1>a. Ask(d) \in Contents /\ inv[d] \in Invocations /\ Administering(inv[d], Ask(d))
    BY WorkingFacts DEF Local
<1>b. Ask(d).op = "code" /\ inv[d].pc = "write"
    BY DEF CodeWrite, At
<1>1. PICK c \in Codes, l \in Licenses, kind \in CodeKinds, months \in Nat, bound \in Nat, until \in Nat :
        /\ codes[c] = None /\ licenses[l] # None
        /\ codes' = [codes EXCEPT ![c] =
             [license |-> l, kind |-> kind, months |-> months, bound |-> bound,
              expires |-> until, used |-> FALSE, by |-> 0]]
        /\ Answer(d, Done(c))
  <2> DEFINE c == CHOOSE c \in Unused(Codes, codes) : TRUE
             l == Ask(d).license
             kind == Ask(d).kind
             months == IF Ask(d).kind = "MONTHS" THEN Ask(d).months ELSE 0
             bound == inv[d].dev
             until == inv[d].at + CodeLife
  <2>1. /\ l \in Licenses /\ kind \in CodeKinds /\ months \in Nat /\ bound \in Nat /\ until \in Nat
      BY <1>a, ContentsFields, InvocationFields, RowsAssumption
  <2>2. c \in Codes /\ codes[c] = None
      BY DEF CodeWrite, Unused
  <2>3. licenses[l] # None
      BY <1>a, <1>b DEF Administering
  <2>4. /\ codes' = [codes EXCEPT ![c] =
             [license |-> l, kind |-> kind, months |-> months, bound |-> bound,
              expires |-> until, used |-> FALSE, by |-> 0]]
        /\ Answer(d, Done(c))
      BY Zenon DEF CodeWrite
  <2> HIDE DEF c, l, kind, months, bound, until
  <2> QED  BY <2>1, <2>2, <2>3, <2>4
<1>2. /\ licenses' = licenses /\ devices' = devices /\ transfers' = transfers /\ claims' = claims
      /\ audit \subseteq audit' /\ WritesTables /\ now' = now /\ sent' = sent
    BY DEF CodeWrite, WritesTables
<1> DEFINE row == [license |-> l, kind |-> kind, months |-> months, bound |-> bound,
                   expires |-> until, used |-> FALSE, by |-> 0]
<1>3. row \in CodeRows /\ ~row.used /\ row.license = l
  <2>1. FALSE \in BOOLEAN /\ 0 \in Nat
      OBVIOUS
  <2>2. row \in CodeRows
      BY <2>1, Zenon DEF CodeRows
  <2> QED  BY <2>2, SMT
<1>4. row # None
    BY <1>3, CodeFields
<1>5. codes' = [codes EXCEPT ![c] = row]
    BY <1>1
<1> HIDE DEF row
<1>6. /\ codes' \in [Codes -> CodeRows \cup {None}]
      /\ \A x \in Codes : codes'[x] = IF x = c THEN row ELSE codes[x]
    BY <1>0, <1>3, <1>5 DEF TypeInv
<1>7. Grow
  <2>1. now \in Nat
      BY WorkingFacts
  <2> QED  BY <1>1, <1>2, <1>4, <1>6, <2>1, SMT DEF Grow
<1>8. RowInv'
    BY <1>0, <1>1, <1>2, <1>3, <1>6, SMT DEF RowInv
<1>9. UniqueInv'
    BY <1>0, <1>2, Zenon DEF UniqueInv
<1>10. Done(c) \in Replies /\ Kept(Ask(d), Done(c))'
    BY DoneReply, PlainDone
<1> QED  BY <1>0, <1>1, <1>2, <1>6, <1>7, <1>8, <1>9, <1>10, WriteStep DEF TypeInv

LEMMA SourcesWriteStep ==
    ASSUME ServiceInv, NEW d \in Deliveries, Working(d), SourcesWrite(d)
    PROVE  ServiceInv'
<1>0. TypeInv /\ RowInv /\ UniqueInv
    BY DEF ServiceInv
<1>1. PICK l \in Licenses, sourced \in BOOLEAN :
        /\ l = Ask(d).license
        /\ licenses' = [licenses EXCEPT ![l].sourced = sourced]
        /\ Answer(d, Done(l))
    BY WorkingFacts, ContentsFields DEF SourcesWrite
<1>2. /\ devices' = devices /\ codes' = codes /\ transfers' = transfers /\ claims' = claims
      /\ audit' = audit /\ WritesTables /\ now' = now /\ sent' = sent
    BY DEF SourcesWrite, WritesTables
<1>3. licenses[l] # None
    BY <1>1, WorkingFacts DEF SourcesWrite, At, Local, Administering
<1>4. PICK old \in LicenseRows : old = licenses[l]
    BY <1>0, <1>3 DEF TypeInv
<1> DEFINE row == [old EXCEPT !.sourced = sourced]
<1>5. /\ row \in LicenseRows /\ row.gone = old.gone /\ row.status = old.status
  <2>1. row \in LicenseRows
      BY Zenon DEF LicenseRows
  <2>2. row.gone = old.gone /\ row.status = old.status
      BY SMT DEF LicenseRows
  <2> QED  BY <2>1, <2>2
<1>6. licenses' = [licenses EXCEPT ![l] = row]
    BY <1>1, <1>4
<1>7. row # None
    BY <1>5, LicenseFields
<1> HIDE DEF row
<1>8. /\ licenses' \in [Licenses -> LicenseRows \cup {None}]
      /\ \A x \in Licenses : licenses'[x] = IF x = l THEN row ELSE licenses[x]
    BY <1>0, <1>5, <1>6 DEF TypeInv
<1>9. Grow
  <2>1. now \in Nat
      BY WorkingFacts
  <2> QED  BY <1>2, <1>4, <1>5, <1>7, <1>8, <2>1, SMT DEF Grow
<1>10. RowInv'
  <2>1. /\ \A i \in DOMAIN devices : devices[i].license \in Licenses
        /\ \A c \in Codes : codes[c] # None => codes[c].license \in Licenses
      BY <1>0, DeviceTypes, DeviceFields, CodeFields DEF TypeInv
  <2> QED  BY <1>0, <1>2, <1>3, <1>4, <1>5, <1>7, <1>8, <2>1, SMT DEF RowInv
<1>11. UniqueInv'
    BY <1>0, <1>2, Zenon DEF UniqueInv
<1>12. Done(l) \in Replies /\ Kept(Ask(d), Done(l))'
    BY DoneReply, PlainDone
<1> QED  BY <1>0, <1>1, <1>2, <1>8, <1>9, <1>10, <1>11, <1>12, WriteStep DEF TypeInv

----------------------------------------------------------------------------
(* The steps that write: bindings *)

\* What the unique indexes keep, for a table s of devices.
OneBinding(s) ==
    \A i, j \in DOMAIN s :
        /\ s[i].active /\ s[j].active
        /\ s[i].license = s[j].license \/ s[i].key = s[j].key
        => i = j

OneTrial(s) == \A a, b \in s : a.subject = b.subject \/ a.key = b.key => a = b

LEMMA UniqueParts == UniqueInv <=> OneBinding(devices) /\ OneTrial(claims)
    BY Zenon DEF UniqueInv, OneBinding, OneTrial

LEMMA UniqueAfter ==
    ASSUME OneBinding(devices'), OneTrial(claims')
    PROVE  UniqueInv'
    BY Zenon DEF UniqueInv, OneBinding, OneTrial

\* The table s with a binding of licence l to key k inserted.
Bound(s, l, k) == Append(s, NewDevice(l, k))

Extended(s, new, l, k) ==
    /\ new \in Seq(DeviceRows) /\ DOMAIN new = DOMAIN s \cup {Len(s) + 1}
    /\ DOMAIN s \subseteq DOMAIN new
    /\ Len(s) + 1 \notin DOMAIN s /\ Len(s) + 1 \in Nat \ {0}
    /\ \A i \in DOMAIN s : new[i] = s[i]
    /\ new[Len(s) + 1].license = l /\ new[Len(s) + 1].key = k
    /\ new[Len(s) + 1].active /\ new[Len(s) + 1] \in DeviceRows

LEMMA BoundExtends ==
    ASSUME NEW s \in Seq(DeviceRows), NEW l \in Licenses, NEW k \in STRING
    PROVE  Extended(s, Bound(s, l, k), l, k)
<1> DEFINE row == NewDevice(l, k)
           new == Append(s, row)
<1>1. row \in DeviceRows
  <2>1. TRUE \in BOOLEAN /\ 0 \in Nat
      OBVIOUS
  <2> QED  BY <2>1, Zenon DEF NewDevice, DeviceRows
<1>2. row.license = l /\ row.key = k /\ row.active
    BY SMT DEF NewDevice
<1>3. Bound(s, l, k) = new
    BY DEF Bound
<1> HIDE DEF row
<1>4. /\ new \in Seq(DeviceRows) /\ Len(new) = Len(s) + 1
      /\ \A i \in 1 .. Len(s) : new[i] = s[i]
      /\ new[Len(s) + 1] = row
    BY <1>1, AppendProperties
<1> HIDE DEF new
<1>5. Len(s) \in Nat /\ DOMAIN s = 1 .. Len(s) /\ DOMAIN new = 1 .. Len(new)
    BY <1>4, SMT
<1>6. DOMAIN new = DOMAIN s \cup {Len(s) + 1} /\ Len(s) + 1 \notin DOMAIN s
    BY <1>4, <1>5, SMT
<1>7. Extended(s, new, l, k)
    BY <1>1, <1>2, <1>4, <1>5, <1>6, SMT DEF Extended
<1> QED  BY <1>3, <1>7

LEMMA BoundOnce ==
    ASSUME NEW s \in Seq(DeviceRows), NEW l \in Licenses, NEW k \in STRING, OneBinding(s),
           \A i \in DOMAIN s : s[i].active => s[i].license # l /\ s[i].key # k
    PROVE  OneBinding(Bound(s, l, k))
<1> DEFINE new == Bound(s, l, k)
           n == Len(s) + 1
<1>1. Extended(s, new, l, k)
    BY BoundExtends
<1> HIDE DEF new
<1>2. /\ DOMAIN new = DOMAIN s \cup {n} /\ n \notin DOMAIN s
      /\ \A i \in DOMAIN s : new[i] = s[i]
      /\ new[n].license = l /\ new[n].key = k
    BY <1>1, Zenon DEF Extended
<1> HIDE DEF n
<1>3. OneBinding(new)
    BY <1>2, SMT DEF OneBinding
<1> QED  BY <1>3 DEF new

\* A lease that a batch grants, in the state the batch leaves.
LEMMA LeaseAfter ==
    ASSUME NEW ask, NEW l \in Licenses, NEW i \in Nat \ {0}, NEW lic, NEW sourced,
           sourced \in BOOLEAN, NEW t \in Nat, now \in Nat, now' = now, t =< now,
           i \in DOMAIN devices', devices'[i] \in DeviceRows,
           licenses'[l] \in LicenseRows,
           devices'[i].active \/ t =< devices'[i].off,
           lic.status = "ACTIVE" /\ licenses'[l].gone # None => t =< licenses'[l].gone,
           ask.op = "redeem" =>
              codes'[ask.code] # None /\ codes'[ask.code].used /\ i = codes'[ask.code].by,
           NEW reply, reply = createLease(l, i, lic, sourced, t)
    PROVE  reply \in Replies /\ Kept(ask, reply)'
<1>1. /\ reply \in Replies /\ reply.code = "OK" /\ reply.license = l /\ reply.device = i
      /\ reply.until = t + LeaseLife /\ (reply.search => lic.status = "ACTIVE")
  <2>1. reply \in Replies
      BY LeaseReply, Zenon
  <2> QED  BY <2>1, LeaseReply, SMT
<1>2. /\ licenses'[l].gone \in Nat \cup {None} /\ licenses'[l] # None
      /\ devices'[i].off \in Nat
    BY LicenseFields, DeviceFields
<1>3. reply.until =< now' + LeaseLife
    BY <1>1, RowsAssumption, SMT
<1>4. ~devices'[i].active => reply.until =< devices'[i].off + LeaseLife
    BY <1>1, <1>2, RowsAssumption, SMT
<1>5. licenses'[l].gone # None /\ reply.search => reply.until =< licenses'[l].gone + LeaseLife
    BY <1>1, <1>2, RowsAssumption, SMT
<1>6. Kept(ask, reply)'
    BY <1>1, <1>2, <1>3, <1>4, <1>5, Zenon DEF Kept
<1> QED  BY <1>1, <1>6

LEMMA ClaimWriteStep ==
    ASSUME ServiceInv, NEW d \in Deliveries, Working(d), ClaimWrite(d)
    PROVE  ServiceInv'
<1>0. TypeInv /\ RowInv /\ UniqueInv
    BY DEF ServiceInv
<1>1. Ask(d).op = "claim" /\ inv[d].pc = "write" /\ WritesTables
    BY DEF ClaimWrite, At
<1>2. PICK v \in Invocations : v = inv[d]
    BY WorkingFacts
<1>3. Ask(d).transfer \in Transfers /\ v.at \in Nat /\ v.at =< now /\ now \in Nat /\ Claiming(v, Ask(d))
    BY <1>2, WorkingFacts, ContentsFields DEF Local
<1>t. PICK t \in Transfers : t = Ask(d).transfer
    BY <1>3
<1>4. /\ v.code \in TransferRows /\ transfers[t] # None /\ v.code.license \in Licenses
      /\ v.code.device \in DOMAIN devices
      /\ HeldLicense(v, v.code.license) /\ HeldDevice(v, v.code.device)
    BY <1>1, <1>2, <1>3, <1>t DEF Claiming
<1>5. CASE <<"claim", t>> \in audit
  <2>1. Answer(d, Fail("INTERNAL_ERROR")) /\ ReadsOnly
      BY <1>1, <1>5, <1>t, RejectedReadsOnly DEF ClaimWrite
  <2>2. "INTERNAL_ERROR" \in ReplyCodes
      BY DEF ReplyCodes
  <2> QED  BY <2>1, <2>2, FailStep
<1>6. CASE <<"claim", t>> \notin audit
  <2>1. PICK l \in Licenses, i \in Nat \ {0}, lic \in LicenseRows, sourced \in BOOLEAN :
          l = v.code.license /\ i = v.code.device /\ lic = v.lic /\ sourced = v.sourced
      BY <1>0, <1>4, DeviceTypes, InvocationFields DEF HeldLicense
  <2>2. PICK reply : reply = createLease(l, i, lic, sourced, v.at)
      OBVIOUS
  <2>3. /\ transfers' = IF transfers[t].status = "APPROVED"
                        THEN [transfers EXCEPT ![t].status = "CLAIMED"] ELSE transfers
        /\ audit \subseteq audit' /\ licenses' = licenses /\ devices' = devices
        /\ codes' = codes /\ claims' = claims /\ now' = now /\ sent' = sent
        /\ Answer(d, reply)
      BY <1>2, <1>6, <1>t, <2>1, <2>2 DEF ClaimWrite, WritesTables
  <2>4. PICK old \in TransferRows : old = transfers[t]
      BY <1>0, <1>4 DEF TypeInv
  <2>5. PICK row \in TransferRows :
          /\ transfers' = [transfers EXCEPT ![t] = row]
          /\ row.device = old.device /\ row.license = old.license
          /\ row.status = old.status \/ (row.status = "CLAIMED" /\ old.status = "APPROVED")
    <3>1. CASE old.status = "APPROVED"
      <4> DEFINE row == [old EXCEPT !.status = "CLAIMED"]
      <4>1. row \in TransferRows
        <5>1. "CLAIMED" \in {"PENDING", "APPROVED", "CLAIMED", "REJECTED", "EXPIRED"}
            OBVIOUS
        <5> QED  BY <5>1, Zenon DEF TransferRows
      <4>2. row.device = old.device /\ row.license = old.license /\ row.status = "CLAIMED"
          BY SMT DEF TransferRows
      <4>3. transfers' = [transfers EXCEPT ![t] = row]
          BY <2>3, <2>4, <3>1
      <4> QED  BY <3>1, <4>1, <4>2, <4>3
    <3>2. CASE old.status # "APPROVED"
      <4>1. transfers' = [transfers EXCEPT ![t] = old]
          BY <1>0, <2>3, <2>4, <3>2 DEF TypeInv
      <4> QED  BY <4>1
    <3> QED  BY <3>1, <3>2
  <2>6. /\ transfers' \in [Transfers -> TransferRows \cup {None}]
        /\ \A x \in Transfers : transfers'[x] = IF x = t THEN row ELSE transfers[x]
        /\ row # None
      BY <1>0, <2>5, TransferFields DEF TypeInv
  <2>7. Grow
      BY <1>3, <2>3, <2>6, SMT DEF Grow
  <2>8. RowInv'
      BY <1>0, <1>4, <2>3, <2>4, <2>5, <2>6, SMT DEF RowInv
  <2>9. UniqueInv'
      BY <1>0, <2>3, Zenon DEF UniqueInv
  <2>10. PICK ask : ask = Ask(d) /\ ask = Ask(d)'
      BY <2>3 DEF Ask
  <2>11. reply \in Replies /\ Kept(ask, reply)
    <3>1. lic.status = "ACTIVE" /\ licenses[l].gone # None => v.at =< licenses[l].gone
        BY <1>4, <2>1 DEF HeldLicense
    <3>2. licenses[l] # None /\ HeldDevice(v, i) /\ i \in DOMAIN devices
        BY <1>4, <2>1 DEF HeldLicense
    <3> QED  BY <1>0, <1>1, <1>3, <2>1, <2>2, <2>10, <3>1, <3>2, LeaseKept
  <2>12. Kept(ask, reply)'
      BY <2>3, <2>11, Zenon DEF Kept
  <2> QED  BY <1>0, <1>1, <2>3, <2>6, <2>7, <2>8, <2>9, <2>10, <2>11, <2>12, WriteStep DEF TypeInv
<1> QED  BY <1>5, <1>6

LEMMA TrialWriteStep ==
    ASSUME ServiceInv, NEW d \in Deliveries, Working(d), TrialWrite(d)
    PROVE  ServiceInv'
<1>0. TypeInv /\ RowInv /\ UniqueInv
    BY DEF ServiceInv
<1>1. Ask(d).op = "trial" /\ WritesTables
    BY DEF TrialWrite, At
<1>2. PICK v \in Invocations : v = inv[d]
    BY WorkingFacts
<1>3. /\ Ask(d) \in Contents /\ Ask(d).key \in STRING /\ Ask(d).subject \in STRING
      /\ v.at \in Nat /\ v.at =< now /\ now \in Nat
    BY <1>2, WorkingFacts, ContentsFields
<1>4. PICK k \in STRING, subject \in STRING : k = Ask(d).key /\ subject = Ask(d).subject
    BY <1>3
<1> DEFINE taken == \/ \E c \in claims : c.subject = subject \/ c.key = k
                    \/ KeyInUse(k, 0)
<1>5. CASE taken
  <2>1. GoTo(d, "recover") /\ ReadsOnly
      BY <1>1, <1>4, <1>5, RejectedReadsOnly DEF TrialWrite
  <2>2. \A w : Redeeming(w, Ask(d)) /\ Claiming(w, Ask(d)) /\ Administering(w, Ask(d))
      BY <1>1 DEF Redeeming, Claiming, Administering
  <2> QED  BY <2>1, <2>2, GoToStep
<1>6. CASE ~taken
  <2> DEFINE l == CHOOSE l \in Unused(Licenses, licenses) : TRUE
             row == [kind |-> "TRIAL", status |-> "ACTIVE", gone |-> None,
                     expires |-> v.at + TrialLife, sourced |-> TRUE]
             claim == [license |-> l, subject |-> subject, key |-> k]
             i == Len(devices) + 1
             reply == createLease(l, i, row, TRUE, v.at)
  <2>1. l \in Licenses /\ licenses[l] = None
      BY DEF TrialWrite, Unused
  <2>2. /\ licenses' = [licenses EXCEPT ![l] = row]
        /\ devices' = Bound(devices, l, k)
        /\ claims' = claims \cup {claim}
        /\ Answer(d, reply) /\ codes' = codes /\ transfers' = transfers
        /\ audit \subseteq audit'
      BY <1>2, <1>4, <1>6 DEF TrialWrite, Bound
  <2>3. now' = now /\ sent' = sent
      BY <1>1 DEF WritesTables
  <2> HIDE DEF l
  <2>4. row \in LicenseRows /\ row.status = "ACTIVE" /\ row.gone = None
    <3>1. /\ "TRIAL" \in {"TRIAL", "SUBSCRIPTION", "PERPETUAL"}
          /\ "ACTIVE" \in {"ACTIVE", "SUSPENDED"}
          /\ None \in Nat \cup {None} /\ TRUE \in BOOLEAN /\ v.at + TrialLife \in Nat
        BY <1>3, RowsAssumption
    <3>2. row \in LicenseRows
        BY <3>1, Zenon DEF LicenseRows
    <3> QED  BY <3>2, SMT
  <2>5. row # None
      BY <2>4, LicenseFields
  <2>6. claim \in ClaimRows /\ claim.subject = subject /\ claim.key = k
    <3>1. claim \in ClaimRows
        BY <2>1, Zenon DEF ClaimRows
    <3> QED  BY <3>1, SMT
  <2> HIDE DEF row, claim
  <2>7. /\ licenses' \in [Licenses -> LicenseRows \cup {None}]
        /\ \A x \in Licenses : licenses'[x] = IF x = l THEN row ELSE licenses[x]
        /\ claims' \subseteq ClaimRows
      BY <1>0, <2>2, <2>4, <2>6 DEF TypeInv
  <2>8. Extended(devices, devices', l, k)
      BY <1>0, <2>1, <2>2, BoundExtends DEF TypeInv
  <2>9. /\ devices' \in Seq(DeviceRows) /\ DOMAIN devices' = DOMAIN devices \cup {i}
        /\ i \in Nat \ {0} /\ \A j \in DOMAIN devices : devices'[j] = devices[j]
        /\ devices'[i].license = l /\ devices'[i].key = k /\ devices'[i].active
        /\ devices'[i] \in DeviceRows
      BY <2>8, Zenon DEF Extended
  <2> HIDE DEF i
  <2>10. /\ \A j \in DOMAIN devices : devices[j].license \in Licenses /\ licenses[devices[j].license] # None
         /\ \A c \in Codes : codes[c] # None => codes[c].license \in Licenses
      BY <1>0, DeviceTypes, DeviceFields, CodeFields DEF TypeInv, RowInv
  <2>11. Grow
    <3>1. /\ \A x \in Licenses : licenses[x] # None => licenses'[x] = licenses[x]
          /\ DOMAIN devices \subseteq DOMAIN devices'
        BY <2>1, <2>7, <2>9
    <3> QED  BY <1>3, <2>2, <2>3, <2>9, <3>1, SMT DEF Grow
  <2>12. RowInv'
    <3>1. \A j \in DOMAIN devices' : licenses'[devices'[j].license] # None
        BY <2>1, <2>5, <2>7, <2>9, <2>10
    <3>2. \A x \in Licenses : licenses[x] # None => licenses'[x] # None
        BY <2>5, <2>7
    <3>3. DOMAIN devices \subseteq DOMAIN devices'
        BY <2>9
    <3> QED  BY <1>0, <2>2, <2>4, <2>7, <2>10, <3>1, <3>2, <3>3, SMT DEF RowInv
  <2>13. UniqueInv'
    <3>1. OneBinding(devices) /\ OneTrial(claims)
        BY <1>0, UniqueParts
    <3>2. \A j \in DOMAIN devices : devices[j].active => devices[j].license # l /\ devices[j].key # k
      <4>1. 0 \notin DOMAIN devices
          BY <1>0, DeviceTypes
      <4> QED  BY <1>6, <2>1, <2>10, <4>1 DEF KeyInUse
    <3>3. OneBinding(devices')
        BY <1>0, <2>1, <2>2, <3>1, <3>2, BoundOnce DEF TypeInv
    <3>4. OneTrial(claims')
        BY <1>6, <2>2, <2>6, <3>1, SMT DEF OneTrial
    <3> QED  BY <3>3, <3>4, UniqueAfter
  <2>14. PICK ask : ask = Ask(d) /\ ask = Ask(d)'
      BY <2>3 DEF Ask
  <2>15. PICK n \in Nat \ {0}, m \in Licenses, lic \in LicenseRows :
            n = i /\ m = l /\ lic = row
      BY <2>1, <2>4, <2>9
  <2>r. PICK answer : answer = reply
      OBVIOUS
  <2>16. answer = createLease(m, n, lic, TRUE, v.at)
      BY <2>15, <2>r
  <2>17. /\ licenses'[m] \in LicenseRows /\ licenses'[m].gone = None
         /\ n \in DOMAIN devices' /\ devices'[n] \in DeviceRows /\ devices'[n].active
      BY <2>4, <2>7, <2>9, <2>15
  <2>18. answer \in Replies /\ Kept(ask, answer)'
    <3> HIDE DEF reply
    <3>1. TRUE \in BOOLEAN /\ ask.op # "redeem"
        BY <1>1, <2>14
    <3> QED  BY <1>3, <2>3, <2>16, <2>17, <3>1, LeaseAfter
  <2>19. Answer(d, answer)
      BY <2>2, <2>r
  <2> QED  BY <1>0, <1>1, <2>2, <2>7, <2>9, <2>11, <2>12, <2>13, <2>14, <2>18, <2>19, WriteStep DEF TypeInv
<1> QED  BY <1>5, <1>6

\* A code renews the term of a licence and leaves the rest of its row.
LEMMA RenewedRow ==
    ASSUME NEW lic \in LicenseRows, NEW code \in CodeRows, NEW t \in Nat
    PROVE  Renewed(lic, code, t) \in LicenseRows /\ Renewed(lic, code, t).status = lic.status
<1> DEFINE left == (IF lic.expires > t THEN lic.expires ELSE t) + code.months
           perpetual == [lic EXCEPT !.kind = "PERPETUAL", !.expires = 0]
           renewed == [lic EXCEPT !.kind = "SUBSCRIPTION", !.expires = left]
<1>1. /\ left \in Nat /\ 0 \in Nat
      /\ "PERPETUAL" \in {"TRIAL", "SUBSCRIPTION", "PERPETUAL"}
      /\ "SUBSCRIPTION" \in {"TRIAL", "SUBSCRIPTION", "PERPETUAL"}
    BY LicenseFields, CodeFields
<1>2. Renewed(lic, code, t) = perpetual \/ Renewed(lic, code, t) = renewed
    BY Zenon DEF Renewed
<1> HIDE DEF left
<1>3. perpetual \in LicenseRows /\ renewed \in LicenseRows
    BY <1>1, Zenon DEF LicenseRows
<1>4. perpetual.status = lic.status /\ renewed.status = lic.status
    BY SMT DEF LicenseRows
<1> QED  BY <1>2, <1>3, <1>4

LEMMA RedeemWriteStep ==
    ASSUME ServiceInv, NEW d \in Deliveries, Working(d), RedeemWrite(d)
    PROVE  ServiceInv'
<1>0. TypeInv /\ RowInv /\ UniqueInv
    BY DEF ServiceInv
<1>1. Ask(d).op = "redeem" /\ inv[d].pc = "write" /\ WritesTables
    BY DEF RedeemWrite, At
<1>2. PICK v \in Invocations : v = inv[d]
    BY WorkingFacts
<1>3. /\ Ask(d) \in Contents /\ Ask(d).key \in STRING /\ Ask(d).code \in Codes
      /\ v.at \in Nat /\ v.at =< now /\ now \in Nat /\ Redeeming(v, Ask(d))
    BY <1>2, WorkingFacts, ContentsFields DEF Local
<1>4. PICK c \in Codes, k \in STRING : c = Ask(d).code /\ k = Ask(d).key
    BY <1>3
<1>5. /\ v.code \in CodeRows /\ HeldLicense(v, v.code.license) /\ codes[c] # None
      /\ v.dev = 0 \/ HeldDevice(v, v.dev)
    BY <1>1, <1>2, <1>3, <1>4 DEF Redeeming
<1>6. PICK l \in Licenses : l = v.code.license
    BY <1>5, CodeFields
<1> DEFINE rejected == \/ <<"redeem", c>> \in audit
                       \/ v.dev = 0 /\ (LicenseBound(l, 0) \/ KeyInUse(k, 0))
<1>7. CASE rejected
  <2>1. GoTo(d, "recover") /\ ReadsOnly
      BY <1>1, <1>2, <1>4, <1>6, <1>7, RejectedReadsOnly DEF RedeemWrite
  <2>2. \A w : w.pc = "recover" => Redeeming(w, Ask(d)) /\ Claiming(w, Ask(d)) /\ Administering(w, Ask(d))
      BY <1>1, <1>4, <1>5 DEF Redeeming, Claiming, Administering
  <2> QED  BY <2>1, <2>2, GoToStep
<1>8. CASE ~rejected
  <2> DEFINE lic == IF v.code.kind = "CURRENT" THEN v.lic ELSE Renewed(v.lic, v.code, v.at)
             i == IF v.dev = 0 THEN Len(devices) + 1 ELSE v.dev
             spent == [codes[c] EXCEPT !.used = TRUE, !.by = i]
             reply == createLease(l, i, lic, v.sourced, v.at)
  <2>1. /\ devices' = IF v.dev = 0 THEN Bound(devices, l, k) ELSE devices
        /\ codes' = [codes EXCEPT ![c] = spent]
        /\ licenses' = IF v.code.kind # "CURRENT" /\ licenses[l].status = "ACTIVE"
                       THEN [licenses EXCEPT ![l] =
                              [licenses[l] EXCEPT !.kind = lic.kind, !.expires = lic.expires]]
                       ELSE licenses
        /\ audit' = audit \cup {<<"redeem", c>>}
        /\ Answer(d, reply) /\ transfers' = transfers /\ claims' = claims
      BY <1>2, <1>4, <1>6, <1>8, Zenon DEF RedeemWrite, Bound
  <2>2. now' = now /\ sent' = sent
      BY <1>1 DEF WritesTables
  <2>3. lic \in LicenseRows /\ lic.status = v.lic.status
      BY <1>3, <1>5, RenewedRow DEF HeldLicense
  <2>4. licenses[l] \in LicenseRows /\ licenses[l] # None
      BY <1>0, <1>5, <1>6 DEF HeldLicense, TypeInv
  <2>5. PICK row \in LicenseRows :
          /\ licenses' = [licenses EXCEPT ![l] = row]
          /\ row.status = licenses[l].status /\ row.gone = licenses[l].gone
    <3>1. PICK old \in LicenseRows : old = licenses[l]
        BY <2>4
    <3>2. PICK kind \in {"TRIAL", "SUBSCRIPTION", "PERPETUAL"}, until \in Nat :
            kind = lic.kind /\ until = lic.expires
        BY <2>3, LicenseFields
    <3> DEFINE row == [old EXCEPT !.kind = kind, !.expires = until]
    <3>3. row \in LicenseRows
        BY Zenon DEF LicenseRows
    <3>4. row.status = old.status /\ row.gone = old.gone
        BY SMT DEF LicenseRows
    <3>5. licenses' = [licenses EXCEPT ![l] = row] \/ licenses' = [licenses EXCEPT ![l] = old]
      <4>1. licenses = [licenses EXCEPT ![l] = licenses[l]]
          BY <1>0 DEF TypeInv
      <4> HIDE DEF lic
      <4> QED  BY <2>1, <3>1, <3>2, <4>1, Zenon
    <3> HIDE DEF row
    <3> QED  BY <3>1, <3>3, <3>4, <3>5
  <2>6. /\ licenses' \in [Licenses -> LicenseRows \cup {None}]
        /\ \A x \in Licenses : licenses'[x] = IF x = l THEN row ELSE licenses[x]
        /\ row # None
      BY <1>0, <2>5, LicenseFields DEF TypeInv
  <2> HIDE DEF lic
  <2>7. /\ devices' \in Seq(DeviceRows) /\ DOMAIN devices \subseteq DOMAIN devices'
        /\ \A j \in DOMAIN devices : devices'[j] = devices[j]
        /\ \A j \in DOMAIN devices' \ DOMAIN devices : devices'[j].license = l
        /\ i \in DOMAIN devices' /\ i \in Nat \ {0} /\ devices'[i] \in DeviceRows
        /\ devices'[i].active \/ v.at =< devices'[i].off
        /\ OneBinding(devices')
    <3>0. OneBinding(devices) /\ devices \in Seq(DeviceRows)
        BY <1>0, UniqueParts DEF TypeInv
    <3>1. CASE v.dev = 0
      <4>1. devices' = Bound(devices, l, k) /\ i = Len(devices) + 1
          BY <2>1, <3>1
      <4>2. Extended(devices, devices', l, k)
          BY <3>0, <4>1, BoundExtends
      <4>3. \A j \in DOMAIN devices : devices[j].active => devices[j].license # l /\ devices[j].key # k
        <5>1. 0 \notin DOMAIN devices
            BY <1>0, DeviceTypes
        <5> QED  BY <1>8, <3>1, <5>1 DEF KeyInUse, LicenseBound
      <4>4. OneBinding(devices')
          BY <3>0, <4>1, <4>3, BoundOnce
      <4> HIDE DEF i
      <4> QED  BY <4>1, <4>2, <4>4, Zenon DEF Extended
    <3>2. CASE v.dev # 0
      <4>1. devices' = devices /\ i = v.dev
          BY <2>1, <3>2
      <4>2. HeldDevice(v, i)
          BY <1>5, <3>2, <4>1
      <4> HIDE DEF i
      <4> QED  BY <1>0, <3>0, <4>1, <4>2, DeviceTypes DEF HeldDevice
    <3> QED  BY <3>1, <3>2
  <2> HIDE DEF i
  <2>8. codes[c] \in CodeRows /\ ~codes[c].used
      BY <1>0, <1>5, <1>8 DEF TypeInv, RowInv
  <2>9. spent \in CodeRows /\ spent.used /\ spent.by = i /\ spent.license = codes[c].license
    <3>1. PICK old \in CodeRows : old = codes[c]
        BY <2>8
    <3>2. TRUE \in BOOLEAN /\ i \in Nat
        BY <2>7
    <3>3. [old EXCEPT !.used = TRUE, !.by = i] \in CodeRows
        BY <3>2, Zenon DEF CodeRows
    <3>4. /\ [old EXCEPT !.used = TRUE, !.by = i].used
          /\ [old EXCEPT !.used = TRUE, !.by = i].by = i
          /\ [old EXCEPT !.used = TRUE, !.by = i].license = old.license
        BY SMT DEF CodeRows
    <3> QED  BY <3>1, <3>3, <3>4
  <2>10. spent # None
      BY <2>9, CodeFields
  <2> HIDE DEF spent
  <2>11. /\ codes' \in [Codes -> CodeRows \cup {None}]
         /\ \A x \in Codes : codes'[x] = IF x = c THEN spent ELSE codes[x]
      BY <1>0, <2>1, <2>9 DEF TypeInv
  <2>12. Grow
    <3>1. \A x \in Licenses : licenses[x] # None => licenses'[x] # None /\ licenses'[x].gone = licenses[x].gone
        BY <2>5, <2>6
    <3>2. \A x \in Codes : codes[x] # None =>
            codes'[x] # None /\ (codes[x].used => codes'[x].used /\ codes'[x].by = codes[x].by)
        BY <2>8, <2>10, <2>11
    <3> QED  BY <1>3, <2>1, <2>2, <2>7, <3>1, <3>2, SMT DEF Grow
  <2>13. RowInv'
    <3>1. \A x \in Licenses : licenses[x] # None => licenses'[x] # None
        BY <2>6
    <3>2. \A x \in Licenses : licenses'[x] # None /\ licenses'[x].status = "ACTIVE" => licenses'[x].gone = None
        BY <1>0, <2>4, <2>5, <2>6 DEF RowInv
    <3>3. \A j \in DOMAIN devices' : licenses'[devices'[j].license] # None
      <4>1. \A j \in DOMAIN devices : devices[j].license \in Licenses /\ licenses[devices[j].license] # None
          BY <1>0, DeviceTypes, DeviceFields DEF RowInv
      <4> QED  BY <2>6, <2>7, <3>1, <4>1
    <3>4. \A x \in Codes : codes'[x] # None =>
            /\ licenses'[codes'[x].license] # None
            /\ codes'[x].used => codes'[x].by \in DOMAIN devices' /\ <<"redeem", x>> \in audit'
      <4>1. \A x \in Codes : codes[x] # None => codes[x].license \in Licenses /\ licenses[codes[x].license] # None
          BY <1>0, CodeFields DEF TypeInv, RowInv
      <4> QED  BY <1>0, <1>5, <2>1, <2>7, <2>9, <2>11, <3>1, <4>1 DEF RowInv
    <3>5. \A t \in Transfers : transfers'[t] # None =>
            /\ transfers'[t].device \in DOMAIN devices' \cup {0}
            /\ transfers'[t].status \in {"APPROVED", "CLAIMED"} =>
                 /\ transfers'[t].device \in DOMAIN devices'
                 /\ transfers'[t].license \in Licenses
                 /\ licenses'[transfers'[t].license] # None
        BY <1>0, <2>1, <2>7, <3>1 DEF RowInv
    <3> QED  BY <3>2, <3>3, <3>4, <3>5, Zenon DEF RowInv
  <2>14. UniqueInv'
    <3>1. OneTrial(claims')
        BY <1>0, <2>1, UniqueParts
    <3> QED  BY <2>7, <3>1, UniqueAfter
  <2>15. PICK ask : ask = Ask(d) /\ ask = Ask(d)'
      BY <2>2 DEF Ask
  <2>16. PICK n \in Nat \ {0}, term \in LicenseRows, sourced \in BOOLEAN :
            n = i /\ term = lic /\ sourced = v.sourced
      BY <2>3, <2>7, InvocationFields
  <2>r. PICK answer : answer = reply
      OBVIOUS
  <2>17. answer = createLease(l, n, term, sourced, v.at)
      BY <2>16, <2>r
  <2>18. term.status = "ACTIVE" /\ licenses'[l].gone # None => v.at =< licenses'[l].gone
      BY <1>5, <1>6, <2>3, <2>5, <2>6, <2>16 DEF HeldLicense
  <2>19. codes'[ask.code] # None /\ codes'[ask.code].used /\ n = codes'[ask.code].by
      BY <1>4, <2>9, <2>10, <2>11, <2>15, <2>16
  <2>20. /\ licenses'[l] \in LicenseRows /\ n \in DOMAIN devices' /\ devices'[n] \in DeviceRows
         /\ devices'[n].active \/ v.at =< devices'[n].off
      BY <2>5, <2>6, <2>7, <2>16
  <2>21. answer \in Replies /\ Kept(ask, answer)'
    <3> HIDE DEF reply
    <3> QED  BY <1>3, <2>2, <2>17, <2>18, <2>19, <2>20, LeaseAfter
  <2>22. Answer(d, answer)
      BY <2>1, <2>r
  <2> QED  BY <1>0, <1>1, <2>1, <2>6, <2>7, <2>11, <2>12, <2>13, <2>14, <2>15, <2>21, <2>22, WriteStep DEF TypeInv
<1> QED  BY <1>7, <1>8

----------------------------------------------------------------------------
(* The steps that write: approval and deletion *)

\* The table s of devices with some bindings ended now.
Unbinds(s) ==
    /\ s \in Seq(DeviceRows) /\ DOMAIN s = DOMAIN devices /\ Len(s) = Len(devices)
    /\ \A j \in DOMAIN devices :
         /\ s[j].license = devices[j].license
         /\ s[j] = devices[j] \/ (~s[j].active /\ s[j].off = now)

LEMMA UnbindsOnce ==
    ASSUME OneBinding(devices), NEW s, Unbinds(s)
    PROVE  OneBinding(s)
    BY SMT DEF OneBinding, Unbinds

LEMMA EndedRow ==
    ASSUME NEW row \in DeviceRows, NEW t \in Nat
    PROVE  /\ [row EXCEPT !.active = FALSE, !.off = t] \in DeviceRows
           /\ [row EXCEPT !.active = FALSE, !.off = t].license = row.license
           /\ ~[row EXCEPT !.active = FALSE, !.off = t].active
           /\ [row EXCEPT !.active = FALSE, !.off = t].off = t
<1>1. FALSE \in BOOLEAN
    OBVIOUS
<1>2. [row EXCEPT !.active = FALSE, !.off = t] \in DeviceRows
    BY <1>1, Zenon DEF DeviceRows
<1>3. /\ [row EXCEPT !.active = FALSE, !.off = t].license = row.license
      /\ ~[row EXCEPT !.active = FALSE, !.off = t].active
      /\ [row EXCEPT !.active = FALSE, !.off = t].off = t
    BY SMT DEF DeviceRows
<1> QED  BY <1>2, <1>3

LEMMA DeactivateUnbinds ==
    ASSUME TypeInv, NEW i \in DOMAIN devices
    PROVE  Unbinds(Deactivate(i)) /\ ~Deactivate(i)[i].active
<1>1. PICK row \in DeviceRows : row = devices[i]
    BY DeviceTypes
<1>2. now \in Nat
    BY RowsAssumption, SMT DEF TypeInv
<1>3. PICK new : new = [row EXCEPT !.active = FALSE, !.off = now]
    OBVIOUS
<1>4. new \in DeviceRows /\ new.license = row.license /\ ~new.active /\ new.off = now
    BY <1>2, <1>3, EndedRow
<1> DEFINE s == [devices EXCEPT ![i] = new]
<1>5. Deactivate(i) = s
    BY <1>1, <1>3 DEF Deactivate
<1>6. /\ s \in Seq(DeviceRows) /\ Len(s) = Len(devices)
    BY <1>4, ExceptSeq DEF TypeInv
<1>7. /\ DOMAIN s = DOMAIN devices
      /\ \A j \in DOMAIN devices : s[j] = IF j = i THEN new ELSE devices[j]
    OBVIOUS
<1> HIDE DEF s
<1>8. Unbinds(s) /\ ~s[i].active
    BY <1>1, <1>4, <1>6, <1>7 DEF Unbinds
<1> QED  BY <1>5, <1>8

LEMMA ApproveWriteStep ==
    ASSUME ServiceInv, NEW d \in Deliveries, Working(d), ApproveWrite(d)
    PROVE  ServiceInv'
<1>0. TypeInv /\ RowInv /\ UniqueInv
    BY DEF ServiceInv
<1>1. Ask(d).op = "approve" /\ inv[d].pc = "write" /\ WritesTables
    BY DEF ApproveWrite, At
<1>2. PICK v \in Invocations : v = inv[d]
    BY WorkingFacts
<1>3. /\ Ask(d).license \in Licenses /\ Ask(d).transfer \in Transfers /\ now \in Nat
      /\ Administering(v, Ask(d))
    BY <1>2, WorkingFacts, ContentsFields DEF Local
<1>4. PICK l \in Licenses, t \in Transfers : l = Ask(d).license /\ t = Ask(d).transfer
    BY <1>3
<1>5. /\ licenses[l] # None /\ transfers[t] # None /\ v.code \in TransferRows
      /\ v.dev \in DOMAIN devices
    BY <1>1, <1>2, <1>3, <1>4 DEF Administering
<1>6. PICK k \in STRING, old \in DOMAIN devices : k = v.code.key /\ old = v.dev
    BY <1>5, TransferFields
<1> DEFINE rejected == <<"approve", t>> \in audit \/ LicenseBound(l, old) \/ KeyInUse(k, old)
<1>7. CASE rejected
  <2>1. Answer(d, Fail("TRANSFER_NOT_AVAILABLE")) /\ ReadsOnly
      BY <1>1, <1>2, <1>4, <1>6, <1>7, RejectedReadsOnly DEF ApproveWrite
  <2>2. "TRANSFER_NOT_AVAILABLE" \in ReplyCodes
      BY DEF ReplyCodes
  <2> QED  BY <2>1, <2>2, FailStep
<1>8. CASE ~rejected
  <2> DEFINE mid == IF IsActive(old) THEN Deactivate(old) ELSE devices
             n == Len(devices) + 1
             moved == [transfers[t] EXCEPT !.status = "APPROVED", !.license = l, !.device = n]
  <2>1. /\ devices' = Bound(mid, l, k)
        /\ transfers' = IF transfers[t].status = "PENDING"
                        THEN [transfers EXCEPT ![t] = moved] ELSE transfers
        /\ audit \subseteq audit' /\ Answer(d, Done(t))
        /\ licenses' = licenses /\ codes' = codes /\ claims' = claims
      BY <1>2, <1>4, <1>6, <1>8 DEF ApproveWrite, Bound
  <2>2. now' = now /\ sent' = sent
      BY <1>1 DEF WritesTables
  <2>3. Unbinds(mid) /\ ~mid[old].active
    <3>1. CASE IsActive(old)
        BY <1>0, <3>1, DeactivateUnbinds
    <3>2. CASE ~IsActive(old)
        BY <1>0, <3>2 DEF IsActive, Unbinds, TypeInv
    <3> QED  BY <3>1, <3>2
  <2> HIDE DEF mid
  <2>4. /\ mid \in Seq(DeviceRows) /\ DOMAIN mid = DOMAIN devices /\ Len(mid) + 1 = n
      BY <2>3 DEF Unbinds
  <2>5. OneBinding(devices')
    <3>1. OneBinding(mid)
        BY <1>0, <2>3, UniqueParts, UnbindsOnce
    <3>2. \A j \in DOMAIN mid : mid[j].active => mid[j].license # l /\ mid[j].key # k
        BY <1>8, <2>3 DEF Unbinds, LicenseBound, KeyInUse
    <3> QED  BY <2>1, <2>4, <3>1, <3>2, BoundOnce
  <2>6. Extended(mid, devices', l, k)
      BY <2>1, <2>4, BoundExtends
  <2>7. /\ devices' \in Seq(DeviceRows) /\ DOMAIN devices' = DOMAIN devices \cup {n}
        /\ n \in Nat \ {0} /\ \A j \in DOMAIN devices : devices'[j] = mid[j]
        /\ devices'[n].license = l /\ n \notin DOMAIN devices
      BY <2>4, <2>6, Zenon DEF Extended
  <2> HIDE DEF n
  <2>8. \A j \in DOMAIN devices :
          /\ devices'[j].license = devices[j].license
          /\ devices'[j] = devices[j] \/ (~devices'[j].active /\ devices'[j].off = now)
      BY <2>3, <2>7 DEF Unbinds
  <2>9. PICK was \in TransferRows : was = transfers[t]
      BY <1>0, <1>5 DEF TypeInv
  <2>10. PICK row \in TransferRows :
           /\ transfers' = [transfers EXCEPT ![t] = row]
           /\ \/ row = was
              \/ row.status = "APPROVED" /\ row.license = l /\ row.device = n
    <3>1. CASE was.status = "PENDING"
      <4> DEFINE row == [was EXCEPT !.status = "APPROVED", !.license = l, !.device = n]
      <4>1. row \in TransferRows
        <5>1. /\ "APPROVED" \in {"PENDING", "APPROVED", "CLAIMED", "REJECTED", "EXPIRED"}
              /\ l \in Licenses \cup {None} /\ n \in Nat
            BY <2>7
        <5> QED  BY <5>1, Zenon DEF TransferRows
      <4>2. row.status = "APPROVED" /\ row.license = l /\ row.device = n
          BY SMT DEF TransferRows
      <4>3. transfers' = [transfers EXCEPT ![t] = row]
          BY <2>1, <2>9, <3>1
      <4> QED  BY <4>1, <4>2, <4>3
    <3>2. CASE was.status # "PENDING"
      <4>1. transfers' = [transfers EXCEPT ![t] = was]
          BY <1>0, <2>1, <2>9, <3>2 DEF TypeInv
      <4> QED  BY <4>1
    <3> QED  BY <3>1, <3>2
  <2>11. /\ transfers' \in [Transfers -> TransferRows \cup {None}]
         /\ \A x \in Transfers : transfers'[x] = IF x = t THEN row ELSE transfers[x]
         /\ row # None
      BY <1>0, <2>10, TransferFields DEF TypeInv
  <2>12. Grow
      BY <1>3, <2>1, <2>2, <2>7, <2>8, <2>11, SMT DEF Grow
  <2>13. RowInv'
    <3>1. \A j \in DOMAIN devices' : licenses'[devices'[j].license] # None
        BY <1>0, <1>5, <2>1, <2>7, <2>8 DEF RowInv
    <3>2. \A c \in Codes : codes'[c] # None =>
            /\ licenses'[codes'[c].license] # None
            /\ codes'[c].used => codes'[c].by \in DOMAIN devices' /\ <<"redeem", c>> \in audit'
        BY <1>0, <2>1, <2>7 DEF RowInv
    <3>3. \A x \in Transfers : transfers'[x] # None =>
            /\ transfers'[x].device \in DOMAIN devices' \cup {0}
            /\ transfers'[x].status \in {"APPROVED", "CLAIMED"} =>
                 /\ transfers'[x].device \in DOMAIN devices'
                 /\ transfers'[x].license \in Licenses
                 /\ licenses'[transfers'[x].license] # None
        BY <1>0, <1>5, <2>1, <2>7, <2>9, <2>10, <2>11 DEF RowInv
    <3>4. \A x \in Licenses : licenses'[x] # None /\ licenses'[x].status = "ACTIVE" => licenses'[x].gone = None
        BY <1>0, <2>1 DEF RowInv
    <3> QED  BY <3>1, <3>2, <3>3, <3>4, Zenon DEF RowInv
  <2>14. UniqueInv'
    <3>1. OneTrial(claims')
        BY <1>0, <2>1, UniqueParts
    <3> QED  BY <2>5, <3>1, UniqueAfter
  <2>15. Done(t) \in Replies /\ Kept(Ask(d), Done(t))'
      BY DoneReply, PlainDone
  <2> QED  BY <1>0, <1>1, <2>1, <2>7, <2>11, <2>12, <2>13, <2>14, <2>15, WriteStep DEF TypeInv
<1> QED  BY <1>7, <1>8

LEMMA DeleteWriteStep ==
    ASSUME ServiceInv, NEW d \in Deliveries, Working(d), DeleteWrite(d)
    PROVE  ServiceInv'
<1>0. TypeInv /\ RowInv /\ UniqueInv
    BY DEF ServiceInv
<1>1. Ask(d).op = "delete" /\ inv[d].pc = "write" /\ WritesTables
    BY DEF DeleteWrite, At
<1>2. /\ Ask(d).license \in Licenses /\ now \in Nat /\ inv[d].at \in Nat
      /\ Administering(inv[d], Ask(d))
    BY WorkingFacts, ContentsFields DEF Local
<1>3. PICK l \in Licenses, t \in Nat : l = Ask(d).license /\ t = inv[d].at
    BY <1>2
<1>4. licenses[l] # None /\ Answer(d, Done(l))
    BY <1>1, <1>2, <1>3 DEF Administering, DeleteWrite
<1>5. Done(l) \in Replies /\ Kept(Ask(d), Done(l)) /\ Kept(Ask(d), Done(l))'
    BY DoneReply, PlainDone, PlainAnswer
<1>6. CASE <<"delete", l>> \in audit
  <2>1. ReadsOnly
      BY <1>1, <1>3, <1>6, RejectedReadsOnly DEF DeleteWrite
  <2> QED  BY <1>4, <1>5, <2>1, AnswerStep
<1>7. CASE <<"delete", l>> \notin audit
  <2>1. /\ licenses' = [licenses EXCEPT ![l] = [licenses[l] EXCEPT !.status = "SUSPENDED", !.gone = now]]
        /\ devices' = [i \in DOMAIN devices |->
             IF devices[i].license = l /\ devices[i].active THEN Deactivate(i)[i] ELSE devices[i]]
        /\ codes' = [c \in Codes |->
             IF /\ codes[c] # None /\ codes[c].license = l
                /\ ~codes[c].used /\ codes[c].expires > t
             THEN [codes[c] EXCEPT !.expires = t] ELSE codes[c]]
        /\ transfers' = [x \in Transfers |->
             IF /\ transfers[x] # None /\ transfers[x].license = l
                /\ transfers[x].status \in {"PENDING", "APPROVED"}
             THEN [transfers[x] EXCEPT !.status = "REJECTED"] ELSE transfers[x]]
        /\ audit \subseteq audit' /\ claims' = claims
    <3>1. audit \subseteq audit' /\ claims' = claims
        BY <1>3, <1>7 DEF DeleteWrite
    <3> QED  BY <1>3, <1>7, <3>1, Zenon DEF DeleteWrite
  <2>2. now' = now /\ sent' = sent
      BY <1>1 DEF WritesTables
  <2>3. PICK row \in LicenseRows :
          licenses' = [licenses EXCEPT ![l] = row] /\ row.status = "SUSPENDED" /\ row.gone = now
    <3>1. PICK old \in LicenseRows : old = licenses[l]
        BY <1>0, <1>4 DEF TypeInv
    <3>2. PICK n \in Nat : n = now
        BY <1>2
    <3> DEFINE row == [old EXCEPT !.status = "SUSPENDED", !.gone = n]
    <3>3. row \in LicenseRows
      <4>1. "SUSPENDED" \in {"ACTIVE", "SUSPENDED"} /\ n \in Nat \cup {None}
          OBVIOUS
      <4> QED  BY <4>1, Zenon DEF LicenseRows
    <3>4. row.status = "SUSPENDED" /\ row.gone = n
        BY SMT DEF LicenseRows
    <3>5. licenses' = [licenses EXCEPT ![l] = row]
        BY <2>1, <3>1, <3>2
    <3> QED  BY <3>2, <3>3, <3>4, <3>5
  <2>4. /\ licenses' \in [Licenses -> LicenseRows \cup {None}]
        /\ \A x \in Licenses : licenses'[x] = IF x = l THEN row ELSE licenses[x]
        /\ row # None
      BY <1>0, <2>3, LicenseFields DEF TypeInv
  <2>5. Unbinds(devices')
    <3>1. ASSUME NEW j \in DOMAIN devices
          PROVE  /\ devices'[j] \in DeviceRows /\ devices'[j].license = devices[j].license
                 /\ devices'[j] = devices[j] \/ (~devices'[j].active /\ devices'[j].off = now)
      <4>1. devices[j] \in DeviceRows
          BY <1>0, DeviceTypes
      <4>2. Unbinds(Deactivate(j)) /\ ~Deactivate(j)[j].active
          BY <1>0, DeactivateUnbinds
      <4>3. /\ Deactivate(j)[j] \in DeviceRows /\ Deactivate(j)[j].license = devices[j].license
            /\ Deactivate(j)[j] = devices[j] \/ (~Deactivate(j)[j].active /\ Deactivate(j)[j].off = now)
        <5>1. PICK s : s = Deactivate(j)
            OBVIOUS
        <5>2. Unbinds(s)
            BY <4>2, <5>1
        <5>3. s[j] \in DeviceRows
            BY <5>2 DEF Unbinds
        <5> QED  BY <5>1, <5>2, <5>3, Zenon DEF Unbinds
      <4>4. devices'[j] = devices[j] \/ devices'[j] = Deactivate(j)[j]
          BY <2>1, Zenon
      <4> QED  BY <4>1, <4>3, <4>4
    <3>2. DOMAIN devices' = DOMAIN devices
        BY <2>1, Zenon
    <3>3. Len(devices) \in Nat /\ DOMAIN devices = 1 .. Len(devices)
        BY <1>0, DeviceTypes
    <3>4. devices' \in [1 .. Len(devices) -> DeviceRows]
      <4>1. devices' = [j \in DOMAIN devices |-> devices'[j]]
          BY <2>1, <3>2, Zenon
      <4> QED  BY <3>1, <3>3, <4>1
    <3>5. devices' \in Seq(DeviceRows)
        BY <3>3, <3>4, SeqDef
    <3>6. Len(devices') = Len(devices)
        BY <3>2, <3>3, <3>5, LenProperties
    <3> QED  BY <3>1, <3>2, <3>5, <3>6 DEF Unbinds
  <2>6. /\ codes' \in [Codes -> CodeRows \cup {None}]
        /\ \A c \in Codes :
             /\ codes[c] = None <=> codes'[c] = None
             /\ codes[c] # None =>
                  /\ codes'[c].license = codes[c].license /\ codes'[c].by = codes[c].by
                  /\ codes'[c].used = codes[c].used
    <3>1. ASSUME NEW c \in Codes
          PROVE  /\ codes'[c] \in CodeRows \cup {None}
                 /\ codes[c] = None <=> codes'[c] = None
                 /\ codes[c] # None =>
                      /\ codes'[c].license = codes[c].license /\ codes'[c].by = codes[c].by
                      /\ codes'[c].used = codes[c].used
      <4>1. codes'[c] = codes[c] \/ (codes[c] # None /\ codes'[c] = [codes[c] EXCEPT !.expires = t])
          BY <2>1, Zenon
      <4>2. CASE codes[c] # None
        <5>1. PICK old \in CodeRows : old = codes[c]
            BY <1>0, <4>2 DEF TypeInv
        <5>2. [old EXCEPT !.expires = t] \in CodeRows
            BY Zenon DEF CodeRows
        <5>3. /\ [old EXCEPT !.expires = t].license = old.license
              /\ [old EXCEPT !.expires = t].by = old.by
              /\ [old EXCEPT !.expires = t].used = old.used
            BY SMT DEF CodeRows
        <5> QED  BY <4>1, <4>2, <5>1, <5>2, <5>3, CodeFields
      <4>3. CASE codes[c] = None
          BY <4>1, <4>3
      <4> QED  BY <4>2, <4>3
    <3>2. codes' = [c \in Codes |-> codes'[c]]
        BY <2>1, Zenon
    <3>3. codes' \in [Codes -> CodeRows \cup {None}]
        BY <3>1, <3>2
    <3> QED  BY <3>1, <3>3
  <2>7. /\ transfers' \in [Transfers -> TransferRows \cup {None}]
        /\ \A x \in Transfers :
             /\ transfers[x] = None <=> transfers'[x] = None
             /\ transfers[x] # None =>
                  /\ transfers'[x].license = transfers[x].license
                  /\ transfers'[x].device = transfers[x].device
                  /\ transfers'[x].status = transfers[x].status \/ transfers'[x].status = "REJECTED"
    <3>1. ASSUME NEW x \in Transfers
          PROVE  /\ transfers'[x] \in TransferRows \cup {None}
                 /\ transfers[x] = None <=> transfers'[x] = None
                 /\ transfers[x] # None =>
                      /\ transfers'[x].license = transfers[x].license
                      /\ transfers'[x].device = transfers[x].device
                      /\ transfers'[x].status = transfers[x].status \/ transfers'[x].status = "REJECTED"
      <4>1. \/ transfers'[x] = transfers[x]
            \/ transfers[x] # None /\ transfers'[x] = [transfers[x] EXCEPT !.status = "REJECTED"]
          BY <2>1, Zenon
      <4>2. CASE transfers[x] # None
        <5>1. PICK old \in TransferRows : old = transfers[x]
            BY <1>0, <4>2 DEF TypeInv
        <5>2. [old EXCEPT !.status = "REJECTED"] \in TransferRows
          <6>1. "REJECTED" \in {"PENDING", "APPROVED", "CLAIMED", "REJECTED", "EXPIRED"}
              OBVIOUS
          <6> QED  BY <6>1, Zenon DEF TransferRows
        <5>3. /\ [old EXCEPT !.status = "REJECTED"].license = old.license
              /\ [old EXCEPT !.status = "REJECTED"].device = old.device
              /\ [old EXCEPT !.status = "REJECTED"].status = "REJECTED"
            BY SMT DEF TransferRows
        <5> QED  BY <4>1, <4>2, <5>1, <5>2, <5>3, TransferFields
      <4>3. CASE transfers[x] = None
          BY <4>1, <4>3
      <4> QED  BY <4>2, <4>3
    <3>2. transfers' = [x \in Transfers |-> transfers'[x]]
        BY <2>1, Zenon
    <3>3. transfers' \in [Transfers -> TransferRows \cup {None}]
        BY <3>1, <3>2
    <3> QED  BY <3>1, <3>3
  <2>8. /\ devices' \in Seq(DeviceRows) /\ DOMAIN devices' = DOMAIN devices
        /\ \A j \in DOMAIN devices :
             /\ devices'[j].license = devices[j].license
             /\ devices'[j] = devices[j] \/ (~devices'[j].active /\ devices'[j].off = now)
      BY <2>5, Zenon DEF Unbinds
  <2>9. Grow
      BY <1>2, <2>2, <2>3, <2>4, <2>6, <2>7, <2>8, SMT DEF Grow
  <2>10. RowInv'
    <3>0. \A x \in Licenses : licenses[x] # None => licenses'[x] # None
        BY <2>4
    <3>1. \A j \in DOMAIN devices' : licenses'[devices'[j].license] # None
      <4>1. \A j \in DOMAIN devices : devices[j].license \in Licenses /\ licenses[devices[j].license] # None
          BY <1>0, DeviceTypes, DeviceFields DEF RowInv
      <4> QED  BY <2>8, <3>0, <4>1
    <3>2. \A c \in Codes : codes'[c] # None =>
            /\ licenses'[codes'[c].license] # None
            /\ codes'[c].used => codes'[c].by \in DOMAIN devices' /\ <<"redeem", c>> \in audit'
      <4>1. \A c \in Codes : codes[c] # None => codes[c].license \in Licenses /\ licenses[codes[c].license] # None
          BY <1>0, CodeFields DEF TypeInv, RowInv
      <4> QED  BY <1>0, <2>1, <2>6, <2>8, <3>0, <4>1 DEF RowInv
    <3>3. \A x \in Transfers : transfers'[x] # None =>
            /\ transfers'[x].device \in DOMAIN devices' \cup {0}
            /\ transfers'[x].status \in {"APPROVED", "CLAIMED"} =>
                 /\ transfers'[x].device \in DOMAIN devices'
                 /\ transfers'[x].license \in Licenses
                 /\ licenses'[transfers'[x].license] # None
        BY <1>0, <2>7, <2>8, <3>0 DEF RowInv
    <3>4. \A x \in Licenses : licenses'[x] # None /\ licenses'[x].status = "ACTIVE" => licenses'[x].gone = None
        BY <1>0, <2>3, <2>4 DEF RowInv
    <3> QED  BY <3>1, <3>2, <3>3, <3>4, Zenon DEF RowInv
  <2>11. UniqueInv'
    <3>1. OneTrial(claims') /\ OneBinding(devices)
        BY <1>0, <2>1, UniqueParts
    <3>2. OneBinding(devices')
        BY <2>5, <3>1, UnbindsOnce
    <3> QED  BY <3>1, <3>2, UniqueAfter
  <2> QED  BY <1>0, <1>1, <1>4, <1>5, <2>1, <2>4, <2>6, <2>7, <2>8, <2>9, <2>10, <2>11, WriteStep DEF TypeInv
<1> QED  BY <1>6, <1>7

----------------------------------------------------------------------------
(* The steps that begin and end a delivery *)

\* A step of delivery d that leaves the tables, with the keys it leaves.
LEMMA DeliveryStep ==
    ASSUME ServiceInv, NEW d \in Deliveries, NEW new \in Invocations,
           inv' = [inv EXCEPT ![d] = new], UNCHANGED <<now, tables, sent>>,
           Local(new, Ask(d)), new.reply # None => Kept(Ask(d), new.reply),
           idem' \in [Reqs -> Keys \cup {None}],
           \A r \in Reqs : idem'[r] # None /\ idem'[r].reply # None => Kept(sent[r], idem'[r].reply)
    PROVE  TypeInv' /\ RowInv' /\ UniqueInv' /\ LocalInv' /\ ReplyInv'
<1>0. TypeInv /\ RowInv /\ UniqueInv /\ LocalInv /\ ReplyInv
    BY DEF ServiceInv
<1>1. /\ now' = now /\ sent' = sent /\ licenses' = licenses /\ devices' = devices
      /\ codes' = codes /\ transfers' = transfers /\ claims' = claims /\ audit' = audit
    BY DEF tables
<1>2. TypeInv'
    BY <1>0, <1>1 DEF TypeInv
<1>3. RowInv' /\ UniqueInv'
    BY <1>0, <1>1, Zenon DEF RowInv, UniqueInv
<1>4. ASSUME NEW ask, NEW reply, Kept(ask, reply) PROVE Kept(ask, reply)'
    BY <1>1, <1>4, Zenon DEF Kept
<1>5. ASSUME NEW ask, NEW v, Local(v, ask) PROVE Local(v, ask)'
  <2>1. Redeeming(v, ask)' /\ Claiming(v, ask)' /\ Administering(v, ask)'
      BY <1>1, <1>5, Zenon DEF Local, Redeeming, Claiming, Administering, HeldLicense, HeldDevice
  <2> QED  BY <1>1, <1>5, <2>1, Zenon DEF Local
<1>6. \A e \in Deliveries : inv'[e] = IF e = d THEN new ELSE inv[e]
    BY <1>0 DEF TypeInv
<1>7. \A e \in Deliveries : Ask(e)' = Ask(e)
    BY <1>1 DEF Ask
<1>8. LocalInv'
  <2> SUFFICES ASSUME NEW e \in Deliveries PROVE Local(inv[e], Ask(e))'
      BY DEF LocalInv
  <2>1. PICK v, ask : v = inv'[e] /\ ask = Ask(e) /\ ask = Ask(e)'
      BY <1>7
  <2>2. Local(v, ask)
      BY <1>0, <1>6, <2>1 DEF LocalInv
  <2> QED  BY <1>5, <2>1, <2>2
<1>9. ReplyInv'
  <2>1. ASSUME NEW e \in Deliveries, inv'[e].reply # None PROVE Kept(Ask(e), inv[e].reply)'
    <3>1. PICK reply, ask : reply = inv'[e].reply /\ ask = Ask(e) /\ ask = Ask(e)'
        BY <1>7
    <3>2. Kept(ask, reply)
        BY <1>0, <1>6, <2>1, <3>1 DEF ReplyInv
    <3> QED  BY <1>4, <3>1, <3>2
  <2>2. ASSUME NEW r \in Reqs, idem'[r] # None, idem'[r].reply # None
        PROVE  Kept(sent[r], idem[r].reply)'
    <3>1. PICK reply, ask : reply = idem'[r].reply /\ ask = sent[r] /\ ask = sent'[r]
        BY <1>1
    <3>2. Kept(ask, reply)
        BY <2>2, <3>1
    <3> QED  BY <1>4, <3>1, <3>2
  <2> QED  BY <2>1, <2>2 DEF ReplyInv
<1> QED  BY <1>2, <1>3, <1>8, <1>9

LEMMA IdleFields ==
    Idle \in Invocations /\ Idle.pc = "idle" /\ Idle.at = 0 /\ ~Idle.ran /\ Idle.reply = None
<1>1. /\ None \in CodeRows \cup TransferRows \cup {None} /\ None \in LicenseRows \cup {None}
      /\ None \in Replies \cup {None} /\ 0 \in Nat /\ FALSE \in BOOLEAN
      /\ "idle" \in {"idle", "first", "second", "third", "write", "recover", "finish", "done"}
    OBVIOUS
<1>2. Idle \in Invocations
    BY <1>1, Zenon DEF Idle, Invocations
<1> QED  BY <1>2, SMT DEF Idle

\* An invocation that runs the handler.
LEMMA RunFields ==
    ASSUME NEW t \in Nat, NEW v \in Invocations, v.reply = None
    PROVE  LET new == [v EXCEPT !.pc = "first", !.at = t, !.ran = TRUE]
           IN  /\ new \in Invocations /\ new.pc = "first" /\ new.at = t /\ new.reply = None
               /\ new.ran
<1> DEFINE new == [v EXCEPT !.pc = "first", !.at = t, !.ran = TRUE]
<1>1. new \in Invocations
  <2>1. /\ TRUE \in BOOLEAN
        /\ "first" \in {"idle", "first", "second", "third", "write", "recover", "finish", "done"}
      OBVIOUS
  <2> QED  BY <2>1, Zenon DEF Invocations
<1>2. new.pc = "first" /\ new.at = t /\ new.reply = None /\ new.ran
    BY SMT DEF Invocations
<1> QED  BY <1>1, <1>2

\* The retention of the key covers the window in which its request is accepted.
LEMMA Retained ==
    ASSUME NEW started \in Nat, NEW stamp \in Int, NEW t \in Nat, t > started + KeyLife,
           started - stamp \in -FreshWindow .. FreshWindow
    PROVE  t - stamp \notin -FreshWindow .. FreshWindow
    BY RetentionAssumption, SMT

LEMMA BeginStep ==
    ASSUME ServiceInv, NEW d \in Deliveries, Begin(d)
    PROVE  ServiceInv'
<1>0. TypeInv /\ LocalInv /\ ReplyInv /\ OnceInv /\ AnswerInv
    BY DEF ServiceInv
<1>1. PICK r \in Reqs : r = d[1] /\ Ask(d) = sent[r] /\ Ask(d) \in Contents
    BY <1>0, DeliveryTypes
<1>2. PICK t \in Nat : t = now
    BY <1>0, RowsAssumption, SMT DEF TypeInv
<1>3. inv[d].pc = "idle" /\ UNCHANGED <<now, tables, sent>> /\ Accepted(r) /\ now' = now /\ sent' = sent
    BY <1>1 DEF Begin
<1>4. idem[r] \in Keys \cup {None} /\ (idem[r] # None => idem[r].reply \in Replies \cup {None})
    BY <1>0, KeyFields DEF TypeInv
<1>5. \A e \in Deliveries : e[1] \in Reqs /\ inv[e] \in Invocations
    BY <1>0, DeliveryTypes
<1>6. CASE idem[r] # None /\ idem' = idem
  <2>1. PICK reply \in Replies :
          /\ reply = Fail("REQUEST_IN_PROGRESS") \/ reply = idem[r].reply
          /\ inv' = [inv EXCEPT ![d] = [Idle EXCEPT !.pc = "done", !.at = t, !.reply = reply]]
    <3> DEFINE reply == resolveExisting(idem[r])
    <3>0. "REQUEST_IN_PROGRESS" \in ReplyCodes
        BY DEF ReplyCodes
    <3>1. reply \in Replies /\ (reply = Fail("REQUEST_IN_PROGRESS") \/ reply = idem[r].reply)
        BY <1>4, <1>6, <3>0, FailReply DEF resolveExisting
    <3>2. inv' = [inv EXCEPT ![d] = [Idle EXCEPT !.pc = "done", !.at = t, !.reply = reply]]
        BY <1>1, <1>2, <1>6, Zenon DEF Begin
    <3> HIDE DEF reply
    <3> QED  BY <3>1, <3>2
  <2>2. PICK new \in Invocations :
          /\ inv' = [inv EXCEPT ![d] = new] /\ new.pc = "done" /\ new.at = t /\ new.reply = reply
          /\ ~new.ran
    <3>1. PICK v \in Invocations : v = Idle /\ v.reply = None /\ ~v.ran
        BY IdleFields
    <3> DEFINE new == [v EXCEPT !.pc = "done", !.at = t, !.reply = reply]
    <3>2. /\ new \in Invocations /\ new.pc = "done" /\ new.at = t /\ new.reply = reply
          /\ ~new.ran
      <4>1. /\ reply \in Replies \cup {None}
            /\ "done" \in {"idle", "first", "second", "third", "write", "recover", "finish", "done"}
          OBVIOUS
      <4>2. new \in Invocations
          BY <4>1, Zenon DEF Invocations
      <4>3. new.pc = "done" /\ new.at = t /\ new.reply = reply /\ ~new.ran
          BY <3>1, SMT DEF Invocations
      <4> QED  BY <4>2, <4>3
    <3>3. inv' = [inv EXCEPT ![d] = new]
        BY <2>1, <3>1
    <3> HIDE DEF new
    <3> QED  BY <3>2, <3>3
  <2>3. Fail("REQUEST_IN_PROGRESS").code = "REQUEST_IN_PROGRESS" /\ Fail("REQUEST_IN_PROGRESS").device = 0
      BY SMT DEF Fail
  <2>4. reply # None
      BY ReplyFields
  <2>5. Kept(Ask(d), reply)
      BY <1>0, <1>1, <1>6, <2>1, <2>3, <2>4, PlainAnswer DEF ReplyInv
  <2>6. Local(new, Ask(d))
      BY <1>2, <2>2, <2>4 DEF Local, Redeeming, Claiming, Administering
  <2>7. TypeInv' /\ RowInv' /\ UniqueInv' /\ LocalInv' /\ ReplyInv'
    <3>1. idem' \in [Reqs -> Keys \cup {None}]
        BY <1>0, <1>6 DEF TypeInv
    <3>2. \A q \in Reqs : idem'[q] # None /\ idem'[q].reply # None => Kept(sent[q], idem'[q].reply)
        BY <1>0, <1>6 DEF ReplyInv
    <3> QED  BY <1>3, <2>2, <2>5, <2>6, <3>1, <3>2, DeliveryStep
  <2>8. \A e \in Deliveries : inv'[e] = IF e = d THEN new ELSE inv[e]
      BY <1>0, <2>2 DEF TypeInv
  <2>9. OnceInv'
    <3>1. \A e \in Deliveries : inv'[e].ran => inv[e].ran /\ inv'[e].at = inv[e].at
        BY <2>2, <2>8
    <3>2. \A q \in Reqs : <<q, 1>> \in Deliveries /\ <<q, 2>> \in Deliveries
        BY DEF Deliveries
    <3>3. ExecutedOnce'
        BY <1>0, <1>3, <3>1, <3>2 DEF OnceInv, ExecutedOnce, Signed
    <3>4. ASSUME NEW e \in Deliveries, inv'[e].ran
          PROVE  /\ KeyKept(e[1], inv[e])'
                 /\ Signed(e[1])' => inv'[e].at - sent'[e[1]].stamp \in -FreshWindow .. FreshWindow
        BY <1>0, <1>3, <1>6, <3>1, <3>4 DEF OnceInv, KeyKept, Signed
    <3> QED  BY <3>3, <3>4 DEF OnceInv
  <2>10. AnswerInv'
    <3>1. ASSUME NEW q \in Reqs, NEW answer, Answered(q, answer) PROVE Answered(q, answer)'
      <4>1. PICK n \in {1, 2} : AnsweredBy(inv[<<q, n>>], answer)
          BY <3>1 DEF Answered
      <4>2. <<q, n>> \in Deliveries /\ <<q, n>> # d
          BY <1>3, <4>1 DEF Deliveries, AnsweredBy
      <4> QED  BY <2>8, <4>1, <4>2 DEF Answered, AnsweredBy
    <3>2. ASSUME NEW q \in Reqs, idem'[q] # None, idem'[q].reply # None
          PROVE  Answered(q, idem[q].reply)'
      <4>1. PICK answer : answer = idem[q].reply /\ answer = idem'[q].reply
          BY <1>6
      <4>2. Answered(q, answer)
          BY <1>0, <1>6, <3>2, <4>1 DEF AnswerInv
      <4> QED  BY <3>1, <4>1, <4>2
    <3>3. ASSUME NEW e \in Deliveries, inv'[e].pc = "done", inv'[e].reply.code # "REQUEST_IN_PROGRESS"
          PROVE  Answered(e[1], inv[e].reply)'
      <4>1. PICK q \in Reqs : q = e[1]
          BY <1>5
      <4>2. PICK answer : answer = inv'[e].reply
          OBVIOUS
      <4>3. Answered(q, answer)
        <5>1. CASE e = d
            BY <1>0, <1>1, <1>6, <2>1, <2>2, <2>3, <2>4, <2>8, <3>3, <4>1, <4>2, <5>1
              DEF AnswerInv
        <5>2. CASE e # d
            BY <1>0, <2>8, <3>3, <4>1, <4>2, <5>2 DEF AnswerInv
        <5> QED  BY <5>1, <5>2
      <4> QED  BY <3>1, <4>1, <4>2, <4>3
    <3> QED  BY <3>2, <3>3 DEF AnswerInv
  <2> QED  BY <2>7, <2>9, <2>10 DEF ServiceInv
<1>7. CASE idem[r] = None /\ idem' = [idem EXCEPT ![r] = [expires |-> now + KeyLife, reply |-> None]]
           /\ inv' = [inv EXCEPT ![d] = [Idle EXCEPT !.pc = "first", !.at = now, !.ran = TRUE]]
  <2>1. PICK key \in Keys :
          /\ idem' = [idem EXCEPT ![r] = key] /\ key.expires = t + KeyLife /\ key.reply = None
    <3>1. PICK until \in Nat : until = t + KeyLife
        BY RetentionAssumption
    <3> DEFINE key == [expires |-> until, reply |-> None]
    <3>2. key \in Keys
      <4>1. None \in Replies \cup {None}
          OBVIOUS
      <4> QED  BY <4>1, Zenon DEF Keys
    <3>3. key.expires = until /\ key.reply = None
        BY SMT
    <3>4. idem' = [idem EXCEPT ![r] = key]
        BY <1>2, <1>7, <3>1
    <3> QED  BY <3>1, <3>2, <3>3, <3>4
  <2>2. PICK new \in Invocations :
          /\ inv' = [inv EXCEPT ![d] = new] /\ new.pc = "first" /\ new.at = t /\ new.reply = None
          /\ new.ran
    <3>1. PICK v \in Invocations : v = Idle /\ v.reply = None /\ ~v.ran
        BY IdleFields
    <3> DEFINE new == [v EXCEPT !.pc = "first", !.at = t, !.ran = TRUE]
    <3>2. /\ new \in Invocations /\ new.pc = "first" /\ new.at = t /\ new.reply = None
          /\ new.ran
        BY <3>1, RunFields
    <3>3. inv' = [inv EXCEPT ![d] = new]
        BY <1>2, <1>7, <3>1
    <3> HIDE DEF new
    <3> QED  BY <3>2, <3>3
  <2>3. Local(new, Ask(d))
      BY <1>2, <2>2 DEF Local, Redeeming, Claiming, Administering
  <2>4. /\ idem' \in [Reqs -> Keys \cup {None}]
        /\ \A q \in Reqs : idem'[q] = IF q = r THEN key ELSE idem[q]
      BY <1>0, <2>1 DEF TypeInv
  <2>5. TypeInv' /\ RowInv' /\ UniqueInv' /\ LocalInv' /\ ReplyInv'
    <3>1. \A q \in Reqs : idem'[q] # None /\ idem'[q].reply # None => Kept(sent[q], idem'[q].reply)
        BY <1>0, <2>1, <2>4 DEF ReplyInv
    <3> QED  BY <1>3, <2>2, <2>3, <2>4, <3>1, DeliveryStep
  <2>6. \A e \in Deliveries : inv'[e] = IF e = d THEN new ELSE inv[e]
      BY <1>0, <2>2 DEF TypeInv
  <2>7. OnceInv'
    <3>1. ASSUME NEW e \in Deliveries, inv[e].ran, e[1] = r
          PROVE  now > inv[e].at + KeyLife /\ ~Signed(r)
      <4>1. now > inv[e].at + KeyLife
          BY <1>0, <1>7, <3>1 DEF OnceInv, KeyKept
      <4>2. inv[e].at \in Nat /\ sent[r].stamp \in Int
          BY <1>1, <1>5, InvocationFields, ContentsFields
      <4>3. Signed(r) => inv[e].at - sent[r].stamp \in -FreshWindow .. FreshWindow
          BY <1>0, <3>1 DEF OnceInv
      <4>4. Signed(r) => now - sent[r].stamp \in -FreshWindow .. FreshWindow
          BY <1>3 DEF Accepted, Fresh
      <4> QED  BY <1>2, <4>1, <4>2, <4>3, <4>4, Retained
    <3>2. \A q \in Reqs : <<q, 1>> \in Deliveries /\ <<q, 2>> \in Deliveries
                          /\ <<q, 1>>[1] = q /\ <<q, 2>>[1] = q /\ <<q, 1>> # <<q, 2>>
        BY DEF Deliveries
    <3>3. ExecutedOnce'
      <4> SUFFICES ASSUME NEW q \in Reqs, Signed(q)', inv'[<<q, 1>>].ran, inv'[<<q, 2>>].ran
                   PROVE  FALSE
          BY DEF ExecutedOnce
      <4>1. Signed(q)
          BY <1>3 DEF Signed
      <4>2. CASE inv[<<q, 1>>].ran /\ inv[<<q, 2>>].ran
          BY <1>0, <4>1, <4>2 DEF OnceInv, ExecutedOnce
      <4>3. CASE ~(inv[<<q, 1>>].ran /\ inv[<<q, 2>>].ran)
        <5>1. q = r /\ \E n \in {1, 2} : inv[<<q, n>>].ran /\ <<q, n>> \in Deliveries /\ <<q, n>>[1] = r
            BY <1>1, <2>6, <3>2, <4>3
        <5> QED  BY <3>1, <4>1, <5>1
      <4> QED  BY <4>2, <4>3
    <3>4. ASSUME NEW e \in Deliveries, inv'[e].ran
          PROVE  /\ KeyKept(e[1], inv[e])'
                 /\ Signed(e[1])' => inv'[e].at - sent'[e[1]].stamp \in -FreshWindow .. FreshWindow
      <4>1. CASE e = d
        <5>1. inv'[e] = new /\ e[1] = r
            BY <1>1, <2>6, <4>1
        <5>2. KeyKept(e[1], inv[e])'
          <6>1. idem'[r] = key /\ key # None /\ key.expires >= new.at + KeyLife
              BY <2>1, <2>2, <2>4, KeyFields, RetentionAssumption
          <6> QED  BY <5>1, <6>1 DEF KeyKept
        <5>3. Signed(r)' => new.at - sent'[r].stamp \in -FreshWindow .. FreshWindow
            BY <1>2, <1>3, <2>2 DEF Signed, Accepted, Fresh
        <5> QED  BY <5>1, <5>2, <5>3
      <4>2. CASE e # d
        <5>1. inv'[e] = inv[e] /\ inv[e].ran
            BY <2>6, <3>4, <4>2
        <5>2. /\ KeyKept(e[1], inv[e])
              /\ Signed(e[1]) => inv[e].at - sent[e[1]].stamp \in -FreshWindow .. FreshWindow
            BY <1>0, <5>1 DEF OnceInv
        <5>3. KeyKept(e[1], inv[e])'
          <6>1. CASE e[1] = r
              BY <1>3, <3>1, <5>1, <6>1 DEF KeyKept
          <6>2. CASE e[1] # r
              BY <1>3, <1>5, <2>4, <5>1, <5>2, <6>2 DEF KeyKept
          <6> QED  BY <6>1, <6>2
        <5> QED  BY <1>3, <5>1, <5>2, <5>3 DEF Signed
      <4> QED  BY <4>1, <4>2
    <3> QED  BY <3>3, <3>4 DEF OnceInv
  <2>8. AnswerInv'
    <3>1. ASSUME NEW q \in Reqs, NEW answer, Answered(q, answer) PROVE Answered(q, answer)'
      <4>1. PICK n \in {1, 2} : AnsweredBy(inv[<<q, n>>], answer)
          BY <3>1 DEF Answered
      <4>2. <<q, n>> \in Deliveries /\ <<q, n>> # d
          BY <1>3, <4>1 DEF Deliveries, AnsweredBy
      <4> QED  BY <2>6, <4>1, <4>2 DEF Answered, AnsweredBy
    <3>2. ASSUME NEW q \in Reqs, idem'[q] # None, idem'[q].reply # None
          PROVE  Answered(q, idem[q].reply)'
      <4>1. idem'[q] = idem[q]
          BY <2>1, <2>4, <3>2
      <4>2. PICK answer : answer = idem[q].reply /\ answer = idem'[q].reply
          BY <4>1
      <4>3. Answered(q, answer)
          BY <1>0, <3>2, <4>1, <4>2 DEF AnswerInv
      <4> QED  BY <3>1, <4>2, <4>3
    <3>3. ASSUME NEW e \in Deliveries, inv'[e].pc = "done", inv'[e].reply.code # "REQUEST_IN_PROGRESS"
          PROVE  Answered(e[1], inv[e].reply)'
      <4>1. PICK q \in Reqs : q = e[1]
          BY <1>5
      <4>2. PICK answer : answer = inv'[e].reply
          OBVIOUS
      <4>3. Answered(q, answer)
          BY <1>0, <2>2, <2>6, <3>3, <4>1, <4>2 DEF AnswerInv
      <4> QED  BY <3>1, <4>1, <4>2, <4>3
    <3> QED  BY <3>2, <3>3 DEF AnswerInv
  <2> QED  BY <2>5, <2>7, <2>8 DEF ServiceInv
<1> QED  BY <1>1, <1>6, <1>7, Zenon DEF Begin

LEMMA CompleteStep ==
    ASSUME ServiceInv, NEW d \in Deliveries, Complete(d)
    PROVE  ServiceInv'
<1>0. TypeInv /\ LocalInv /\ ReplyInv /\ OnceInv /\ AnswerInv
    BY DEF ServiceInv
<1>1. PICK r \in Reqs : r = d[1] /\ Ask(d) = sent[r]
    BY <1>0, DeliveryTypes
<1>2. PICK v \in Invocations : v = inv[d]
    BY <1>0, DeliveryTypes
<1>3. v.pc = "finish" /\ UNCHANGED <<now, tables, sent>> /\ now' = now /\ sent' = sent
    BY <1>2 DEF Complete
<1>4. v.ran /\ v.reply # None /\ v.reply \in Replies /\ Kept(Ask(d), v.reply) /\ v.at =< now
    BY <1>0, <1>2, <1>3, InvocationFields DEF LocalInv, Local, ReplyInv
<1>5. PICK reply \in Replies : reply = v.reply
    BY <1>4
<1> DEFINE new == [v EXCEPT !.pc = "done"]
<1>6. /\ new \in Invocations /\ new.pc = "done" /\ new.at = v.at /\ new.ran = v.ran /\ new.reply = v.reply
  <2>1. "done" \in {"idle", "first", "second", "third", "write", "recover", "finish", "done"}
      OBVIOUS
  <2>2. new \in Invocations
      BY <2>1, Zenon DEF Invocations
  <2>3. new.pc = "done" /\ new.at = v.at /\ new.ran = v.ran /\ new.reply = v.reply
      BY SMT DEF Invocations
  <2> QED  BY <2>2, <2>3
<1>7. inv' = [inv EXCEPT ![d] = new]
    BY <1>2 DEF Complete
<1> HIDE DEF new
<1>8. /\ idem' \in [Reqs -> Keys \cup {None}]
      /\ \A q \in Reqs :
           /\ idem'[q] = None <=> idem[q] = None
           /\ idem[q] # None =>
                /\ idem'[q].expires = idem[q].expires
                /\ idem'[q].reply = idem[q].reply \/ (q = r /\ idem'[q].reply = reply)
  <2>1. CASE idem[r] # None /\ idem[r].reply = None
    <3>1. PICK old \in Keys : old = idem[r]
        BY <1>0, <2>1 DEF TypeInv
    <3> DEFINE key == [old EXCEPT !.reply = reply]
    <3>2. key \in Keys
      <4>1. reply \in Replies \cup {None}
          OBVIOUS
      <4> QED  BY <4>1, Zenon DEF Keys
    <3>3. key.expires = old.expires /\ key.reply = reply
        BY SMT DEF Keys
    <3>4. idem' = [idem EXCEPT ![r] = key]
        BY <1>1, <1>2, <1>5, <2>1, <3>1 DEF Complete
    <3> HIDE DEF key
    <3>5. key # None
        BY <3>2, KeyFields
    <3> QED  BY <1>0, <2>1, <3>1, <3>2, <3>3, <3>4, <3>5 DEF TypeInv
  <2>2. CASE ~(idem[r] # None /\ idem[r].reply = None)
    <3>1. idem' = idem
        BY <1>1, <2>2 DEF Complete
    <3> QED  BY <1>0, <3>1 DEF TypeInv
  <2> QED  BY <2>1, <2>2
<1>9. Local(new, Ask(d))
    BY <1>4, <1>6 DEF Local, Redeeming, Claiming, Administering
<1>10. TypeInv' /\ RowInv' /\ UniqueInv' /\ LocalInv' /\ ReplyInv'
  <2>1. \A q \in Reqs : idem'[q] # None /\ idem'[q].reply # None => Kept(sent[q], idem'[q].reply)
      BY <1>0, <1>1, <1>4, <1>5, <1>8 DEF ReplyInv
  <2> QED  BY <1>3, <1>4, <1>6, <1>7, <1>8, <1>9, <2>1, DeliveryStep
<1>11. \A e \in Deliveries : inv'[e] = IF e = d THEN new ELSE inv[e]
    BY <1>0, <1>7 DEF TypeInv
<1>12. \A e \in Deliveries : e[1] \in Reqs /\ inv'[e].ran = inv[e].ran /\ inv'[e].at = inv[e].at
    BY <1>0, <1>2, <1>6, <1>11, DeliveryTypes
<1>13. OnceInv'
  <2>1. \A q \in Reqs : <<q, 1>> \in Deliveries /\ <<q, 2>> \in Deliveries
      BY DEF Deliveries
  <2>2. ExecutedOnce'
      BY <1>0, <1>3, <1>12, <2>1 DEF OnceInv, ExecutedOnce, Signed
  <2>3. ASSUME NEW e \in Deliveries, inv'[e].ran
        PROVE  /\ KeyKept(e[1], inv[e])'
               /\ Signed(e[1])' => inv'[e].at - sent'[e[1]].stamp \in -FreshWindow .. FreshWindow
      BY <1>0, <1>3, <1>8, <1>12, <2>3 DEF OnceInv, KeyKept, Signed
  <2> QED  BY <2>2, <2>3 DEF OnceInv
<1>14. AnswerInv'
  <2>1. ASSUME NEW q \in Reqs, NEW answer, Answered(q, answer) PROVE Answered(q, answer)'
    <3>1. PICK n \in {1, 2} : AnsweredBy(inv[<<q, n>>], answer)
        BY <2>1 DEF Answered
    <3>2. <<q, n>> \in Deliveries
        BY DEF Deliveries
    <3>3. AnsweredBy(inv[<<q, n>>], answer)'
        BY <1>2, <1>6, <1>11, <3>1, <3>2 DEF AnsweredBy
    <3> QED  BY <3>3 DEF Answered
  <2>2. Answered(r, reply)'
    <3>1. PICK n \in {1, 2} : d = <<r, n>>
        BY <1>1 DEF Deliveries
    <3>2. AnsweredBy(inv[<<r, n>>], reply)'
        BY <1>4, <1>5, <1>6, <1>11, <3>1 DEF AnsweredBy
    <3> QED  BY <3>2 DEF Answered
  <2>3. ASSUME NEW q \in Reqs, idem'[q] # None, idem'[q].reply # None
        PROVE  Answered(q, idem[q].reply)'
    <3>1. PICK answer : answer = idem'[q].reply
        OBVIOUS
    <3>2. CASE answer = idem[q].reply
      <4>1. Answered(q, answer)
          BY <1>0, <1>8, <2>3, <3>1, <3>2 DEF AnswerInv
      <4> QED  BY <2>1, <3>1, <4>1
    <3>3. CASE q = r /\ answer = reply
        BY <2>2, <3>1, <3>3
    <3> QED  BY <1>8, <2>3, <3>1, <3>2, <3>3
  <2>4. ASSUME NEW e \in Deliveries, inv'[e].pc = "done", inv'[e].reply.code # "REQUEST_IN_PROGRESS"
        PROVE  Answered(e[1], inv[e].reply)'
    <3>1. CASE e = d
        BY <1>1, <1>5, <1>6, <1>11, <2>2, <3>1
    <3>2. CASE e # d
      <4>1. PICK q \in Reqs : q = e[1]
          BY <1>12
      <4>2. PICK answer : answer = inv[e].reply /\ answer = inv'[e].reply
          BY <1>11, <3>2
      <4>3. Answered(q, answer)
          BY <1>0, <1>11, <2>4, <3>2, <4>1, <4>2 DEF AnswerInv
      <4> QED  BY <2>1, <4>1, <4>2, <4>3
    <3> QED  BY <3>1, <3>2
  <2> QED  BY <2>3, <2>4 DEF AnswerInv
<1> QED  BY <1>10, <1>13, <1>14 DEF ServiceInv

----------------------------------------------------------------------------
(* The steps of the service itself *)

\* A step that moves no invocation and at most drops keys.
LEMMA QuietStep ==
    ASSUME ServiceInv, TypeInv', RowInv', UniqueInv', Grow, inv' = inv,
           \A r \in Reqs : idem'[r] = idem[r] \/ idem'[r] = None,
           \A d \in Deliveries : inv[d].ran => KeyKept(d[1], inv[d])'
    PROVE  ServiceInv'
<1>0. TypeInv /\ LocalInv /\ ReplyInv /\ OnceInv /\ AnswerInv
    BY DEF ServiceInv
<1>1. /\ sent' = sent
      /\ \A e \in Deliveries :
           Ask(e)' = Ask(e) /\ Ask(e) \in Contents /\ e[1] \in Reqs /\ inv[e] \in Invocations
    BY <1>0, DeliveryTypes DEF Grow, Ask
<1>2. LocalInv'
  <2> SUFFICES ASSUME NEW e \in Deliveries PROVE Local(inv[e], Ask(e))'
      BY DEF LocalInv
  <2>1. PICK v \in Invocations, ask \in Contents : v = inv[e] /\ ask = Ask(e)
      BY <1>1
  <2>2. Local(v, ask)
      BY <1>0, <2>1 DEF LocalInv
  <2>3. Local(v, ask)'
      BY <1>0, <2>2, GrowLocal
  <2>4. v = inv'[e] /\ ask = Ask(e)'
      BY <1>1, <2>1
  <2> QED  BY <2>3, <2>4
<1>3. ReplyInv'
  <2>1. ASSUME NEW e \in Deliveries, inv'[e].reply # None PROVE Kept(Ask(e), inv[e].reply)'
    <3>1. PICK reply \in Replies : reply = inv[e].reply /\ reply = inv'[e].reply
        BY <1>1, <2>1, InvocationFields
    <3>2. PICK ask \in Contents : ask = Ask(e) /\ ask = Ask(e)'
        BY <1>1
    <3>3. Kept(ask, reply)
        BY <1>0, <2>1, <3>1, <3>2 DEF ReplyInv
    <3>4. Kept(ask, reply)'
        BY <1>0, <3>3, GrowKept
    <3> QED  BY <3>1, <3>2, <3>4
  <2>2. ASSUME NEW r \in Reqs, idem'[r] # None, idem'[r].reply # None
        PROVE  Kept(sent[r], idem[r].reply)'
    <3>1. idem'[r] = idem[r] /\ idem[r] \in Keys
        BY <1>0, <2>2 DEF TypeInv
    <3>2. PICK reply \in Replies : reply = idem[r].reply /\ reply = idem'[r].reply
        BY <2>2, <3>1, KeyFields
    <3>3. PICK ask \in Contents : ask = sent[r] /\ ask = sent'[r]
        BY <1>0, <1>1 DEF TypeInv
    <3>4. Kept(ask, reply)
        BY <1>0, <2>2, <3>1, <3>2, <3>3 DEF ReplyInv
    <3>5. Kept(ask, reply)'
        BY <1>0, <3>4, GrowKept
    <3> QED  BY <3>2, <3>3, <3>5
  <2> QED  BY <2>1, <2>2 DEF ReplyInv
<1>4. OnceInv'
  <2>1. ExecutedOnce'
      BY <1>0, <1>1 DEF OnceInv, ExecutedOnce, Signed
  <2>2. ASSUME NEW e \in Deliveries, inv'[e].ran
        PROVE  /\ KeyKept(e[1], inv[e])'
               /\ Signed(e[1])' => inv'[e].at - sent'[e[1]].stamp \in -FreshWindow .. FreshWindow
      BY <1>0, <1>1, <2>2 DEF OnceInv, Signed
  <2> QED  BY <2>1, <2>2 DEF OnceInv
<1>5. AnswerInv'
    BY <1>0 DEF AnswerInv, Answered
<1> QED  BY <1>2, <1>3, <1>4, <1>5 DEF ServiceInv

LEMMA CleanupStep ==
    ASSUME ServiceInv, CleanupExpiredState
    PROVE  ServiceInv'
<1>0. TypeInv /\ RowInv /\ UniqueInv /\ OnceInv
    BY DEF ServiceInv
<1>1. /\ idem' = [r \in Reqs |-> IF idem[r] # None /\ idem[r].expires < now THEN None ELSE idem[r]]
      /\ transfers' = [t \in Transfers |->
           IF /\ transfers[t] # None /\ transfers[t].status = "PENDING"
              /\ transfers[t].expires < now
           THEN [transfers[t] EXCEPT !.status = "EXPIRED"] ELSE transfers[t]]
      /\ now' = now /\ licenses' = licenses /\ devices' = devices /\ codes' = codes
      /\ claims' = claims /\ audit' = audit /\ sent' = sent /\ inv' = inv
    BY Zenon DEF CleanupExpiredState
<1>2. /\ transfers' \in [Transfers -> TransferRows \cup {None}]
      /\ \A x \in Transfers :
           /\ transfers[x] = None <=> transfers'[x] = None
           /\ transfers[x] # None =>
                /\ transfers'[x].license = transfers[x].license
                /\ transfers'[x].device = transfers[x].device
                /\ transfers'[x].status = transfers[x].status \/ transfers'[x].status = "EXPIRED"
  <2>1. ASSUME NEW x \in Transfers
        PROVE  /\ transfers'[x] \in TransferRows \cup {None}
               /\ transfers[x] = None <=> transfers'[x] = None
               /\ transfers[x] # None =>
                    /\ transfers'[x].license = transfers[x].license
                    /\ transfers'[x].device = transfers[x].device
                    /\ transfers'[x].status = transfers[x].status \/ transfers'[x].status = "EXPIRED"
    <3>1. \/ transfers'[x] = transfers[x]
          \/ transfers[x] # None /\ transfers'[x] = [transfers[x] EXCEPT !.status = "EXPIRED"]
        BY <1>1, Zenon
    <3>2. CASE transfers[x] # None
      <4>1. PICK old \in TransferRows : old = transfers[x]
          BY <1>0, <3>2 DEF TypeInv
      <4>2. [old EXCEPT !.status = "EXPIRED"] \in TransferRows
        <5>1. "EXPIRED" \in {"PENDING", "APPROVED", "CLAIMED", "REJECTED", "EXPIRED"}
            OBVIOUS
        <5> QED  BY <5>1, Zenon DEF TransferRows
      <4>3. /\ [old EXCEPT !.status = "EXPIRED"].license = old.license
            /\ [old EXCEPT !.status = "EXPIRED"].device = old.device
            /\ [old EXCEPT !.status = "EXPIRED"].status = "EXPIRED"
          BY SMT DEF TransferRows
      <4> QED  BY <3>1, <3>2, <4>1, <4>2, <4>3, TransferFields
    <3>3. CASE transfers[x] = None
        BY <3>1, <3>3
    <3> QED  BY <3>2, <3>3
  <2>2. transfers' = [x \in Transfers |-> transfers'[x]]
      BY <1>1, Zenon
  <2>3. transfers' \in [Transfers -> TransferRows \cup {None}]
      BY <2>1, <2>2
  <2> QED  BY <2>1, <2>3
<1>3. /\ idem' \in [Reqs -> Keys \cup {None}]
      /\ \A r \in Reqs :
           \/ idem'[r] = idem[r]
           \/ idem'[r] = None /\ idem[r] # None /\ idem[r].expires < now
    BY <1>0, <1>1 DEF TypeInv
<1>4. TypeInv'
    BY <1>0, <1>1, <1>2, <1>3 DEF TypeInv
<1>5. RowInv'
    BY <1>0, <1>1, <1>2, SMT DEF RowInv
<1>6. UniqueInv'
    BY <1>0, <1>1, Zenon DEF UniqueInv
<1>7. now \in Nat
    BY <1>0, RowsAssumption, SMT DEF TypeInv
<1>8. Grow
    BY <1>1, <1>2, <1>7, SMT DEF Grow
<1>9. ASSUME NEW d \in Deliveries, inv[d].ran PROVE KeyKept(d[1], inv[d])'
  <2>1. d[1] \in Reqs /\ inv[d].at \in Nat /\ KeyKept(d[1], inv[d])
      BY <1>0, <1>9, DeliveryTypes, InvocationFields DEF OnceInv
  <2>2. idem[d[1]] # None => idem[d[1]].expires \in Nat
      BY <1>0, <2>1, KeyFields DEF TypeInv
  <2> QED  BY <1>1, <1>3, <1>7, <2>1, <2>2, RetentionAssumption DEF KeyKept
<1> QED  BY <1>1, <1>3, <1>4, <1>5, <1>6, <1>8, <1>9, QuietStep

LEMMA TickStep ==
    ASSUME ServiceInv, Tick
    PROVE  ServiceInv'
<1>0. TypeInv /\ RowInv /\ UniqueInv /\ OnceInv
    BY DEF ServiceInv
<1>1. /\ now < MaxTime /\ now' = now + 1 /\ idem' = idem /\ sent' = sent /\ inv' = inv
      /\ licenses' = licenses /\ devices' = devices /\ codes' = codes
      /\ transfers' = transfers /\ claims' = claims /\ audit' = audit
    BY DEF Tick, tables
<1>2. now \in Nat /\ now' \in 0 .. MaxTime /\ now =< now'
    BY <1>0, <1>1, RowsAssumption, SMT DEF TypeInv
<1>3. TypeInv'
    BY <1>0, <1>1, <1>2 DEF TypeInv
<1>4. RowInv' /\ UniqueInv'
    BY <1>0, <1>1, Zenon DEF RowInv, UniqueInv
<1>5. Grow
    BY <1>1, <1>2, SMT DEF Grow
<1>6. ASSUME NEW d \in Deliveries, inv[d].ran PROVE KeyKept(d[1], inv[d])'
  <2>1. d[1] \in Reqs /\ inv[d].at \in Nat /\ KeyKept(d[1], inv[d])
      BY <1>0, <1>6, DeliveryTypes, InvocationFields DEF OnceInv
  <2> QED  BY <1>1, <1>2, <2>1, RetentionAssumption DEF KeyKept
<1> QED  BY <1>1, <1>3, <1>4, <1>5, <1>6, QuietStep

LEMMA InitService == Init => ServiceInv
<1> SUFFICES ASSUME Init PROVE ServiceInv
    OBVIOUS
<1> DEFINE fresh == [kind |-> "SUBSCRIPTION", status |-> "ACTIVE", expires |-> 0,
                     gone |-> None, sourced |-> TRUE]
<1>1. fresh \in LicenseRows /\ fresh.gone = None
  <2>1. /\ "SUBSCRIPTION" \in {"TRIAL", "SUBSCRIPTION", "PERPETUAL"}
        /\ "ACTIVE" \in {"ACTIVE", "SUSPENDED"} /\ 0 \in Nat
        /\ None \in Nat \cup {None} /\ TRUE \in BOOLEAN
      OBVIOUS
  <2>2. fresh \in LicenseRows
      BY <2>1, Zenon DEF LicenseRows
  <2> QED  BY <2>2, SMT
<1>2. licenses = [l \in Licenses |->
                    IF \E c \in DOMAIN Stock : Stock[c].license = l THEN fresh ELSE None]
    BY Zenon DEF Init
<1> HIDE DEF fresh
<1>3. fresh # None
    BY <1>1, LicenseFields
<1>4. /\ now = 0 /\ devices = <<>> /\ claims = {}
      /\ codes = [c \in Codes |-> IF c \in DOMAIN Stock THEN Stock[c] ELSE None]
      /\ transfers = [t \in Transfers |-> None] /\ idem = [r \in Reqs |-> None]
      /\ sent \in Plans /\ inv = [d \in Deliveries |-> Idle]
    BY Zenon DEF Init
<1>5. /\ DOMAIN Stock \subseteq Codes /\ MaxTime \in Nat
      /\ \A c \in DOMAIN Stock : Stock[c] \in CodeRows /\ ~Stock[c].used
      /\ \A plan \in Plans : plan \in [Reqs -> Contents]
    BY RowsAssumption
<1>6. DOMAIN devices = {} /\ devices \in Seq(DeviceRows)
    BY <1>4
<1>7. licenses \in [Licenses -> LicenseRows \cup {None}]
    BY <1>1, <1>2
<1>8. codes \in [Codes -> CodeRows \cup {None}]
    BY <1>4, <1>5
<1>9. TypeInv
  <2>1. now \in 0 .. MaxTime
      BY <1>4, <1>5, SMT
  <2>2. /\ transfers \in [Transfers -> TransferRows \cup {None}]
        /\ idem \in [Reqs -> Keys \cup {None}]
      BY <1>4
  <2>3. inv \in [Deliveries -> Invocations]
      BY <1>4, IdleFields
  <2> QED  BY <1>4, <1>5, <1>6, <1>7, <1>8, <2>1, <2>2, <2>3 DEF TypeInv
<1>10. RowInv
  <2>1. ASSUME NEW c \in Codes, codes[c] # None
        PROVE  licenses[codes[c].license] # None /\ ~codes[c].used
    <3>1. c \in DOMAIN Stock /\ codes[c] = Stock[c] /\ Stock[c] \in CodeRows /\ ~Stock[c].used
        BY <1>4, <1>5, <2>1
    <3>2. PICK l \in Licenses : l = Stock[c].license
        BY <3>1, CodeFields
    <3>3. licenses[l] = fresh
        BY <1>2, <3>1, <3>2
    <3> QED  BY <1>3, <3>1, <3>2, <3>3
  <2>2. \A l \in Licenses : licenses[l] = fresh \/ licenses[l] = None
      BY <1>2
  <2>3. \A t \in Transfers : transfers[t] = None
      BY <1>4
  <2> QED  BY <1>1, <1>6, <2>1, <2>2, <2>3 DEF RowInv
<1>11. UniqueInv
    BY <1>4, <1>6 DEF UniqueInv
<1>12. \A d \in Deliveries :
         inv[d].pc = "idle" /\ inv[d].at = 0 /\ ~inv[d].ran /\ inv[d].reply = None
    BY <1>4, IdleFields
<1>13. LocalInv
    BY <1>4, <1>12 DEF LocalInv, Local, Redeeming, Claiming, Administering
<1>14. \A r \in Reqs : idem[r] = None /\ <<r, 1>> \in Deliveries
    BY <1>4 DEF Deliveries
<1>15. ReplyInv /\ OnceInv /\ AnswerInv
    BY <1>12, <1>14 DEF ReplyInv, OnceInv, ExecutedOnce, AnswerInv
<1> QED  BY <1>9, <1>10, <1>11, <1>13, <1>15 DEF ServiceInv

----------------------------------------------------------------------------
(* The invariant *)

LEMMA HandleStep ==
    ASSUME ServiceInv, NEW d \in Deliveries, Handle(d)
    PROVE  ServiceInv'
<1>1. Working(d)
    BY DEF Handle, Working
<1>2. CASE Trial(d)
    BY <1>1, <1>2, TrialReadStep, TrialWriteStep DEF Trial
<1>3. CASE Check(d)
    BY <1>1, <1>3, CheckStep
<1>4. CASE Redeem(d)
    BY <1>1, <1>4, RedeemReadStep, RedeemWriteStep DEF Redeem
<1>5. CASE RequestTransfer(d)
    BY <1>1, <1>5, RequestTransferStep
<1>6. CASE Claim(d)
    BY <1>1, <1>6, ClaimReadStep, ClaimWriteStep DEF Claim
<1>7. CASE Owner(d)
    BY <1>1, <1>7, OwnerReadStep, CreateLicenseStep, CodeWriteStep, SourcesWriteStep,
       ApproveWriteStep, DeleteWriteStep DEF Owner
<1> QED  BY <1>2, <1>3, <1>4, <1>5, <1>6, <1>7 DEF Handle

LEMMA NextService == ServiceInv /\ [Next]_vars => ServiceInv'
<1> SUFFICES ASSUME ServiceInv, [Next]_vars PROVE ServiceInv'
    OBVIOUS
<1>1. CASE \E d \in Deliveries : Begin(d) \/ Handle(d) \/ Complete(d)
    BY <1>1, BeginStep, HandleStep, CompleteStep
<1>2. CASE CleanupExpiredState
    BY <1>2, CleanupStep
<1>3. CASE Tick
    BY <1>3, TickStep
<1>4. CASE UNCHANGED vars
  <2>0. TypeInv /\ RowInv /\ UniqueInv /\ OnceInv
      BY DEF ServiceInv
  <2>1. /\ now' = now /\ idem' = idem /\ sent' = sent /\ inv' = inv
        /\ licenses' = licenses /\ devices' = devices /\ codes' = codes
        /\ transfers' = transfers /\ claims' = claims /\ audit' = audit
      BY <1>4 DEF vars
  <2>2. TypeInv'
      BY <2>0, <2>1 DEF TypeInv
  <2>3. RowInv' /\ UniqueInv'
      BY <2>0, <2>1, Zenon DEF RowInv, UniqueInv
  <2>4. Grow
    <3>1. now \in Nat
        BY <2>0, RowsAssumption, SMT DEF TypeInv
    <3> QED  BY <2>1, <3>1, SMT DEF Grow
  <2>5. \A d \in Deliveries : inv[d].ran => KeyKept(d[1], inv[d])'
      BY <2>0, <2>1 DEF OnceInv, KeyKept
  <2> QED  BY <2>1, <2>2, <2>3, <2>4, <2>5, QuietStep
<1> QED  BY <1>1, <1>2, <1>3, <1>4 DEF Next

\* The invariant that the theorems below are read off.
THEOREM ServiceInvariant == Spec => []ServiceInv
<1>1. Init => ServiceInv
    BY InitService
<1>2. ServiceInv /\ [Next]_vars => ServiceInv'
    BY NextService
<1> QED  BY <1>1, <1>2, PTL DEF Spec

----------------------------------------------------------------------------
(* The theorems *)

\* Every row of the database and every invocation has its columns, and every
\* reference in a row names a row, through all batches and the cleanup.
THEOREM ServiceTypeCorrect == Spec => []TypeOK
<1>1. ServiceInv => TypeOK
    BY DEF ServiceInv, TypeInv, RowInv, TypeOK
<1> QED  BY <1>1, ServiceInvariant, PTL

\* Whatever invocations race, a licence and a device key are in at most one
\* live binding, a person and a device in at most one trial, and a code is
\* spent on one device, the one that every redeemer is told.
THEOREM BindingsHaveOneWinner == Spec => []SingleWinner
<1>1. ServiceInv => SingleWinner
  <2> SUFFICES ASSUME ServiceInv PROVE SingleWinner
      OBVIOUS
  <2>1. UniqueInv /\ LocalInv /\ ReplyInv
      BY DEF ServiceInv
  <2>2. ASSUME NEW d \in Deliveries, Granted(d), Ask(d).op = "redeem"
        PROVE  codes[Ask(d).code].used /\ inv[d].reply.device = codes[Ask(d).code].by
    <3>1. inv[d].reply # None
        BY <2>1, <2>2 DEF Granted, Settled, LocalInv, Local
    <3>2. Kept(Ask(d), inv[d].reply)
        BY <2>1, <3>1 DEF ReplyInv
    <3> QED  BY <2>2, <3>2 DEF Kept, Granted
  <2> QED  BY <2>1, <2>2, Zenon DEF UniqueInv, SingleWinner
<1> QED  BY <1>1, ServiceInvariant, PTL

\* Of the two deliveries of a device's request at most one runs its handler,
\* although the cleanup removes idempotency keys: the retention of a key is
\* longer than the window in which the request is accepted.
THEOREM RequestsRunOnce == Spec => []ExecutedOnce
<1>1. ServiceInv => ExecutedOnce
    BY DEF ServiceInv, OnceInv
<1> QED  BY <1>1, ServiceInvariant, PTL

\* A retry that is answered is given the answer of the delivery that ran.
THEOREM RetriesAgree == Spec => []SameAnswer
<1>1. ServiceInv => SameAnswer
  <2> SUFFICES ASSUME ServiceInv, NEW d \in Deliveries, inv[d].pc = "done",
                      inv[d].reply.code # "REQUEST_IN_PROGRESS"
               PROVE  \E n \in {1, 2} : /\ inv[<<d[1], n>>].ran
                                        /\ inv[<<d[1], n>>].reply = inv[d].reply
      BY DEF SameAnswer
  <2>1. Answered(d[1], inv[d].reply)
      BY DEF ServiceInv, AnswerInv
  <2> QED  BY <2>1, Zenon DEF Answered, AnsweredBy
<1> QED  BY <1>1, ServiceInvariant, PTL

\* A lease for a device that was unbound, or one that allows search on a
\* deleted licence, ends within LEASE_HOURS of the unbinding or the deletion,
\* although the handlers sign leases from rows they read some awaits before.
THEOREM RevocationEnds == Spec => []RevocationFades
<1>1. ServiceInv => RevocationFades
  <2> SUFFICES ASSUME ServiceInv, NEW d \in Deliveries, Granted(d)
               PROVE  LET reply == inv[d].reply IN
                      /\ ~devices[reply.device].active =>
                           reply.until <= devices[reply.device].off + LeaseLife
                      /\ licenses[reply.license].gone # None /\ reply.search =>
                           reply.until <= licenses[reply.license].gone + LeaseLife
      BY Zenon DEF RevocationFades
  <2>1. inv[d].reply # None
      BY DEF ServiceInv, Granted, Settled, LocalInv, Local
  <2>2. Kept(Ask(d), inv[d].reply)
      BY <2>1 DEF ServiceInv, ReplyInv
  <2> QED  BY <2>2 DEF Kept, Granted
<1> QED  BY <1>1, ServiceInvariant, PTL

----------------------------------------------------------------------------
(* Recovery of a redemption *)

\* A handler moves the invocation of its own delivery.
LEMMA HandleMoves ==
    ASSUME TypeInv, NEW d \in Deliveries, Handle(d), NEW e \in Deliveries, e # d
    PROVE  inv'[e] = inv[e]
<1>1. ASSUME NEW new, inv' = [inv EXCEPT ![d] = new] PROVE inv'[e] = inv[e]
    BY <1>1 DEF TypeInv
<1>2. ASSUME NEW reply, Answer(d, reply) PROVE inv'[e] = inv[e]
    BY <1>2 DEF Answer, TypeInv
<1>3. ASSUME NEW pc, GoTo(d, pc) PROVE inv'[e] = inv[e]
    BY <1>3 DEF GoTo, TypeInv
<1>4. CASE Trial(d)
    BY <1>2, <1>3, <1>4, Zenon DEF Trial, TrialRecover, TrialUnused, TrialWrite, TrialRaced
<1>5. CASE Check(d)
    BY <1>1, <1>2, <1>5, Zenon DEF Check, CheckLicenseRow, CheckDevice
<1>6. CASE Redeem(d)
    BY <1>1, <1>2, <1>3, <1>6, Zenon
      DEF Redeem, RedeemCode, RedeemDevice, RedeemWrite, RedeemRaced
<1>7. CASE RequestTransfer(d)
    BY <1>2, <1>7, Zenon DEF RequestTransfer
<1>8. CASE Claim(d)
    BY <1>1, <1>2, <1>8, Zenon DEF Claim, ClaimTransferRow, ClaimLicense, ClaimDevice, ClaimWrite
<1>9. CASE Owner(d)
  <2>1. CASE CreateLicense(d) \/ CodeLicense(d) \/ CodeDevice(d) \/ CodeWrite(d)
      BY <1>1, <1>2, <1>3, <2>1, Zenon DEF CreateLicense, CodeLicense, CodeDevice, CodeWrite
  <2>2. CASE SourcesLicense(d) \/ SourcesWrite(d) \/ DeleteLicense(d) \/ DeleteWrite(d)
      BY <1>2, <1>3, <2>2, Zenon DEF SourcesLicense, SourcesWrite, DeleteLicense, DeleteWrite
  <2>3. CASE ApproveLicense(d) \/ ApproveTransferRow(d) \/ ApproveDevice(d) \/ ApproveWrite(d)
      BY <1>1, <1>2, <1>3, <2>3, Zenon
      DEF ApproveLicense, ApproveTransferRow, ApproveDevice, ApproveWrite
  <2> QED  BY <1>9, <2>1, <2>2, <2>3 DEF Owner
<1> QED  BY <1>4, <1>5, <1>6, <1>7, <1>8, <1>9 DEF Handle

\* What a handler of a redemption answers when it says that the code is not
\* available.
LEMMA RefusedRedemption ==
    ASSUME ServiceInv, NEW d \in Deliveries, Handle(d), Ask(d).op = "redeem",
           inv'[d].pc = "finish", inv'[d].reply.code = "CODE_NOT_AVAILABLE",
           codes[Ask(d).code] # None, codes[Ask(d).code].used
    PROVE  \/ ~assertDeviceMatches(codes[Ask(d).code].by, Ask(d).key)
           \/ licenses[codes[Ask(d).code].license].status # "ACTIVE"
<1>0. TypeInv /\ RowInv
    BY DEF ServiceInv
<1>1. Redeem(d) /\ Working(d)
    BY DEF Handle, Working, Trial, TrialRecover, TrialUnused, TrialWrite, TrialRaced,
           Check, CheckLicenseRow, CheckDevice, RequestTransfer,
           Claim, ClaimTransferRow, ClaimLicense, ClaimDevice, ClaimWrite,
           Owner, CreateLicense, CodeLicense, CodeDevice, CodeWrite, SourcesLicense, SourcesWrite,
           ApproveLicense, ApproveTransferRow, ApproveDevice, ApproveWrite, DeleteLicense,
           DeleteWrite, At
<1>2. PICK c \in Codes, v \in Invocations : c = Ask(d).code /\ v = inv[d]
    BY <1>1, WorkingFacts, ContentsFields
<1> DEFINE row == codes[c]
           l == row.license
<1>3. l \in Licenses /\ licenses[l] # None
    BY <1>0, <1>2, CodeFields DEF TypeInv, RowInv
<1>4. licenses[l].status = "ACTIVE" => licenses[l].gone = None
    BY <1>0, <1>3 DEF RowInv
<1>5. ASSUME NEW reply, Answer(d, reply) PROVE reply.code = "CODE_NOT_AVAILABLE"
  <2>1. inv'[d] = [v EXCEPT !.pc = "finish", !.reply = reply]
      BY <1>0, <1>2, <1>5 DEF Answer, TypeInv
  <2>2. [v EXCEPT !.pc = "finish", !.reply = reply].reply = reply
      BY SMT DEF Invocations
  <2> QED  BY <2>1, <2>2
<1>6. ASSUME Answer(d, recoveredRedemption(c, Ask(d).key, v.at))
      PROVE  ~assertDeviceMatches(row.by, Ask(d).key) \/ licenses[l].status # "ACTIVE"
  <2> SUFFICES ASSUME assertDeviceMatches(row.by, Ask(d).key), licenses[l].status = "ACTIVE"
               PROVE  FALSE
      OBVIOUS
  <2>1. recoveredRedemption(c, Ask(d).key, v.at) = createLease(l, row.by, licenses[l], licenses[l].sourced, v.at)
      BY <1>2, <1>4 DEF recoveredRedemption
  <2>2. createLease(l, row.by, licenses[l], licenses[l].sourced, v.at).code = "OK"
      BY SMT DEF createLease
  <2> QED  BY <1>5, <1>6, <2>1, <2>2
<1>7. ASSUME NEW pc \in {"second", "write", "recover"}, inv'[d].pc = pc PROVE FALSE
    BY <1>7
<1>8. CASE RedeemCode(d)
  <2>1. Answer(d, recoveredRedemption(c, Ask(d).key, v.at))
      BY <1>2, <1>8, Zenon DEF RedeemCode
  <2> QED  BY <1>2, <1>6, <2>1
<1>9. CASE RedeemDevice(d)
  <2> DEFINE i == ActiveDevice(v.code.license)
             sourced == licenses[v.code.license].sourced
             new == [v EXCEPT !.pc = "write", !.dev = i, !.sourced = sourced]
  <2>1. Answer(d, Fail("LICENSE_NOT_AVAILABLE")) \/ inv' = [inv EXCEPT ![d] = new]
      BY <1>2, <1>9, Zenon DEF RedeemDevice
  <2>2. CASE Answer(d, Fail("LICENSE_NOT_AVAILABLE"))
    <3>1. PICK reply : reply = Fail("LICENSE_NOT_AVAILABLE")
        OBVIOUS
    <3>2. reply.code = "LICENSE_NOT_AVAILABLE"
        BY <3>1, SMT DEF Fail
    <3>3. Answer(d, reply)
        BY <2>2, <3>1
    <3> QED  BY <1>5, <3>2, <3>3
  <2>3. CASE inv' = [inv EXCEPT ![d] = new]
    <3> HIDE DEF i, sourced
    <3>1. new.pc = "write"
        BY SMT DEF Invocations
    <3>2. inv'[d] = new
        BY <1>0, <2>3 DEF TypeInv
    <3> QED  BY <1>7, <3>1, <3>2
  <2> QED  BY <2>1, <2>2, <2>3
<1>10. CASE RedeemWrite(d)
  <2>1. <<"redeem", c>> \in audit
      BY <1>0, <1>2 DEF RowInv
  <2>2. GoTo(d, "recover")
      BY <1>2, <1>10, <2>1, Zenon DEF RedeemWrite
  <2>3. inv'[d] = [v EXCEPT !.pc = "recover"]
      BY <1>0, <1>2, <2>2 DEF GoTo, TypeInv
  <2>4. [v EXCEPT !.pc = "recover"].pc = "recover"
      BY SMT DEF Invocations
  <2> QED  BY <1>7, <2>3, <2>4
<1>11. CASE RedeemRaced(d)
  <2>1. Answer(d, recoveredRedemption(c, Ask(d).key, v.at))
      BY <1>2, <1>11, Zenon DEF RedeemRaced
  <2> QED  BY <1>2, <1>6, <2>1
<1> QED  BY <1>1, <1>8, <1>9, <1>10, <1>11 DEF Redeem

\* A device whose code is already spent on it, and is still bound on an active
\* licence, is never told that the code cannot be used.
THEOREM RedemptionRecovers == Spec => RedeemRecovers
<1> DEFINE Refused(d) ==
             /\ inv[d].pc \notin {"idle", "finish"}
             /\ inv'[d].pc = "finish"
             /\ Ask(d).op = "redeem"
             /\ inv'[d].reply.code = "CODE_NOT_AVAILABLE"
             /\ codes[Ask(d).code] # None
             /\ codes[Ask(d).code].used
           Justified(d) ==
             \/ ~assertDeviceMatches(codes[Ask(d).code].by, Ask(d).key)
             \/ licenses[codes[Ask(d).code].license].status # "ACTIVE"
<1>1. ServiceInv /\ [Next]_vars => [\A d \in Deliveries : Refused(d) => Justified(d)]_vars
  <2> SUFFICES ASSUME ServiceInv, Next, NEW d \in Deliveries, Refused(d) PROVE Justified(d)
      OBVIOUS
  <2>0. TypeInv
      BY DEF ServiceInv
  <2>1. ASSUME NEW e \in Deliveries, Begin(e) PROVE FALSE
    <3>1. e # d /\ inv'[e].pc # "finish"
      <4>1. inv[e].pc = "idle"
          BY <2>1 DEF Begin
      <4> QED  BY <4>1, <2>0, <2>1 DEF Begin, Idle, TypeInv
    <3>2. inv'[d] = inv[d]
        BY <2>0, <2>1, <3>1 DEF Begin, TypeInv
    <3> QED  BY <3>2
  <2>2. ASSUME NEW e \in Deliveries, Complete(e) PROVE FALSE
    <3>1. e # d
        BY <2>2 DEF Complete
    <3>2. inv'[d] = inv[d]
        BY <2>0, <2>2, <3>1 DEF Complete, TypeInv
    <3> QED  BY <3>2
  <2>3. ASSUME NEW e \in Deliveries, Handle(e) PROVE Justified(d)
    <3>1. CASE e = d
        BY <2>3, <3>1, RefusedRedemption
    <3>2. CASE e # d
      <4>1. inv'[d] = inv[d]
          BY <2>0, <2>3, <3>2, HandleMoves
      <4> QED  BY <4>1
    <3> QED  BY <3>1, <3>2
  <2>4. inv' # inv
      OBVIOUS
  <2> QED  BY <2>1, <2>2, <2>3, <2>4 DEF Next, CleanupExpiredState, Tick
<1>2. [][\A d \in Deliveries : Refused(d) => Justified(d)]_vars => RedeemRecovers
    BY DEF RedeemRecovers
<1> QED  BY <1>1, <1>2, ServiceInvariant, PTL DEF Spec
=============================================================================
