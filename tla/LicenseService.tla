--------------------------- MODULE LicenseService ---------------------------
(***************************************************************************)
(* The Cloudflare licence service, license-service/src.  Every request     *)
(* runs in a Worker invocation of its own, and invocations interleave at   *)
(* each await on the D1 database: a handler reads rows in one to three     *)
(* steps, decides on what it read, and writes in one atomic batch, in      *)
(* which only the unique indexes and the WHERE clauses see what other      *)
(* invocations have done in the meantime.                                  *)
(*                                                                         *)
(* A request carries an identifier that is also its idempotency key.  The  *)
(* desktop client sends the same bytes a second time when the first        *)
(* attempt fails in transport, so a request has up to two deliveries, and  *)
(* the two may run side by side.  A request is delivered at any time, or   *)
(* never: one that enforceRateLimit turns away leaves no more behind than  *)
(* one that is lost.  An invocation may stop for good at any await.        *)
(*                                                                         *)
(* Keys stand for device key pairs: the fingerprint is a digest of the     *)
(* public key that verifyDeviceProof recomputes.  A licence grants one     *)
(* parser source or none (sourced).                                        *)
(***************************************************************************)
EXTENDS Integers, Sequences, FiniteSetsExt

CONSTANTS
    Reqs,          \* request identifiers
    Plans,         \* what the requests say: functions from Reqs to contents
    Licenses,      \* identifiers for licences
    Codes,         \* identifiers for activation and recovery codes
    Transfers,     \* identifiers for device transfers
    Stock,         \* the codes the owner issued before the first request
    None,
    FreshWindow,   \* how far requested_at may be from the server's clock
    KeyLife,       \* how long an idempotency key is kept
    LeaseLife,     \* LEASE_HOURS
    TrialLife,     \* TRIAL_DAYS
    TransferLife,  \* how long a transfer request stays open
    CodeLife,      \* how long a code stays open
    MaxTime        \* bound: the last tick of the server's clock

--------------------------------------------------------------------------
\* Rows, requests and answers.

LicenseRows ==
    [kind : {"TRIAL", "SUBSCRIPTION", "PERPETUAL"}, status : {"ACTIVE", "SUSPENDED"},
     expires : Nat, gone : Nat \cup {None}, sourced : BOOLEAN]

DeviceRows == [license : Licenses, key : STRING, active : BOOLEAN, off : Nat]

CodeKinds == {"MONTHS", "PERPETUAL", "CURRENT"}

CodeRows ==
    [license : Licenses, kind : CodeKinds, months : Nat, bound : Nat, expires : Nat,
     used : BOOLEAN, by : Nat]

TransferRows ==
    [status : {"PENDING", "APPROVED", "CLAIMED", "REJECTED", "EXPIRED"}, key : STRING,
     license : Licenses \cup {None}, device : Nat, expires : Nat]

ClaimRows == [license : Licenses, subject : STRING, key : STRING]

Contents ==
    [op : {"trial", "check", "redeem", "transfer", "claim", "license", "code",
           "sources", "approve", "delete"},
     key : STRING, subject : STRING, license : Licenses, device : Nat,
     code : Codes, transfer : Transfers, kind : CodeKinds,
     months : Nat, sourced : BOOLEAN, stamp : Int, retried : BOOLEAN]

ReplyCodes ==
    {"OK", "REQUEST_IN_PROGRESS", "TRIAL_UNAVAILABLE", "CODE_NOT_AVAILABLE",
     "LICENSE_NOT_AVAILABLE", "LICENSE_DELETED", "LICENSE_NOT_FOUND", "LICENSE_NOT_ACTIVE",
     "LICENSE_NOT_BOUND", "TRANSFER_NOT_AVAILABLE", "TRANSFER_EXPIRED", "TRANSFER_PENDING",
     "INTERNAL_ERROR"}

Replies ==
    [code : ReplyCodes, license : Licenses \cup Codes \cup Transfers \cup {None},
     device : Nat, search : BOOLEAN, until : Nat]

Keys == [expires : Nat, reply : Replies \cup {None}]

Deliveries == Reqs \X {1, 2}

\* An invocation keeps the server time it started at, the rows it has read
\* and, once it has decided, its answer.  ran: it inserted the idempotency
\* key and so runs the handler.
Invocations ==
    [pc : {"idle", "first", "second", "third", "write", "recover", "finish", "done"},
     at : Nat, ran : BOOLEAN, code : CodeRows \cup TransferRows \cup {None},
     lic : LicenseRows \cup {None}, dev : Nat, sourced : BOOLEAN,
     reply : Replies \cup {None}]

\* The retention of an idempotency key covers both ends of the window in
\* which the request it belongs to is accepted (24 hours against 5 minutes).
ASSUME RetentionAssumption ==
    /\ FreshWindow \in Nat
    /\ KeyLife \in Nat
    /\ KeyLife >= 2 * FreshWindow

\* The other lives are numbers, requests and issued codes are well formed, and
\* the null is none of the rows.
ASSUME RowsAssumption ==
    /\ LeaseLife \in Nat /\ TrialLife \in Nat /\ TransferLife \in Nat /\ CodeLife \in Nat
    /\ MaxTime \in Nat
    /\ \A plan \in Plans : plan \in [Reqs -> Contents]
    /\ DOMAIN Stock \subseteq Codes
    /\ \A c \in DOMAIN Stock : Stock[c] \in CodeRows /\ ~Stock[c].used
    /\ None \notin LicenseRows \cup CodeRows \cup TransferRows \cup Replies \cup Keys
    /\ None \notin Nat

VARIABLES
    now,        \* the server's clock
    licenses,   \* licenses and license_sources
    devices,    \* devices, in the order of their creation
    codes,      \* activation_codes and license_recovery_codes
    transfers,  \* device_transfers
    claims,     \* trial_claims
    audit,      \* dedupe keys of audit_events
    idem,       \* idempotency_keys and request_nonces
    sent,       \* what each request says
    inv         \* the invocation serving each delivery of each request

vars == <<now, licenses, devices, codes, transfers, claims, audit, idem,
          sent, inv>>

tables == <<licenses, devices, codes, transfers, claims, audit>>

\* An invocation that has not begun.
Idle == [pc |-> "idle", at |-> 0, ran |-> FALSE, code |-> None, lic |-> None,
         dev |-> 0, sourced |-> FALSE, reply |-> None]

Fail(code) == [code |-> code, license |-> None, device |-> 0,
               search |-> FALSE, until |-> 0]

Done(id) == [code |-> "OK", license |-> id, device |-> 0,
             search |-> FALSE, until |-> 0]

--------------------------------------------------------------------------
\* Row helpers.

IsActive(i) == i \in DOMAIN devices /\ devices[i].active

\* findActiveDevice: the index devices_one_active_per_license leaves one.
ActiveDevice(l) ==
    IF \E i \in DOMAIN devices : devices[i].license = l /\ devices[i].active
    THEN CHOOSE i \in DOMAIN devices : devices[i].license = l /\ devices[i].active
    ELSE 0

\* devices_one_active_per_public_key, for a row other than the one a batch
\* has just deactivated.
KeyInUse(k, besides) ==
    \E i \in DOMAIN devices \ {besides} : devices[i].key = k /\ devices[i].active

\* Mutant: no unique index on the licence of active devices.
LicenseBound_Unchecked(l, besides) == FALSE

\* devices_one_active_per_license, likewise.
LicenseBound(l, besides) ==
    \E i \in DOMAIN devices \ {besides} : devices[i].license = l /\ devices[i].active

assertDeviceMatches(i, k) == IsActive(i) /\ devices[i].key = k

canSearch(lic, t) ==
    lic.status = "ACTIVE" /\ (lic.kind = "PERPETUAL" \/ lic.expires > t)

\* Mutant: the lease runs from the moment it is signed.
createLease_FromNow(l, i, lic, sourced, t) ==
    [code |-> "OK", license |-> l, device |-> i,
     search |-> canSearch(lic, t) /\ sourced, until |-> now + LeaseLife]

\* createLease: the licence row as the handler knows it, the sources as they
\* are when the lease is made, and the time at which the invocation started.
createLease(l, i, lic, sourced, t) ==
    [code |-> "OK", license |-> l, device |-> i,
     search |-> canSearch(lic, t) /\ sourced, until |-> t + LeaseLife]

NewDevice(l, k) == [license |-> l, key |-> k, active |-> TRUE, off |-> 0]

\* The batch's UPDATE devices SET is_active = 0.  The model notes the instant
\* of the write, where the column deactivated_at has the start of the request.
Deactivate(i) == [devices EXCEPT ![i] = [@ EXCEPT !.active = FALSE, !.off = now]]

\* Mutant: the kind of the code becomes the kind of the licence.
Renewed_CodeKind(lic, code, t) ==
    [lic EXCEPT !.kind = code.kind, !.expires = Max({lic.expires, t}) + code.months]

\* How a code changes the term: months are added to what is left, a
\* perpetual licence stays perpetual.
Renewed(lic, code, t) ==
    IF code.kind = "PERPETUAL" \/ lic.kind = "PERPETUAL"
    THEN [lic EXCEPT !.kind = "PERPETUAL", !.expires = 0]
    ELSE [lic EXCEPT !.kind = "SUBSCRIPTION",
                     !.expires = (IF lic.expires > t THEN lic.expires ELSE t)
                                 + code.months]

--------------------------------------------------------------------------
Init ==
    /\ now = 0
    /\ codes = [c \in Codes |-> IF c \in DOMAIN Stock THEN Stock[c] ELSE None]
    /\ licenses = [l \in Licenses |->
                     IF \E c \in DOMAIN Stock : Stock[c].license = l
                     THEN [kind |-> "SUBSCRIPTION", status |-> "ACTIVE",
                           expires |-> 0, gone |-> None, sourced |-> TRUE]
                     ELSE None]
    /\ devices = <<>>
    /\ transfers = [t \in Transfers |-> None]
    /\ claims = {}
    /\ audit = {}
    /\ idem = [r \in Reqs |-> None]
    /\ sent \in Plans
    /\ inv = [d \in Deliveries |-> Idle]

\* Mutant: a request in progress is refused for good.
resolveExisting_Refuses(key) ==
    IF key.reply = None THEN Fail("CODE_NOT_AVAILABLE") ELSE key.reply

\* resolveExisting: the same request either finds the stored answer or is
\* told that the first invocation is still at work.
resolveExisting(key) ==
    IF key.reply = None THEN Fail("REQUEST_IN_PROGRESS") ELSE key.reply

\* The requests of devices; the owner's carry no time of their own.
Signed(r) == sent[r].op \in {"trial", "check", "redeem", "transfer", "claim"}

\* Mutant: requested_at is not looked at.
Fresh_Any(r) == TRUE

\* assertFreshRequest: the sender's clock may be ahead or behind.
Fresh(r) == now - sent[r].stamp \in -FreshWindow..FreshWindow

\* The checks of runPublicRoute that precede the key; runAdminRoute and
\* runOwnerMutation do not look at a time.
Accepted(r) == Signed(r) => Fresh(r)

\* beginIdempotentRequest: the insertion of the key decides between deliveries
\* of one request.  The reads before it and after a refused insertion are part of
\* the step, as they lead to resolveExisting on the row that is there.  Left out:
\* the cleanup removes the row between the last two, and the delivery is turned
\* away (REPLAY_DETECTED) without running.
Begin(d) ==
    LET r == d[1] IN
    /\ inv[d].pc = "idle"
    /\ d[2] = 2 => sent[r].retried /\ inv[<<r, 1>>].pc # "idle"
    /\ Accepted(r)
    /\ \/ /\ idem[r] # None
          /\ inv' = [inv EXCEPT ![d] = [Idle EXCEPT !.pc = "done", !.at = now,
                                          !.reply = resolveExisting(idem[r])]]
          /\ UNCHANGED idem
       \/ /\ idem[r] = None
          /\ idem' = [idem EXCEPT ![r] = [expires |-> now + KeyLife, reply |-> None]]
          /\ inv' = [inv EXCEPT ![d] = [Idle EXCEPT !.pc = "first", !.at = now,
                                                    !.ran = TRUE]]
    /\ UNCHANGED <<now, tables, sent>>

\* completeIdempotentRequest: the answer, an error too, is stored if the key
\* is still there and still open, and then leaves.
Complete(d) ==
    LET r == d[1] IN
    /\ inv[d].pc = "finish"
    /\ idem' = IF idem[r] # None /\ idem[r].reply = None
               THEN [idem EXCEPT ![r].reply = inv[d].reply] ELSE idem
    /\ inv' = [inv EXCEPT ![d].pc = "done"]
    /\ UNCHANGED <<now, tables, sent>>

--------------------------------------------------------------------------
\* The steps of a handler.  At(d, op, pc) names the step, the other operators
\* how it ends: with an answer, with a row read and the next step, or with
\* the batch written.

Ask(d) == sent[d[1]]

At(d, op, pc) == inv[d].pc = pc /\ Ask(d).op = op

Answer(d, reply) ==
    inv' = [inv EXCEPT ![d] = [@ EXCEPT !.pc = "finish", !.reply = reply]]

GoTo(d, pc) == inv' = [inv EXCEPT ![d].pc = pc]

Unused(S, f) == {x \in S : f[x] = None}

ReadsOnly == UNCHANGED <<now, tables, idem, sent>>

WritesTables == UNCHANGED <<now, idem, sent>>

\* exactTrialBinding and recoveredTrialResponse: the device's own live trial.
TrialBinding(k, subject) ==
    {i \in DOMAIN devices :
        /\ devices[i].active /\ devices[i].key = k
        /\ licenses[devices[i].license].kind = "TRIAL"
        /\ \E c \in claims : /\ c.license = devices[i].license
                             /\ c.subject = subject /\ c.key = k}

recoveredTrialResponse(k, subject, t) ==
    LET own == {i \in TrialBinding(k, subject) :
                  canSearch(licenses[devices[i].license], t)}
    IN  IF own = {} THEN None
        ELSE LET i == CHOOSE i \in own : TRUE
                 l == devices[i].license
             IN  createLease(l, i, licenses[l], licenses[l].sourced, t)

\* activateTrial, the first look: a retry gets its trial again.
TrialRecover(d) ==
    LET found == recoveredTrialResponse(Ask(d).key, Ask(d).subject, inv[d].at) IN
    /\ At(d, "trial", "first")
    /\ IF found # None THEN Answer(d, found) ELSE GoTo(d, "second")
    /\ ReadsOnly

\* activateTrial, the second look: trialIdentityAlreadyUsed.
TrialUnused(d) ==
    LET ask == Ask(d) IN
    /\ At(d, "trial", "second")
    /\ IF \/ \E c \in claims : c.subject = ask.subject \/ c.key = ask.key
          \/ \E i \in DOMAIN devices : devices[i].key = ask.key
       THEN Answer(d, Fail("TRIAL_UNAVAILABLE"))
       ELSE GoTo(d, "write")
    /\ ReadsOnly

\* activateTrial, the batch: the unique columns of trial_claims and the index
\* on active keys may reject it, and then the trial is looked up again.
TrialWrite(d) ==
    LET ask == Ask(d)
        l == CHOOSE l \in Unused(Licenses, licenses) : TRUE
        row == [kind |-> "TRIAL", status |-> "ACTIVE", gone |-> None,
                expires |-> inv[d].at + TrialLife, sourced |-> TRUE]
    IN
    /\ At(d, "trial", "write")
    /\ Unused(Licenses, licenses) # {}
    /\ IF \/ \E c \in claims : c.subject = ask.subject \/ c.key = ask.key
          \/ KeyInUse(ask.key, 0)
       THEN GoTo(d, "recover") /\ UNCHANGED tables
       ELSE /\ licenses' = [licenses EXCEPT ![l] = row]
            /\ devices' = Append(devices, NewDevice(l, ask.key))
            /\ claims' = claims \cup
                 {[license |-> l, subject |-> ask.subject, key |-> ask.key]}
            /\ audit' = audit \cup {<<"trial", l>>}
            /\ Answer(d, createLease(l, Len(devices) + 1, row, TRUE, inv[d].at))
            /\ UNCHANGED <<codes, transfers>>
    /\ WritesTables

\* activateTrial after a constraint error.
TrialRaced(d) ==
    LET found == recoveredTrialResponse(Ask(d).key, Ask(d).subject, inv[d].at) IN
    /\ At(d, "trial", "recover")
    /\ Answer(d, IF found # None THEN found ELSE Fail("TRIAL_UNAVAILABLE"))
    /\ ReadsOnly

\* checkLicense: the licence row, then the device row.  The batch that closes
\* it only stamps last_seen_at and license_checks, which nothing reads.
CheckLicenseRow(d) ==
    LET row == licenses[Ask(d).license] IN
    /\ At(d, "check", "first")
    /\ IF row = None THEN Answer(d, Fail("LICENSE_NOT_AVAILABLE"))
       ELSE IF row.gone # None THEN Answer(d, Fail("LICENSE_DELETED"))
       ELSE inv' = [inv EXCEPT ![d] = [@ EXCEPT !.pc = "second", !.lic = row]]
    /\ ReadsOnly

CheckDevice(d) ==
    LET ask == Ask(d) IN
    /\ At(d, "check", "second")
    /\ IF /\ assertDeviceMatches(ask.device, ask.key)
          /\ devices[ask.device].license = ask.license
       THEN Answer(d, createLease(ask.license, ask.device, inv[d].lic,
                                  licenses[ask.license].sourced, inv[d].at))
       ELSE Answer(d, Fail("LICENSE_NOT_AVAILABLE"))
    /\ ReadsOnly

\* recoveredRedemptionResponse: a code that this device has redeemed before.
recoveredRedemption(c, k, t) ==
    LET row == codes[c]
        lic == licenses[row.license]
    IN  IF /\ row.used /\ lic.gone = None /\ lic.status = "ACTIVE"
           /\ assertDeviceMatches(row.by, k)
        THEN createLease(row.license, row.by, lic, lic.sourced, t)
        ELSE Fail("CODE_NOT_AVAILABLE")

\* redeemActivationCode: the code joined with its licence.
RedeemCode(d) ==
    LET c == Ask(d).code
        row == codes[c]
    IN
    /\ At(d, "redeem", "first")
    /\ IF row = None THEN Answer(d, Fail("CODE_NOT_AVAILABLE"))
       ELSE IF row.used
       THEN Answer(d, recoveredRedemption(c, Ask(d).key, inv[d].at))
       ELSE LET lic == licenses[row.license] IN
            IF lic.gone # None \/ lic.status # "ACTIVE" \/ row.expires <= inv[d].at
            THEN Answer(d, Fail("CODE_NOT_AVAILABLE"))
            ELSE inv' = [inv EXCEPT ![d] = [@ EXCEPT !.pc = "second",
                                              !.code = row, !.lic = lic]]
    /\ ReadsOnly

\* redeemActivationCode: the device the licence is bound to.  A CURRENT code
\* restores the device it was made for; any other code needs a licence that
\* is unbound or bound to the asking device.
RedeemDevice(d) ==
    LET row == inv[d].code
        i == ActiveDevice(row.license)
        mine == i # 0 /\ devices[i].key = Ask(d).key
    IN
    /\ At(d, "redeem", "second")
    /\ IF IF row.kind = "CURRENT" THEN i = row.bound /\ mine ELSE i = 0 \/ mine
       THEN inv' = [inv EXCEPT ![d] = [@ EXCEPT !.pc = "write", !.dev = i,
                                         !.sourced = licenses[row.license].sourced]]
       ELSE Answer(d, Fail("LICENSE_NOT_AVAILABLE"))
    /\ ReadsOnly

\* redeemActivationCode: the batch.  The term is the one computed from the
\* row read before; the indexes on devices, the renewal of a code and the
\* audit key reject a batch that comes second.
RedeemWrite(d) ==
    LET c == Ask(d).code
        row == inv[d].code
        l == row.license
        new == inv[d].dev = 0
        i == IF new THEN Len(devices) + 1 ELSE inv[d].dev
        lic == IF row.kind = "CURRENT" THEN inv[d].lic
               ELSE Renewed(inv[d].lic, row, inv[d].at)
    IN
    /\ At(d, "redeem", "write")
    /\ IF \/ <<"redeem", c>> \in audit
          \/ new /\ (LicenseBound(l, 0) \/ KeyInUse(Ask(d).key, 0))
       THEN GoTo(d, "recover") /\ UNCHANGED tables
       ELSE /\ devices' = IF new THEN Append(devices, NewDevice(l, Ask(d).key))
                          ELSE devices
            /\ codes' = [codes EXCEPT ![c] = [@ EXCEPT !.used = TRUE, !.by = i]]
            /\ licenses' = IF row.kind # "CURRENT" /\ licenses[l].status = "ACTIVE"
                           THEN [licenses EXCEPT ![l] = [@ EXCEPT
                                   !.kind = lic.kind, !.expires = lic.expires]]
                           ELSE licenses
            /\ audit' = audit \cup {<<"redeem", c>>}
            /\ Answer(d, createLease(l, i, lic, inv[d].sourced, inv[d].at))
            /\ UNCHANGED <<transfers, claims>>
    /\ WritesTables

\* Mutant: a constraint error is the end of the request.
RedeemRaced_Fails(d) ==
    /\ At(d, "redeem", "recover")
    /\ Answer(d, Fail("CODE_NOT_AVAILABLE"))
    /\ ReadsOnly

\* redeemActivationCode after a constraint error.
RedeemRaced(d) ==
    /\ At(d, "redeem", "recover")
    /\ Answer(d, recoveredRedemption(Ask(d).code, Ask(d).key, inv[d].at))
    /\ ReadsOnly

\* requestTransfer: one insertion.
RequestTransfer(d) ==
    LET t == CHOOSE t \in Unused(Transfers, transfers) : TRUE IN
    /\ At(d, "transfer", "first")
    /\ Unused(Transfers, transfers) # {}
    /\ transfers' = [transfers EXCEPT ![t] =
         [status |-> "PENDING", key |-> Ask(d).key, license |-> None,
          device |-> 0, expires |-> inv[d].at + TransferLife]]
    /\ audit' = audit \cup {<<"request", t>>}
    /\ Answer(d, Done(t))
    /\ UNCHANGED <<licenses, devices, codes, claims>>
    /\ WritesTables

\* claimTransfer: the transfer row.  The claim token stands for the device
\* that asked for the transfer.
ClaimTransferRow(d) ==
    LET row == transfers[Ask(d).transfer] IN
    /\ At(d, "claim", "first")
    /\ IF row = None THEN Answer(d, Fail("TRANSFER_NOT_AVAILABLE"))
       ELSE IF row.expires <= inv[d].at THEN Answer(d, Fail("TRANSFER_EXPIRED"))
       ELSE IF row.status = "PENDING" THEN Answer(d, Fail("TRANSFER_PENDING"))
       ELSE IF row.status \notin {"APPROVED", "CLAIMED"} \/ row.key # Ask(d).key
       THEN Answer(d, Fail("TRANSFER_NOT_AVAILABLE"))
       ELSE inv' = [inv EXCEPT ![d] = [@ EXCEPT !.pc = "second", !.code = row]]
    /\ ReadsOnly

\* claimTransfer: the licence row, then the device row it compares.
ClaimLicense(d) ==
    /\ At(d, "claim", "second")
    /\ inv' = [inv EXCEPT ![d] = [@ EXCEPT !.pc = "third",
                                     !.lic = licenses[inv[d].code.license]]]
    /\ ReadsOnly

ClaimDevice(d) ==
    LET row == inv[d].code IN
    /\ At(d, "claim", "third")
    /\ IF ~assertDeviceMatches(row.device, Ask(d).key)
       THEN Answer(d, Fail("LICENSE_NOT_AVAILABLE"))
       ELSE IF row.status = "CLAIMED"
       THEN Answer(d, createLease(row.license, row.device, inv[d].lic,
                                  licenses[row.license].sourced, inv[d].at))
       ELSE inv' = [inv EXCEPT ![d] = [@ EXCEPT !.pc = "write",
                                         !.sourced = licenses[row.license].sourced]]
    /\ ReadsOnly

\* claimTransfer: the batch of a first claim.  A second one fails on the
\* audit key, an error the handler does not catch.
ClaimWrite(d) ==
    LET t == Ask(d).transfer
        row == inv[d].code
    IN
    /\ At(d, "claim", "write")
    /\ IF <<"claim", t>> \in audit
       THEN Answer(d, Fail("INTERNAL_ERROR")) /\ UNCHANGED tables
       ELSE /\ transfers' = IF transfers[t].status = "APPROVED"
                            THEN [transfers EXCEPT ![t].status = "CLAIMED"]
                            ELSE transfers
            /\ audit' = audit \cup {<<"claim", t>>}
            /\ Answer(d, createLease(row.license, row.device, inv[d].lic,
                                     inv[d].sourced, inv[d].at))
            /\ UNCHANGED <<licenses, devices, codes, claims>>
    /\ WritesTables

--------------------------------------------------------------------------
\* The owner's handlers.

\* createAdminLicense: a licence that has not begun, with the default source.
CreateLicense(d) ==
    LET l == CHOOSE l \in Unused(Licenses, licenses) : TRUE IN
    /\ At(d, "license", "first")
    /\ Unused(Licenses, licenses) # {}
    /\ licenses' = [licenses EXCEPT ![l] =
         [kind |-> "SUBSCRIPTION", status |-> "ACTIVE", expires |-> inv[d].at,
          gone |-> None, sourced |-> TRUE]]
    /\ audit' = audit \cup {<<"license", l>>}
    /\ Answer(d, Done(l))
    /\ UNCHANGED <<devices, codes, transfers, claims>>
    /\ WritesTables

\* createAdminActivationCode: the licence row, then, for a CURRENT code, the
\* device it will restore, then the insertion.
CodeLicense(d) ==
    LET row == licenses[Ask(d).license] IN
    /\ At(d, "code", "first")
    /\ IF row = None THEN Answer(d, Fail("LICENSE_NOT_FOUND"))
       ELSE IF row.gone # None \/ row.status # "ACTIVE"
       THEN Answer(d, Fail("LICENSE_NOT_ACTIVE"))
       ELSE GoTo(d, IF Ask(d).kind = "CURRENT" THEN "second" ELSE "write")
    /\ ReadsOnly

CodeDevice(d) ==
    LET i == ActiveDevice(Ask(d).license) IN
    /\ At(d, "code", "second")
    /\ IF i = 0 THEN Answer(d, Fail("LICENSE_NOT_BOUND"))
       ELSE inv' = [inv EXCEPT ![d] = [@ EXCEPT !.pc = "write", !.dev = i]]
    /\ ReadsOnly

CodeWrite(d) ==
    LET c == CHOOSE c \in Unused(Codes, codes) : TRUE
        ask == Ask(d)
    IN
    /\ At(d, "code", "write")
    /\ Unused(Codes, codes) # {}
    /\ codes' = [codes EXCEPT ![c] =
         [license |-> ask.license, kind |-> ask.kind,
          months |-> IF ask.kind = "MONTHS" THEN ask.months ELSE 0,
          bound |-> inv[d].dev, expires |-> inv[d].at + CodeLife,
          used |-> FALSE, by |-> 0]]
    /\ audit' = audit \cup {<<"code", c>>}
    /\ Answer(d, Done(c))
    /\ UNCHANGED <<licenses, devices, transfers, claims>>
    /\ WritesTables

\* setAdminLicenseSources: the licence row, then the replacement of its
\* sources.
SourcesLicense(d) ==
    LET row == licenses[Ask(d).license] IN
    /\ At(d, "sources", "first")
    /\ IF row = None THEN Answer(d, Fail("LICENSE_NOT_FOUND"))
       ELSE IF row.gone # None THEN Answer(d, Fail("LICENSE_DELETED"))
       ELSE GoTo(d, "write")
    /\ ReadsOnly

SourcesWrite(d) ==
    /\ At(d, "sources", "write")
    /\ licenses' = [licenses EXCEPT ![Ask(d).license].sourced = Ask(d).sourced]
    /\ Answer(d, Done(Ask(d).license))
    /\ UNCHANGED <<devices, codes, transfers, claims, audit>>
    /\ WritesTables

\* approveAdminTransfer: the licence, the transfer and the bound device are
\* read one after the other.
ApproveLicense(d) ==
    LET row == licenses[Ask(d).license] IN
    /\ At(d, "approve", "first")
    /\ IF row = None \/ row.gone # None \/ row.status # "ACTIVE"
       THEN Answer(d, Fail("LICENSE_NOT_ACTIVE"))
       ELSE GoTo(d, "second")
    /\ ReadsOnly

ApproveTransferRow(d) ==
    LET row == transfers[Ask(d).transfer] IN
    /\ At(d, "approve", "second")
    /\ IF row = None THEN Answer(d, Fail("TRANSFER_NOT_AVAILABLE"))
       ELSE IF row.expires <= inv[d].at THEN Answer(d, Fail("TRANSFER_EXPIRED"))
       ELSE IF row.status # "PENDING" THEN Answer(d, Fail("TRANSFER_NOT_AVAILABLE"))
       ELSE inv' = [inv EXCEPT ![d] = [@ EXCEPT !.pc = "third", !.code = row]]
    /\ ReadsOnly

ApproveDevice(d) ==
    LET i == ActiveDevice(Ask(d).license) IN
    /\ At(d, "approve", "third")
    /\ IF i = 0 THEN Answer(d, Fail("LICENSE_NOT_BOUND"))
       ELSE inv' = [inv EXCEPT ![d] = [@ EXCEPT !.pc = "write", !.dev = i]]
    /\ ReadsOnly

\* approveAdminTransfer: the batch moves the binding.  The audit key and the
\* indexes on devices reject a second approval.
ApproveWrite(d) ==
    LET l == Ask(d).license
        t == Ask(d).transfer
        old == inv[d].dev
        k == inv[d].code.key
    IN
    /\ At(d, "approve", "write")
    /\ IF <<"approve", t>> \in audit \/ LicenseBound(l, old) \/ KeyInUse(k, old)
       THEN Answer(d, Fail("TRANSFER_NOT_AVAILABLE")) /\ UNCHANGED tables
       ELSE /\ devices' = Append(IF IsActive(old) THEN Deactivate(old) ELSE devices,
                                 NewDevice(l, k))
            /\ transfers' = IF transfers[t].status = "PENDING"
                            THEN [transfers EXCEPT ![t] = [@ EXCEPT
                                    !.status = "APPROVED", !.license = l,
                                    !.device = Len(devices) + 1]]
                            ELSE transfers
            /\ audit' = audit \cup {<<"approve", t>>}
            /\ Answer(d, Done(t))
            /\ UNCHANGED <<licenses, codes, claims>>
    /\ WritesTables

\* deleteAdminLicense: the licence row, then one batch that suspends the
\* licence, unbinds its device, closes its unused codes and rejects its open
\* transfers.  A second deletion that comes to the batch loses on the audit
\* key and reports what the first one did.
DeleteLicense(d) ==
    LET row == licenses[Ask(d).license] IN
    /\ At(d, "delete", "first")
    /\ IF row = None THEN Answer(d, Fail("LICENSE_NOT_FOUND"))
       ELSE IF row.gone # None THEN Answer(d, Done(Ask(d).license))
       ELSE GoTo(d, "write")
    /\ ReadsOnly

DeleteWrite(d) ==
    LET l == Ask(d).license
        t == inv[d].at
    IN
    /\ At(d, "delete", "write")
    /\ IF <<"delete", l>> \in audit
       THEN UNCHANGED tables
       ELSE /\ licenses' = [licenses EXCEPT ![l] = [@ EXCEPT
                              !.status = "SUSPENDED", !.gone = now]]
            /\ devices' = [i \in DOMAIN devices |->
                 IF devices[i].license = l /\ devices[i].active
                 THEN Deactivate(i)[i] ELSE devices[i]]
            /\ codes' = [c \in Codes |->
                 IF /\ codes[c] # None /\ codes[c].license = l
                    /\ ~codes[c].used /\ codes[c].expires > t
                 THEN [codes[c] EXCEPT !.expires = t] ELSE codes[c]]
            /\ transfers' = [x \in Transfers |->
                 IF /\ transfers[x] # None /\ transfers[x].license = l
                    /\ transfers[x].status \in {"PENDING", "APPROVED"}
                 THEN [transfers[x] EXCEPT !.status = "REJECTED"] ELSE transfers[x]]
            /\ audit' = audit \cup {<<"delete", l>>}
            /\ UNCHANGED claims
    /\ Answer(d, Done(l))
    /\ WritesTables

--------------------------------------------------------------------------
\* cleanupExpiredState, run by the scheduled trigger.
CleanupExpiredState ==
    /\ idem' = [r \in Reqs |-> IF idem[r] # None /\ idem[r].expires < now
                               THEN None ELSE idem[r]]
    /\ transfers' = [t \in Transfers |->
         IF /\ transfers[t] # None /\ transfers[t].status = "PENDING"
            /\ transfers[t].expires < now
         THEN [transfers[t] EXCEPT !.status = "EXPIRED"] ELSE transfers[t]]
    /\ UNCHANGED <<now, licenses, devices, codes, claims, audit, sent, inv>>

Tick ==
    /\ now < MaxTime
    /\ now' = now + 1
    /\ UNCHANGED <<tables, idem, sent, inv>>

Trial(d) == TrialRecover(d) \/ TrialUnused(d) \/ TrialWrite(d) \/ TrialRaced(d)

Check(d) == CheckLicenseRow(d) \/ CheckDevice(d)

Redeem(d) == RedeemCode(d) \/ RedeemDevice(d) \/ RedeemWrite(d) \/ RedeemRaced(d)

Claim(d) ==
    ClaimTransferRow(d) \/ ClaimLicense(d) \/ ClaimDevice(d) \/ ClaimWrite(d)

Owner(d) ==
    \/ CreateLicense(d)
    \/ CodeLicense(d) \/ CodeDevice(d) \/ CodeWrite(d)
    \/ SourcesLicense(d) \/ SourcesWrite(d)
    \/ ApproveLicense(d) \/ ApproveTransferRow(d) \/ ApproveDevice(d) \/ ApproveWrite(d)
    \/ DeleteLicense(d) \/ DeleteWrite(d)

Handle(d) ==
    inv[d].pc \notin {"idle", "finish", "done"}
      /\ (Trial(d) \/ Check(d) \/ Redeem(d) \/ RequestTransfer(d) \/ Claim(d) \/ Owner(d))

Next ==
    \/ \E d \in Deliveries : Begin(d) \/ Handle(d) \/ Complete(d)
    \/ CleanupExpiredState
    \/ Tick

Spec == Init /\ [][Next]_vars

--------------------------------------------------------------------------
\* Correctness.

\* TypeOK: every row has its columns, every reference in a row names a row.
TypeOK ==
    /\ now \in 0..MaxTime
    /\ licenses \in [Licenses -> LicenseRows \cup {None}]
    /\ devices \in Seq(DeviceRows)
    /\ codes \in [Codes -> CodeRows \cup {None}]
    /\ transfers \in [Transfers -> TransferRows \cup {None}]
    /\ claims \subseteq ClaimRows
    /\ idem \in [Reqs -> Keys \cup {None}]
    /\ inv \in [Deliveries -> Invocations]
    /\ \A i \in DOMAIN devices : licenses[devices[i].license] # None
    /\ \A c \in Codes : codes[c] # None =>
         /\ licenses[codes[c].license] # None
         /\ codes[c].used => codes[c].by \in DOMAIN devices
    /\ \A t \in Transfers : transfers[t] # None =>
         transfers[t].device \in DOMAIN devices \cup {0}

Settled(d) == inv[d].pc \in {"finish", "done"}

Granted(d) == Settled(d) /\ inv[d].reply.code = "OK" /\ inv[d].reply.device # 0

\* SingleWinner: whatever races, a licence and a device key are in at most one
\* live binding, a person and a device in at most one trial, and everyone who
\* is told that a code is redeemed is told so for the one device it is spent on.
SingleWinner ==
    /\ \A i, j \in DOMAIN devices :
         /\ devices[i].active /\ devices[j].active
         /\ devices[i].license = devices[j].license \/ devices[i].key = devices[j].key
         => i = j
    /\ \A a, b \in claims : a.subject = b.subject \/ a.key = b.key => a = b
    /\ \A d \in Deliveries : Granted(d) /\ Ask(d).op = "redeem"
         => /\ codes[Ask(d).code].used
            /\ inv[d].reply.device = codes[Ask(d).code].by

\* ExecutedOnce: of the deliveries of a device's request one at most runs its
\* handler, also when the cleanup has removed the idempotency key in between:
\* by then the stamp of the request is too old to be accepted.
ExecutedOnce == \A r \in Reqs : Signed(r) => ~(inv[<<r, 1>>].ran /\ inv[<<r, 2>>].ran)

\* SameAnswer: a retry that is answered at all is given the answer of the
\* delivery that ran.
SameAnswer ==
    \A d \in Deliveries :
        /\ inv[d].pc = "done"
        /\ inv[d].reply.code # "REQUEST_IN_PROGRESS"
        => \E n \in {1, 2} : /\ inv[<<d[1], n>>].ran
                              /\ inv[<<d[1], n>>].reply = inv[d].reply

\* RevocationFades: a lease for a device that was unbound, and a lease that
\* allows search on a deleted licence, ends within LEASE_HOURS of the
\* unbinding or deletion, although handlers work on rows they read earlier.
RevocationFades ==
    \A d \in Deliveries : Granted(d) =>
        LET reply == inv[d].reply IN
        /\ ~devices[reply.device].active =>
             reply.until <= devices[reply.device].off + LeaseLife
        /\ licenses[reply.license].gone # None /\ reply.search =>
             reply.until <= licenses[reply.license].gone + LeaseLife

\* RedeemRecovers: a device whose code is already spent on it is never told
\* that the code cannot be used, whether it retries after a lost answer or
\* races itself.
RedeemRecovers ==
    [][\A d \in Deliveries :
         /\ inv[d].pc \notin {"idle", "finish"}
         /\ inv'[d].pc = "finish"
         /\ Ask(d).op = "redeem"
         /\ inv'[d].reply.code = "CODE_NOT_AVAILABLE"
         /\ codes[Ask(d).code] # None
         /\ codes[Ask(d).code].used
         => \/ ~assertDeviceMatches(codes[Ask(d).code].by, Ask(d).key)
            \/ licenses[codes[Ask(d).code].license].status # "ACTIVE"]_vars

=============================================================================
