-------------------------- MODULE MCLicenseService --------------------------
(* Instances of LicenseService for TLC: each plan is a small campaign of    *)
(* requests that can get in each other's way.                              *)
EXTENDS LicenseService, TLC

CONSTANTS l1, l2, c1, c2, c3, t1

MCStock ==
    (c1 :> [license |-> l1, kind |-> "MONTHS", months |-> 1, bound |-> 0,
            expires |-> CodeLife, used |-> FALSE, by |-> 0]) @@
    (c2 :> [license |-> l1, kind |-> "PERPETUAL", months |-> 0, bound |-> 0,
            expires |-> CodeLife, used |-> FALSE, by |-> 0])

Say(op, key) ==
    [op |-> op, key |-> key, subject |-> "ann", license |-> l1, device |-> 1,
     code |-> c1, transfer |-> t1, kind |-> "CURRENT", months |-> 0,
     sourced |-> FALSE, stamp |-> 0, retried |-> FALSE]

Redeems(key, c) == [Say("redeem", key) EXCEPT !.code = c]

Later(ask) == [ask EXCEPT !.stamp = 1]

Retried(ask) == [ask EXCEPT !.retried = TRUE]

\* A request whose stamp the service never accepts.
Never == [Say("check", "own") EXCEPT !.stamp = MaxTime + FreshWindow + 1]

\* In turn: a code spent by two devices and retried, and two codes of one
\* licence at once;
\* a transfer approved twice and claimed with a retry; deletions racing the
\* device's requests and an approval; a trial asked for twice; a CURRENT code;
\* the sources withdrawn.
MCPlans ==
    { <<Retried(Redeems("k1", c1)), Redeems("k1", c1), Redeems("k2", c1), Never>>,
      <<Redeems("k1", c1), Redeems("k1", c2), Redeems("k2", c2), Never>>,
      <<Redeems("k1", c1), Say("transfer", "k2"), Later(Say("approve", "own")),
        Later(Retried(Say("claim", "k2")))>>,
      <<Redeems("k1", c1), Say("transfer", "k2"), Say("approve", "own"),
        Retried(Say("approve", "own"))>>,
      <<Redeems("k1", c1), Say("delete", "own"), Say("delete", "own"),
        Later(Say("check", "k1"))>>,
      <<Redeems("k1", c1), Say("transfer", "k2"), Say("approve", "own"),
        Later(Say("delete", "own"))>>,
      <<Retried(Say("trial", "k1")), Say("trial", "k1"), Redeems("k1", c1), Never>>,
      <<Redeems("k1", c1), Say("code", "own"), Redeems("k1", c3), Never>>,
      <<Redeems("k1", c1), Say("sources", "own"), Say("license", "own"),
        Later(Say("check", "k1"))>> }
=============================================================================
