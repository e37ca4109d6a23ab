---------------------------- MODULE MCStorageKey ----------------------------
(* Small instances of the storage-key service.                               *)
EXTENDS StorageKey, TLC

CONSTANTS d1, d2, r1, r2, r3

Body(code, d, e, n, r, t, old) ==
    [code |-> code, device |-> d, epoch |-> e, nonce |-> n, replay |-> r,
     ticket |-> t, old |-> old, pins |-> 0, proof |-> TRUE]

Attach(e, n, r)  == Body("attach", d1, e, n, r, 0, NoDevice)
Renew(n, r)      == Body("renew", d1, 2, n, r, 0, NoDevice)
Recover(n, r)    == Body("recover", d1, 2, n, r, 1, NoDevice)
Control(code, e) == Body(code, d1, e, 0, r1, 0, NoDevice)
Pinned(b)        == [b EXCEPT !.pins = 1]
Unproven(b)      == [b EXCEPT !.proof = FALSE]

(* A scenario on a provisioned resource in which nothing fails.              *)
Calm(bodies, n, k) ==
    [start |-> "provisioned", owner |-> d1, bodies |-> bodies, reqs |-> n, challenges |-> k,
     drops |-> {}, faults |-> 0, timeouts |-> 0, restarts |-> 0]

Faulty(s, f, t) == [s EXCEPT !.faults = f, !.timeouts = t]
Restarting(s)   == [s EXCEPT !.restarts = 1]
From(start, s)  == [s EXCEPT !.start = start]

(* Everything that can release or renew.                                     *)
ReleaseScenarios ==
    { (* two proofs over one challenge, one anti-replay id over two challenges *)
      Calm({Attach(2, 1, r1), Attach(2, 1, r2), Attach(1, 2, r1)}, 3, 2),
      (* the grant is revoked, given to another device, or the epoch retired   *)
      Calm({Attach(1, 1, r1), Control("revoke", 2),
            Body("grant", d2, 2, 0, r1, 0, NoDevice)}, 3, 1),
      Calm({Attach(1, 1, r1), Control("retire", 1), Control("revoke", 2)}, 2, 1),
      Calm({Attach(2, 1, r1), Body("rotate_grant", d1, 2, 0, r1, 0, NoDevice),
            Body("replace", d2, 2, 0, r1, 0, d1)}, 2, 1),
      (* one ticket, two recoveries                                            *)
      Calm({Control("authorise", 2), Recover(1, r1), Recover(2, r2)}, 3, 2),
      (* one attachment, two renewals of it                                    *)
      Calm({Attach(2, 1, r1), Renew(2, r2), Renew(3, r3)}, 3, 3),
      (* a device the directory drops, a proof that does not hold, calls that  *)
      (* fail, and a restart                                                   *)
      [Calm({Attach(2, 1, r1), Unproven(Attach(2, 2, r2))}, 2, 2) EXCEPT !.drops = {d1}],
      Faulty(Calm({Attach(2, 1, r1), Attach(2, 2, r1)}, 2, 2), 1, 0),
      Restarting(Calm({Control("authorise", 2), Recover(1, r1)}, 3, 1)),
      Restarting(Calm({Attach(2, 1, r1)}, 2, 1)) }

(* Everything that moves the epochs, and the erasure that ends them.         *)
EpochScenarios ==
    { Calm({Control("rotate_key", 2), Control("record_set", 3), Control("retire", 1)}, 3, 0),
      Calm({Control("rotate_key", 2), Control("retire", 1), Control("erase", 2)}, 2, 0),
      From("absent", Calm({Control("create", 1), Control("record_set", 1),
                           Control("erase", 1)}, 3, 0)),
      Calm({Pinned(Control("erase", 2)), Control("erase", 3)}, 2, 0),
      (* a call that fails, whether or not it was applied; one that is late    *)
      Faulty(Calm({Control("rotate_key", 2)}, 2, 0), 1, 1),
      Restarting(Calm({Control("rotate_key", 2), Control("erase", 2)}, 2, 0)) }

(* Stages that expire at any point, and answers that come after.             *)
LateScenarios ==
    { Faulty(Calm({Attach(2, 1, r1), Control("revoke", 2)}, 2, 1), 0, 4),
      Faulty(From("absent", Calm({Control("create", 1)}, 2, 0)), 0, 4),
      Faulty(Calm({Control("rotate_key", 2), Control("erase", 2)}, 1, 0), 1, 2),
      Faulty(Calm({Control("rotate_key", 2), Control("retire", 1)}, 2, 0), 0, 4),
      Restarting(Faulty(Calm({Control("revoke", 2)}, 2, 0), 0, 4)) }

(* An erasure between a creation that is late and its set's recording.       *)
EraseScenarios ==
    { Faulty(From("absent", Calm({Control("create", 1), Control("record_set", 1),
                                  Control("erase", 1)}, 3, 0)), 0, 1) }

(* A grant revoked, and a recovery authorised and asked for under it.        *)
RevokedScenarios ==
    { Calm({Control("revoke", 2), Control("authorise", 2), Recover(1, r1)}, 3, 1) }

StorageScenarios == ReleaseScenarios \cup EpochScenarios \cup LateScenarios
=============================================================================
