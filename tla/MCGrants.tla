------------------------------ MODULE MCGrants ------------------------------
(* Small instances of the grant services.                                    *)
EXTENDS Grants

CONSTANTS h1, h2, f1, c1

Hard(t) == [sort |-> "hard", tier |-> t]
Soft    == [sort |-> "soft", tier |-> 0]
Proof(s) == [sort |-> s, tier |-> 0]

Issue(by, ttl, ev) ==
    [svc |-> "transfer", op |-> "issue", scope |-> "transfer", by |-> by, src |-> h1, dst |-> h2,
     leaf |-> TRUE, flow |-> f1, ttl |-> ttl, evid |-> ev]
Consume(by)    == [svc |-> "transfer", op |-> "consume", scope |-> "transfer", by |-> by,
                   grant |-> Nothing]
Invalidate(by, n) == [svc |-> "transfer", op |-> "invalidate", scope |-> "transfer", by |-> by,
                      target |-> n]
Check(signer, ev) == [svc |-> "custody", op |-> "check", scope |-> "transfer", flow |-> f1,
                      chal |-> c1, signer |-> signer, ttl |-> 1, evid |-> ev]

Actor(class, local) == [class |-> class, local |-> local, domain |-> IF local THEN "own" ELSE "other"]
Publish(by, ttl, q, ts) ==
    [svc |-> "attach", op |-> "publish", scope |-> "web", by |-> by, tenants |-> ts,
     domains |-> {"own"}, quota |-> q, ttl |-> ttl]
Attach(by, ttl, q, t, s) ==
    [svc |-> "attach", op |-> "request", scope |-> s, by |-> by, tenant |-> t, quota |-> q,
     ttl |-> ttl]
Revoke(by, n) == [svc |-> "attach", op |-> "revoke", scope |-> "web", by |-> by, target |-> n]

Work == Actor("workload", TRUE)

Calm(bodies, n) ==
    [bodies |-> bodies, reqs |-> n, faults |-> 0, restarts |-> 0, start |-> 1, until |-> 1,
     asks |-> 1, keys |-> 1, silent |-> FALSE,
     policy |-> [possession |-> FALSE, tier |-> 1]]

GrantScenarios ==
    { (* 1: two consumes of one grant, calls that fail, a restart              *)
      [Calm({Issue(h1, 2, Hard(1)), Consume(h1)}, 3)
         EXCEPT !.faults = 1, !.restarts = 1, !.keys = 2],
      (* 2: consumes across the expiry                                         *)
      [Calm({Issue(h1, 1, Hard(1)), Consume(h1)}, 3) EXCEPT !.until = 5, !.asks = 3],
      (* 3: grants voided while they are issued and consumed                   *)
      [Calm({Issue(h1, 2, Hard(2)), Consume(h1), Invalidate("operator", 1)}, 3)
         EXCEPT !.faults = 1],
      Calm({Invalidate("operator", 1), Invalidate("operator", 2)}, 3) ,
      (* 5: a provider's checks beside them                                    *)
      [Calm({Check(h2, Hard(1)), Invalidate("operator", 1)}, 3) EXCEPT !.faults = 1],
      [Calm({Check(h2, Hard(1))}, 2) EXCEPT !.faults = 1, !.restarts = 1, !.keys = 2],
      [Calm({Check(h2, Hard(1))}, 2) EXCEPT !.until = 5, !.asks = 5],
      (* 8: a ledger that is silent, and the deadline                          *)
      [Calm({Issue(h1, 2, Hard(1)), Check(h2, Hard(1))}, 2)
         EXCEPT !.faults = 2, !.silent = TRUE, !.until = 4, !.asks = 2, !.start = 0],
      Calm({Issue(h1, 2, Hard(1))}, 3),
      (* 10: what is refused outright                                           *)
      Calm({Issue("nobody", 2, Hard(1)), Issue(h2, 2, Hard(1)), Issue(h1, 2, Proof("none")),
            Issue(h1, 2, Proof("forged")), Issue(h1, 2, Soft),
            [Issue(h1, 2, Hard(1)) EXCEPT !.leaf = FALSE],
            [Issue(h1, 2, Hard(1)) EXCEPT !.dst = h1], Check(h1, Hard(1)), Check(h2, Soft)}, 2),
      [Calm({Issue(h1, 2, Soft), Consume(h2), Consume("nobody"), Consume(h1),
             Invalidate(h1, 1), Invalidate("nobody", 1)}, 2)
         EXCEPT !.keys = 2, !.policy.possession = TRUE],
      (* 12: publications, requests and revocations                             *)
      [Calm({Publish(Work, 3, 2, {"t"}), Attach(Work, 2, 1, "t", "web"), Revoke(Work, 1)}, 3)
         EXCEPT !.faults = 1],
      [Calm({Publish(Work, 2, 2, {"t"}), Attach(Work, 3, 1, "t", "web")}, 2)
         EXCEPT !.until = 4, !.asks = 4],
      [Calm({Publish(Work, 3, 2, {"t"}), Publish(Work, 3, 0, {"t"}), Publish(Work, 3, 2, {}),
             Publish(Actor("workload", FALSE), 3, 2, {"t"}),
             Publish(Actor("device", TRUE), 3, 2, {"t"}),
             Attach(Work, 2, 3, "t", "web"), Attach(Work, 2, 1, "u", "web"),
             Attach(Work, 2, 1, "t", "db"), Attach(Actor("operator", FALSE), 2, 1, "t", "web"),
             Attach(Actor("service", TRUE), 2, 1, "t", "web"),
             Attach(Actor("nobody", TRUE), 2, 1, "t", "web"), Revoke(Actor("nobody", TRUE), 1)}, 2)
         EXCEPT !.keys = 2] }

(* A consume under way while the grants are voided.                          *)
VoidScenarios ==
    {Calm({Issue(h1, 2, Hard(1)), Consume(h1), Invalidate("operator", 1)}, 3)}
=============================================================================
