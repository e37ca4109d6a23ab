---------------------------- MODULE MCMessaging -----------------------------
(* Small instances of messaging.                                             *)
EXTENDS Messaging

Plain(path, d) ==
    [path |-> path, dev |-> d, names |-> d, wrong |-> "none", proof |-> 0, streams |-> FALSE,
     credit |-> TRUE]
Wrong(b, why) == [b EXCEPT !.wrong = why]
Streams(b)    == [b EXCEPT !.streams = TRUE]

Pack(d, gen, until, once) == [gen |-> gen, until |-> until, once |-> once] @@ Plain("publish", d)
Load(d, key)  == [key |-> key] @@ Plain("load", d)
Commit(d, key, rev, epoch, gen) ==
    [key |-> key, expected |-> rev, marker |-> [epoch |-> epoch, gen |-> gen]] @@ Plain("commit", d)
Credential(d, jwk, proves) == [jwk |-> jwk, proves |-> proves] @@ Plain("credential", d)

Unknown       == [status |-> "not_found"]
Holds(jwk, t) == [status |-> "ok", jkt |-> jwk, tid |-> t]

Calm(asks, n, k) ==
    [asks |-> asks, reqs |-> n, inflight |-> k, aborts |-> 0, absent |-> {}, faults |-> FALSE,
     keys |-> <<1>>, keyset |-> TRUE, start |-> 1, until |-> 1, changes |-> 0, records |-> {},
     dir |-> [d \in {"d"} |-> Unknown]]

MessagingScenarios ==
    { (* 1: packages published, rotated and claimed                            *)
      [Calm({Pack("d", 1, 3, TRUE), Pack("d", 2, 3, TRUE), Plain("claim", "d")}, 4, 3)
         EXCEPT !.keys = <<>>],
      (* 2: packages that expire, of last resort, and a pool at its limit      *)
      [Calm({Pack("d", 1, 2, TRUE), Pack("d", 1, 3, FALSE), Plain("claim", "d")}, 5, 1)
         EXCEPT !.keys = <<>>, !.until = 3],
      (* 3: what publish and claim refuse                                      *)
      [Calm({Pack("d", 1, 3, TRUE), Pack("e", 1, 3, TRUE), [Plain("claim", "d") EXCEPT !.names = "none"],
             Wrong(Pack("d", 1, 3, TRUE), "malformed"), Wrong(Plain("claim", "d"), "absent"),
             [Pack("d", 1, 3, TRUE) EXCEPT !.names = "e"], Plain("keypackages_other", "d"),
             Wrong(Plain("claim", "d"), "credential"), [Plain("claim", "d") EXCEPT !.proof = 1]}, 3, 1)
         EXCEPT !.keys = <<>>, !.keyset = FALSE],
      (* 4: loads and commits of one endpoint, racing                          *)
      [Calm({Load("d", <<"d", "g">>), Commit("d", <<"d", "g">>, 0, 1, 1),
             Commit("d", <<"d", "g">>, 1, 1, 2), Commit("d", <<"d", "g">>, 1, 1, 0)}, 4, 3)
         EXCEPT !.keys = <<>>],
      (* 5: epochs, retries, and what load and commit refuse                   *)
      [Calm({Commit("d", <<"d", "g">>, 0, 1, 2), Commit("d", <<"d", "g">>, 1, 1, 2),
             Commit("d", <<"d", "g">>, 1, 2, 0), Wrong(Load("d", <<"d", "g">>), "malformed"),
             Wrong(Commit("d", <<"d", "g">>, 0, 1, 1), "malformed"), Load("d", <<"e", "g">>),
             Commit("d", <<"e", "g">>, 0, 1, 1), Commit("d", <<"d", "h">>, 0, 1, 1),
             Wrong(Load("d", <<"d", "g">>), "method")}, 3, 1) EXCEPT !.keys = <<>>],
      (* 6: credentials, with the directory and the signing key changing       *)
      [Calm({Credential("d", "k1", "k1"), Credential("e", "k2", "k2"), Credential("d", "k1", "k2")}, 2, 2)
         EXCEPT !.keys = <<1, 2>>, !.faults = TRUE, !.changes = 1,
                !.dir = [d \in {"d", "e"} |-> IF d = "d" THEN Holds("k1", "t1") ELSE Holds("k2", "t2")],
                !.records = {Unknown, Holds("k2", "t3")}],
      (* 7: bodies that stream, aborts, and the collector at its limit         *)
      [Calm({Streams(Plain("claim", "d")), Streams(Load("d", <<"d", "g">>))}, 3, 3)
         EXCEPT !.keys = <<>>, !.aborts = 1],
      (* 8: more exchanges than the router remembers                           *)
      [Calm({Streams(Plain("claim", "d"))}, 4, 4) EXCEPT !.keys = <<>>],
      (* 9: paths nobody owns, an endpoint that is absent, no clock            *)
      [Calm({Plain("elsewhere", "d"), Plain("credential", "d"), Plain("claim", "d"), Load("d", <<"d", "g">>),
             [Plain("claim", "d") EXCEPT !.credit = FALSE]}, 3, 2)
         EXCEPT !.keys = <<>>, !.absent = {"credential"}, !.start = 0, !.until = 0],
      (* 10: credentials that are refused before the directory is asked        *)
      [Calm({Streams(Credential("d", "k1", "k1")), Wrong(Credential("d", "k1", "k1"), "method"),
             Wrong(Credential("d", "k1", "k1"), "malformed")}, 3, 2)
         EXCEPT !.dir = [d \in {"d"} |-> Holds("k1", "t1")]] }

(* An exchange is aborted while the router remembers as many as it can.      *)
CrowdedScenarios ==
    {[Calm({Streams(Plain("claim", "d"))}, 5, 5) EXCEPT !.keys = <<>>, !.aborts = 1]}
=============================================================================
