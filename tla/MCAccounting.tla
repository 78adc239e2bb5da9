---- MODULE MCAccounting ----
(* Two routers; the first reuses a session id for another subscriber.        *)
EXTENDS Accounting

P(s, u, k, n) == [session |-> s, user |-> u, kind |-> k, octets |-> n]
MCSessions == {"a", "b"}
MCRouters == {"r1", "r2"}
MCRouterOf == [s \in MCSessions |-> IF s = "a" THEN "r1" ELSE "r2"]
MCPackets == {P("a", "ana", "Start", 0), P("a", "ana", "Interim", 2), P("a", "ana", "Stop", 1),
              P("a", "eva", "Start", 0), P("b", "luz", "Start", 0)}
MCOffsets == {-1, 0, 2}
====
