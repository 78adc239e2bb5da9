---- MODULE MCBackup ----
(* One router and two records; a backup may be made at every tick.           *)
EXTENDS Backup

P(k, n) == [session |-> "a", user |-> "ana", kind |-> k, octets |-> n]
MCSessions == {"a"}
MCRouters == {"r1"}
MCRouterOf == [s \in MCSessions |-> "r1"]
MCPackets == {P("Start", 0), P("Stop", 1)}
MCOffsets == {0}
====
