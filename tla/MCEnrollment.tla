---------------------------- MODULE MCEnrollment ----------------------------
EXTENDS Enrollment

MCServers == {"s1", "s2"}
MCNames == {"a", "b"}
MCEndpoints == {1, 2}
\* One server of each kind; a slip gives either the other's name.
MCWanted ==
  [s \in MCServers |->
     IF s = "s1" THEN [name |-> "a", roles |-> {"billing", "network"}, endpoint |-> 1]
     ELSE [name |-> "b", roles |-> {"billing"}, endpoint |-> NONE]]
=============================================================================
