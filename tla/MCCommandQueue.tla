--------------------------- MODULE MCCommandQueue ---------------------------
(* Instances of CommandQueue for TLC.                                       *)
EXTENDS CommandQueue, FiniteSets, TLC

\* Workers and senders spread over the instances as evenly as they can be.
Placement ==
    CHOOSE f \in [Workers \cup Senders -> Instances] :
        \A i, j \in Instances :
            \A group \in {Workers, Senders} :
                Cardinality({g \in group : f[g] = i}) <=
                    Cardinality({g \in group : f[g] = j}) + 1

\* Commands that differ only in their name (where all of them are runnable) and
\* workers of the same instance.
PeerSymmetry ==
    {f @@ g : f \in Permutations(Commands),
              g \in {h \in Permutations(Workers) :
                        \A w \in Workers : InstanceOf[h[w]] = InstanceOf[w]}}
=============================================================================
