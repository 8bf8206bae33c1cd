---------------------------- MODULE MCMapInstances ----------------------------
(* TLC instance of MapInstances. *)
EXTENDS MapInstances

CONSTANTS ann, bea, bob, alice, other

Overmap == {2}
Part(id, dimension) == [id |-> id, dimension |-> dimension]
Pod(index, arguments) == [index |-> index, arguments |-> arguments]

Deployed(survival, ordered, replicas, setPartitions, podSpecs) ==
  [partitions |-> (Survival :> survival @@ DeepDesert :> {Part(3, 0)}),
   ordered |-> (Survival :> ordered @@ DeepDesert :> TRUE),
   replicas |-> replicas, setPartitions |-> setPartitions,
   podSpecs |-> (Survival :> podSpecs @@ DeepDesert :> None)]

\* As the vendor deploys it; with an override and other arguments; and out of
\* order, without a partition list.
Deployments ==
  {Deployed({Part(1, 0)}, TRUE, 1, {1}, None),
   Deployed({Part(1, 0), Part(4, 1)}, TRUE, 2, {1, 4},
            <<Pod(4, <<other>>), Pod(1, <<ann, other>>)>>),
   Deployed({Part(1, 0), Part(4, 2), Part(5, 1)}, FALSE, 3, None,
            <<Pod(1, None)>>)}
=============================================================================
