---------------------------- MODULE MCMaintenance ----------------------------
(* TLC instance of Maintenance. *)
EXTENDS Maintenance

Server(map, limit, request) == [map |-> map, limit |-> limit, request |-> request]

\* As the vendor deploys them: with a request missing, with a set that has no
\* resources before others that have, and in another order.
VendorSets ==
  {<<Server("Survival_1", 12288, 12288), Server("DeepDesert_1", 15360, 15360),
     Server("Overmap", 2048, Unset)>>,
   <<Server("Overmap", Unset, Unset), Server("Survival_1", 20480, 20480),
     Server("DeepDesert_1", 10240, 3072)>>}
=============================================================================
