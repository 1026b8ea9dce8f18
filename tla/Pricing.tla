------------------------------ MODULE Pricing ------------------------------
(***************************************************************************)
(* The price table and the estimates made from it: pkg/cost, and the       *)
(* estimateCost of the detectors that find what AWS bills.                 *)
(*                                                                         *)
(* A file is Unreadable (missing, or no YAML) or a table:                  *)
(*   [defaultType |-> , ebs |-> rates by volume type, loadBalancer |-> ]   *)
(* A resource's bill is [by |-> "volume", class |-> , size |-> ] with size *)
(* NoSize if no storage is stated, or [by |-> "loadBalancer"], or          *)
(* [by |-> "nothing"].  Rates are in cents.                                *)
(***************************************************************************)
EXTENDS Integers

CONSTANTS
  Unreadable,      \* the contents of a file that yields no table
  NoSize,          \* spec without a storage quantity
  NoCost,          \* CostUSDPerMonth == nil
  StorageClasses   \* StorageClasses[c]: the "type" of the cluster's class c

\* Mutant: the default volume type need not have a rate.
hasLoadBalancerRate(file) == file # Unreadable /\ file.loadBalancer > 0

\* Whether LoadPricingTable accepts the file.
LoadPricingTable(file) ==
  /\ file # Unreadable
  /\ file.defaultType \in DOMAIN file.ebs
  /\ file.loadBalancer > 0

\* A map lookup: the zero value for a key that is not there.
lookup(map, key, zero) == IF key \in DOMAIN map THEN map[key] ELSE zero

EBSMonthlyCost(table, volumeType, sizeGB) ==
  sizeGB * IF volumeType \in DOMAIN table.ebs THEN table.ebs[volumeType]
           ELSE lookup(table.ebs, table.defaultType, 0)

LoadBalancerMonthlyCost(table) == table.loadBalancer

storageClassVolumeType(class) == lookup(StorageClasses, class, "")

storageGB(size) == IF size = NoSize THEN 0 ELSE size

estimateCost(table, bill) ==
  CASE bill.by = "volume" ->
         EBSMonthlyCost(table, storageClassVolumeType(bill.class), storageGB(bill.size))
    [] bill.by = "loadBalancer" -> LoadBalancerMonthlyCost(table)
    [] OTHER -> NoCost
=============================================================================
