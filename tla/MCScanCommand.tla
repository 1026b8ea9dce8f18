--------------------------- MODULE MCScanCommand ---------------------------
(* unattached-pvc (two namespaces), orphaned-pv (cluster-scoped, undated)    *)
(* and zero-endpoint-service (one LoadBalancer, one ClusterIP); the ranks    *)
(* are those of the names PersistentVolume 1, PersistentVolumeClaim 2,       *)
(* Service 3.                                                                *)
EXTENDS ScanCommand
MCDetectorName == <<2, 1, 3>>
Resource(kind, namespace, dated, bill) ==
  [kind |-> kind, namespace |-> namespace, name |-> 1, dated |-> dated, bill |-> bill]
Volume(class, size) == [by |-> "volume", class |-> class, size |-> size]
MCFinds ==
  << <<Resource(2, 2, TRUE, Volume("fast", 2)), Resource(2, 1, TRUE, Volume("fast", NoSize))>>,
     <<Resource(1, 0, FALSE, Volume("gone", 1))>>,
     <<Resource(3, 2, TRUE, [by |-> "loadBalancer"]), Resource(3, 1, TRUE, [by |-> "nothing"])>> >>
MCStorageClasses == [c \in {"fast"} |-> "io2"]
\* At the start one is MinAge old, one becomes so, and one is created during the scan.
MCBirths == {1, 2, 4}

Prices(default, loadBalancer) ==
  [defaultType |-> default, ebs |-> [t \in {"gp3", "io2"} |-> IF t = "gp3" THEN 8 ELSE 12],
   loadBalancer |-> loadBalancer]
\* A table without the rate that others fall back to, one without a price for load
\* balancers, and a file that is none.
MCPricingFiles ==
  [f \in {"", "own", "nodefault", "nolb", "none"} |->
     CASE f = ""          -> Prices("gp3", 1643)
       [] f = "own"       -> Prices("io2", 900)
       [] f = "nodefault" -> Prices("gp4", 900)
       [] f = "nolb"      -> Prices("gp3", 0)
       [] f = "none"      -> Unreadable]
MCOptions ==
  [namespace : {0, 1}, exclude : {{}, {1}}, minAge : {0, 2},
   output : {"table", "json", "html", "toml"}, pricingFile : {""}]
  \cup [namespace : {1}, exclude : {{}}, minAge : {0}, output : {"markdown"},
        pricingFile : DOMAIN MCPricingFiles]

\* The clock is read in the filter only; a tick before it is a later start.
ClockMatters == pc \notin {"scanning", "filtering"} => UNCHANGED now
=============================================================================
