\* Two profiles contending for one cluster.
CONSTANTS
  Profiles = {"p1", "p2"}
  Clusters = {"C"}
  NoOne = "no_one"
  ClusterOf <- const_OneCluster
SPECIFICATION Spec
INVARIANTS TypeOK OneOperation ReturnsSettled InUseMeansFailure
PROPERTIES EveryOperationReturns
CHECK_DEADLOCK FALSE
