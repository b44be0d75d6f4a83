SPECIFICATION Spec
CONSTANTS
  Mux = {1, 2, 3, 4}
  BandOf <- Bands
  Fuzzy <- Close
  Fe = {1, 2}
  CanTune <- LowAndBoth
  Scan = {1, 2}
  PropagateScans = {2}
  AbortScans = {1}
  Parallel = FALSE
  MaxNumSubscriptions = 5
  MaxViewings = 1
  MaxSub = 5
INVARIANTS ScanTypeOK ActiveCounted NothingLeft NothingSkipped SubscriptionFound
PROPERTIES ScanEnds
