\* Downloads with losses, stores, commits, resets and losses of power.
SPECIFICATION Spec
CONSTANTS
  Sections = 3
  Window = 2
  Guards = {TRUE, FALSE}
  MaxGen = 1
  MaxBusy = 2
  MaxIds = 1
  Owners <- ImageOwners
INVARIANTS TypeOK AckedIsWritten ImagesAreIntact CommittedIsReported
  RebootWaits GuardKeepsBank
