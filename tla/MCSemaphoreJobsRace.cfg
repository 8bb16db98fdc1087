SPECIFICATION Spec
CONSTANTS
  Producers = {p1, p2}
  Consumers = {c1, c2}
  JobsPerProducer = 2
  NoThread = NoThread
  NoJob = NoJob
INVARIANTS
  AnnouncedJobIsLive
