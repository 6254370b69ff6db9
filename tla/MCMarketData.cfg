\* Five records, one of which the database refuses; batches of two, a fault.
SPECIFICATION PipelineFairSpec
CONSTANTS
  good = good
  high = high
  bad = bad
  report = report
  quote = quote
  Records = {good, bad, high, report, quote}
  Feed <- MCFeed
  Bar <- MCBar
  Writable = {good, report}
  BatchSize = 2
  MAX_RETRIES = 1
  HasSession = TRUE
  MaxFaults = 1
\* The system rests once every record has settled.
CHECK_DEADLOCK FALSE
INVARIANTS
  PipelineTypeOK
  NothingVanishes
  TableIsClean
PROPERTIES
  EverythingSettles
