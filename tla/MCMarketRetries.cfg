\* A bar that passes the rules and cannot be written.
SPECIFICATION PipelineSpec
CONSTANTS
  good = good
  high = high
  bad = bad
  report = report
  quote = quote
  Records = {good}
  Feed <- MCOneFeed
  Bar <- MCBar
  Writable = {}
  BatchSize = 2
  MAX_RETRIES = 3
  HasSession = FALSE
  MaxFaults = 0
\* The system rests once every record has settled.
CHECK_DEADLOCK FALSE
INVARIANTS
  RetriesAreLimited
