\* A bar that is refused every time; the processor has no session.
SPECIFICATION PipelineSpec
CONSTANTS
  good = good
  high = high
  bad = bad
  report = report
  quote = quote
  Records = {high}
  Feed <- MCOneFeed
  Bar <- MCBar
  Writable = {}
  BatchSize = 2
  MAX_RETRIES = 3
  HasSession = FALSE
  MaxFaults = 0
\* The system rests once every record has settled.
CHECK_DEADLOCK FALSE
INVARIANTS
  GivenUpIsWritten
