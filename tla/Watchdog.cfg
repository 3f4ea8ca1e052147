SPECIFICATION Spec
CONSTANTS
  Wrap = 12
  Timeout = 3
  MaxUptime = 20
  MaxPass = 2
INVARIANTS
  ReportTellsSilence
  ReportOncePerStall
  PlausibleReportIsGenuine
PROPERTIES
  StallReported
