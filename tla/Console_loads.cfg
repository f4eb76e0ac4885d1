SPECIFICATION ConsoleSpec
CONSTANTS
  MaxActs = 2
  MaxFaults = 1
  Rendered <- MCRendered
  Planned <- MCPlanned
INVARIANTS LoadingExplained
PROPERTIES SectionsNeverGoBack ConsoleCatchesUp DetailsMatchSelection
\* a page nobody is signed in to waits for its user
CHECK_DEADLOCK FALSE
