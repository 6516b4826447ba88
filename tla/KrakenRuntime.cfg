CONSTANTS
    MaximumMessages = 2
    MaximumBytes = 3
    Sizes = {1, 2}
    MaxMessages = 4
SPECIFICATION FairSpec
INVARIANT ReportIsTrue
PROPERTIES RefinesLog StopTerminates
