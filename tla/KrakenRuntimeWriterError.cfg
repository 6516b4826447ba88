CONSTANTS
    MaximumMessages = 2
    MaximumBytes = 3
    Sizes = {1, 2}
    MaxMessages = 2
SPECIFICATION Spec
INVARIANT WriterErrorInvalidates
