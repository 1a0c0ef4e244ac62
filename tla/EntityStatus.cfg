SPECIFICATION Spec
CONSTANTS
    text = text
    bytes = bytes
    blank = blank
    None = None
    Contents <- MCContents
    Original = text
    Blank <- MCBlank
    Decoded <- MCDecoded
    Cascade <- MCCascade
    MaxRequests = 3
    MaxCrashes = 0
INVARIANT StatusSticks
