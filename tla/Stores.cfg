SPECIFICATION StoresSpec
CONSTANTS
    text = text
    bytes = bytes
    blank = blank
    None = None
    Contents <- MCContents
    Original = text
    Blank <- MCBlank
    Decoded <- MCDecoded
    Cascade <- MCCascade
    MaxRequests = 3
    MaxCrashes = 1
    EntityIds = {e1}
    Reps = {canonical_md, rep_xml}
    Lexical = {rep_xml}
    Jobs = {j1, j2}
    MaxWrites = 3
    MaxFailures = 1
    Nil = Nil
    Procs = {p1, p2, p3, p4}
    MaxTakeovers = 4
    MaxDeaths = 1
    NoFile = NoFile
INVARIANT TypeOK
INVARIANT SourceIsLastUpload
INVARIANT CanonicalTracksSource
INVARIANT Converged
 
INVARIANT ViewTypeOK
INVARIANT FreshExact
INVARIANT DuplicatesNeedOverlap
INVARIANT SchemaFitsRows
INVARIANT LockTypeOK
 
 
INVARIANT NoLeak
