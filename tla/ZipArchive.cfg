\* Up to three entries and more, below and above every limit.
CONSTANTS
    Max16 = 2
    Max32 = 6
    Zip64From = 4
    Inputs <- InputLists
    Children <- DirContents
    Links <- LinkPaths
    FileSizes = {0, 2, 7}
    PackedSizes = {1, 7}
    Existing <- OldFiles
    Dangling <- LooseLinks
    MaxEntries = 2
SPECIFICATION Spec
INVARIANTS
    RoundTrip
    ArchiveSound
    OutputSafe
