SPECIFICATION SplashSpec
CONSTANTS
    CAP = 6
    TMP = 3
    ZERO = 8
    Versions <- MCVersions
    Commits <- MCCommits
    Bauds <- MCBauds
    BaudText <- MCBaudText
    FIRST = 2
    LAST = 18
    Lower = {5}
    CASE_BIT = 2
    PenUp = PenUp
    vfont <- MCfont
    ZERO_EVERY = 1
    Strings <- MCStrings
    Pens <- MCPens
    Sizes = {1, 3}
INVARIANTS
    Fits
    SaysWhatWasMeant
    AsWritten
    ZeroedOncePerGlyph
