SPECIFICATION Spec
CONSTANTS
    LastRelease = 3
    appCss = appCss
    monoFont = monoFont
    css1 = css1
    css3 = css3
    mono = mono
    NoFile = NoFile
    Assets <- MCAssets
    Versioned = {appCss}
    Contents <- MCContents
    Bytes <- MCBytes
    Rollbacks = TRUE
    Browsers = {b1, b2}
    Proxy = proxy
SYMMETRY Visitors
INVARIANTS OwnBytes
