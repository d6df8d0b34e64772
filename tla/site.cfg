SPECIFICATION SiteSpec
CONSTANTS
    LastRelease = 3
    appCss = appCss
    monoFont = monoFont
    css1 = css1
    css3 = css3
    mono = mono
    NoFile = NoFile
    Assets <- MCAssets
    Versioned = {appCss}
    Contents <- MCContents
    Bytes <- MCBytes
    Rollbacks = FALSE
    Browsers = {b1}
    Proxy = proxy
    Nav = {"dir", "news", "digest", "exchanges", "explorer"}
    Utility = {"mining", "tools"}
    Slugs = {"a", "b"}
    Typed <- MCTyped
INVARIANTS NoDeadLinks NeverOlder
