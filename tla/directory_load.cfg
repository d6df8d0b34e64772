SPECIFICATION LoadSpec
CONSTANTS
    Texts <- MCTexts
    NoText = ""
    Null = Null
    Runes <- MCRunes
    Trim <- MCTrim
    Slugs = {"a", "b", "c"}
    LowerCase = {"", "a", "b", "c"}
    HTTPUrls = {"http://1", "http://2"}
    OnionNames = {"u.onion"}
    I2PNames = {}
    CountryCodes = {"X"}
    MaxNameLen = 8
    MaxDescriptionLen = 8
    NoEntry = {unreadable, undecodable, trailing}
    FileCount = 3
    Base <- MCBase
    Entries <- MCEntries
    Before <- MCBefore
    Absolute = {"http://1", "http://2"}
    OtherScheme = {" http://1"}
INVARIANTS BlamesExactlyTheBad StoreOnlyIfAllGood StoreHoldsAll StoredPagesAgree
