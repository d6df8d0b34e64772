SPECIFICATION Spec
CONSTANTS
    Texts <- MCTexts
    NoText = ""
    Null = Null
    NoPage = NoPage
    Runes <- MCRunes
    Trim <- MCTrim
    Upper <- MCUpper
    Lower <- MCLower
    Slugify <- MCSlugify
    Split <- MCSplit
    Slugs = {"acme", "long", "tool", "web"}
    LowerCase <- MCLowerCase
    HTTPUrls = {"http://a"}
    OnionNames = {"b.onion"}
    I2PNames = {"c.i2p"}
    CountryCodes = {"CH"}
    MaxNameLen = 8
    MaxDescriptionLen = 8
    Names = {"", " Acme ", "!!!", "Long"}
    TypedCategories = {"toy", "tool"}
    Countries = {"", " ch ", "c1"}
    TagTexts = {"", "Web, web,,app"}
    Clearnets = {"", " http://a", "ftp:a"}
    TypedAccess <- MCTypedAccess
    Onions = {"", "b.onion", "b.oni"}
    I2Ps = {"", "c.i2p"}
    Descriptions = {"", "acme"}
    Absolute = {"http://a"}
    OtherScheme = {" http://a", "ftp:a"}
    HandWritten <- MCHandWritten
INVARIANTS AcceptedWillLoad AcceptedLinksOpen OnlyClashesRemain TagsNeverRefused RejectionIsStable ErrorsActionable
