CONSTANTS
    Wechat = Wechat
    QQ = QQ
    Quora = Quora
    N163 = N163
    Weixin = Weixin
    Names <- MCNames
    Titles <- MCTitles
    Common <- MCCommon
    Initial <- MCInitial
    Digits = {1}
    CommonKey = 99
    Texts = {"q", "t", "qx"}
    Matches <- MCMatches
    Label <- MCLabel
    Scheme <- MCScheme
    NoScheme = "none"
    NoName = NoName
SPECIFICATION CTSpec
INVARIANTS CTTypeOK SectionsAreTheFolder
PROPERTIES SuggestionIsWhatIsShown LaunchesWhatWasPicked
