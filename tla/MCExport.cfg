CONSTANTS
    f1 = f1
    f2 = f2
    c1 = c1
    c2 = c2
    c3 = c3
    Names = {f1, f2}
    Contents = {c1, c2, c3}
    Size <- MCSize
    Torn = Torn
    None = None
    MaxChanges = 2
    Entries <- MCEntries
    Media = 3
    RunDir = 5
    Boot = 1
    MaxMounts = 3
    b1 = b1
    stick = stick
    hard = hard
    folder = folder
    Sources = {b1}
    Places = {stick, hard, folder}
    Drives = {stick, hard}
    Internal = {hard}
    HostOf <- MCHost
    Subdirs = {"", "a", "a/b"}
    Blank = ""
    BadName = "a/b"
    Nothing = Nothing
    MaxTime = 2
    MaxCopies = 2
    MaxClicks = 5
    PlanClicks = 4
SPECIFICATION MCSpec
INVARIANTS UnmarkedIsWhole EveryDriveOnce ScreenIsOfThisCopy
PROPERTY CompleteIsTheBundle
CHECK_DEADLOCK FALSE
