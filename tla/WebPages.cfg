\* Each page of the web app with two or three of everything, three clicks and
\* one failed request.
SPECIFICATION Spec
CONSTANTS
    None = None
    Asked = Asked
    MaxClicks = 3
    MaxFaults = 1
    Page = {"journey", "backlog", "settings", "inbox", "notifications", "admin", "profile", "signin", "lists"}
    LargePage = {"inbox", "journey", "notifications", "admin", "signin"}
    PageSize = 2
    Game = {1, 2, 3}
    Exe = {1, 2}
    Hinted = {1, 2}
    Card = {1, 2}
    Note = {1, 2}
    Target = {1}
    Tab = {1, 2}
    First = First
    Other = Other
    MaxRow = 5
    MaxShown = 5
    MaxChanges = 1
INVARIANTS PagesTypeOK PagesShowSaved CommentsAreKept FormsAddOnce EditsKeepOthers SignInReturns ListsDescend 
PROPERTIES CommentsHeal FeedCatchesUp
CHECK_DEADLOCK FALSE
