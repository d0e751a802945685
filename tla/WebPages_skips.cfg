\* The lists, against what docs/API.md says of next_cursor.
SPECIFICATION Spec
CONSTANTS
    None = None
    Asked = Asked
    MaxClicks = 3
    MaxFaults = 1
    Page = {"lists"}
    LargePage = {"inbox", "journey", "notifications", "admin", "signin"}
    PageSize = 2
    Game = {1, 2, 3}
    Exe = {1, 2}
    Hinted = {1, 2}
    Card = {1, 2}
    Note = {1, 2}
    Target = {1}
    Tab = {1, 2}
    First = First
    Other = Other
    MaxRow = 5
    MaxShown = 5
    MaxChanges = 1
INVARIANT CursorAdvances
CHECK_DEADLOCK FALSE
