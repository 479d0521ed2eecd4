\* The inbox opens, and the user makes two requests, on three places of the
\* order with one message to a page; one change comes from elsewhere.
CONSTANTS
    Msgs = {1, 2, 3}
    Stored = {1, 3}
    PageSize = 1
    Folders = {"INBOX", "SPAM", "TRASH", "ARCHIVED"}
    Deeds = {"spam", "notSpam", "read", "delete"}
    MaxCalls = 3
    MaxForeign = 1
SPECIFICATION MailboxSpec
INVARIANTS
    MailboxInv
    PagesWhole
    HonestWhenQuiet
    DestroysOnlyTrash
\* the user may stop
CHECK_DEADLOCK FALSE
