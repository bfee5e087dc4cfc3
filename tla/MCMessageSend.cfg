\* Two sessions race over two messages, with a crash and a cap of one mail a day.
SPECIFICATION FairSpec
CONSTANTS
    Session = {s1, s2}
    Lead = {l1}
    NoLead = NoLead
    MaxMessages = 2
    MaxMails = 2
    MaxApprovals = 2
    MaxCrashes = 1
    Compliance = TRUE
    DailySendCap = 1
INVARIANTS
    TypeOK
    OneMailPerApproval
    BlockedLeadGetsNoMail
PROPERTIES
    SentIsRecorded
CHECK_DEADLOCK FALSE
