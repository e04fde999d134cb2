SPECIFICATION UpdatesSpec
CONSTANTS
    t1 = t1
    t2 = t2
    v1 = v1
    v2 = v2
    Tabs <- MCTabs
    EDITS <- MCEdits
    LOSSES = 1
    SLIDES = 3
    HEIGHTS <- MCHeights
    ACK_WINDOW = 2
    WARM_UP = 1
    COOL_DOWN = 1
    GOOD_FOR = 2
    LOW_FOR = 2
    BAD_FOR = 2
    UNANSWERED = 2
    Watchers <- MCWatchers
    CAPACITY = 2
    BREAKS = 2
    e1 = e1
    e2 = e2
    r1 = r1
    r2 = r2
    Events <- MCEvents
    CreditEvents <- MCCreditEvents
    Walletless <- MCWalletless
    ATTEMPTS = 2
    DELIVERIES = 2
    CRASHES = 2
    Lots <- MCLots
    EXPIRY <- MCExpiry
    GRANT <- MCGrant
    DebitKeys <- MCKeys
    DEBIT <- MCDebit
    COMPENSATION = 2
    LAST = 2
    OFFER_TTL = 2
    MEMBER_TTL = 4
    USED = 1
    MEMBERS = 3
    UNTIL = 6
    EdgeRides <- MCEdgeRides
    SEQUENCES = 2
    EVENTS = 2
    Versions <- MCVersions
    Fitting <- MCFitting
    JOBS = 2
    REPORTS = 2
    DRIVES = 1
PROPERTIES
    OfferedOutsideDrives
CHECK_DEADLOCK FALSE
