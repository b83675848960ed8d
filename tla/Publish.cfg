CONSTANTS
    p1 = p1
    p2 = p2
    p3 = p3
    ca = ca
    cb = cb
    ana = ana
    ben = ben
    g1 = g1
    g2 = g2
    Command = {p1, p2}
    Checkout = {ca, cb}
    Account = {ana, ben}
    Author = {ana, ben}
    Page <- TwoPages
    CheckoutOf <- ByCheckout
    AccountOf <- ByAccount
    AuthorOf <- ByAccount
    Mode <- FullAndPartial
    Selected <- OnePage
    MaxClock = 1
    NoCommand = NoCommand
    NoAccount = NoAccount

SPECIFICATION Spec

INVARIANTS
    ImportsExclude
    NoSilentOverwrite
    LeftoversAreOnRecord

PROPERTY
    PublishedIsLive

CHECK_DEADLOCK FALSE
