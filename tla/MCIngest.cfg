SPECIFICATION Spec
CONSTANTS
    h1 = h1
    h2 = h2
    p1 = p1
    mailA = mailA
    mailB = mailB
    junk = junk
    garbled = garbled
    urlA = urlA
    urlB = urlB
    gettext = gettext
    perl = perl
    old = old
    new = new
    broken = broken
    NoOne = NoOne
    NoMail = NoMail
    Handlers = {h1, h2}
    Pages = {p1}
    Mails = {mailA, mailB}
    MailClass <- MCClass
    ReportUrl <- MCUrl
    Reports <- MCReports
    DiskErrors = TRUE
    MaxBuilds = 3
    MaxSends = 2
    MaxCrashes = 1
SYMMETRY HandlerSymmetry
INVARIANTS TypeOK ReferentialIntegrity AllOrNothing BuildsWereSent
CHECK_DEADLOCK FALSE
