CONSTANTS
    Senders = {s1, s2}
    mail = mail
    number = number
    url = url
    Recipients = {mail, number, url}
    Accepts <- MCAccepts
    CustomChannels <- MCCustomChannels
    CustomRecipients = {url, number}
    Mails = {mail}
    NotificationIds = {1, 2}
    RetryAttempts = 2
    MaxHistory = 1
    HistoryCut = 1
    r1 = r1
    r2 = r2
    Rules = {r1, r2}
    RulePriority <- MCPriority
    RuleConditions <- MCConditions
    RuleLogic <- MCLogic
    RuleActions <- MCActions
    MaxExecutions <- MCMax
    Cooldown <- MCCooldown
    AlertCalls = {c1, c2}
    NewAlerts <- MCAlerts
    MaxTime = 2
    MaxCalls = 3
    ReportCalls = {c1, c2}
    ReportIds = {1, 2, 3}
    GivenPaths = {p}
    OwnPath = own
    PdfLibrary = FALSE
    MaxReports = 2
    ReportsCut = 1
    Viewers = {u1}
    Loop = Loop
    Names = {n1}
    Sources = {s1, s2}
    Ids = {a1, a2}
    Null = Null
    MaxLaidOut = 20
SPECIFICATION Spec
 
INVARIANT ReportsInv
PROPERTY ReportsPromises
CHECK_DEADLOCK FALSE
