SPECIFICATION Spec
CONSTANTS
    TimestampSize = 64
    r1 = r1
    r2 = r2
    Requests <- MCRequests
    Channels = {"sms", "email"}
    Registered = {"sms"}
    Q0 <- MCQ0
    Calls <- MCCalls
    Dbs = {"jotify_0", "jotify_1"}
    DbOf <- MCDbOf
    RedisLoses = TRUE
    DbLoses = TRUE
INVARIANTS TypeOK QuotaConserved AnswerReliable ChargedIffCreated LogHasNotification
