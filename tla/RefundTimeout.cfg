SPECIFICATION Spec
CONSTANTS
    TimestampSize = 64
    r1 = r1
    r2 = r2
    Requests <- MCRequests
    Channels = {"sms", "email"}
    Registered = {"sms"}
    Q0 <- MCQ0
    Calls <- MCDefault
    Dbs = {"jotify_0", "jotify_1"}
    DbOf <- MCDbOf
    RedisLoses = FALSE
    DbLoses = FALSE
INVARIANTS FailedCreateRefunded
