\* Liveness: a download, the two users of both mutexes and the camera thread.
SPECIFICATION FairSpec
CONSTANTS
    Sms = {}
    Local = {}
    Aip = {aip}
    Mms = {mms}
    Gprs = {gprs}
    Shell = {}
    Photo = {photo}
    GSM_MAIL_MAX_MSGS = 1
    MaxMails = 2
    ErrorLimit = 0
    AuthMails = FALSE
    NULL = NULL
PROPERTIES
    RequestAnswered
    MutexGranted
    ImplementsFairService
