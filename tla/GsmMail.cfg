\* Safety: a single-mail, a ring, an MMS and a GPRS client, the console and the camera.
SPECIFICATION Spec
CONSTANTS
    Sms = {sms}
    Local = {local}
    Aip = {}
    Mms = {mms}
    Gprs = {gprs}
    Shell = {shell}
    Photo = {photo}
    GSM_MAIL_MAX_MSGS = 2
    MaxMails = 2
    ErrorLimit = 1
    AuthMails = TRUE
    NULL = NULL
INVARIANTS
    TypeOK
    NoDanglingMail
    NoLostRequest
    SequenceOwned
    QueueBound
    LockOrder
    IInv
PROPERTY
    ImplementsService
