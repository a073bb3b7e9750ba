------------------------------ MODULE GprsLink ------------------------------
(***************************************************************************)
(* The link to the server.  The gprs thread sends requests (alarms and     *)
(* heartbeats), which the server answers, and the acknowledgements of the  *)
(* server's commands, which it does not.  The gsm thread keeps in gsm_mode *)
(* whether it takes the modem to be in command mode or connected, and the  *)
(* modem has its own opinion: a closed connection, a reset or a failed     *)
(* escape sequence set them at odds.  What the gsm thread reads is all     *)
(* that has arrived since it last read, whatever it was the answer to.     *)
(*                                                                         *)
(* Late answers, lost frames, closed connections and lost modems are       *)
(* faults, of which there is a bounded number.  The commands are those     *)
(* that set something (telephones, cards, parameters, time, address).      *)
(* A picture's upload (PictureUpload) keeps what it reads in one frame,    *)
(* which it parses again and partly wipes.                                 *)
(* Mutexes, queues and semaphores of the two threads are the subject of    *)
(* GsmMail.                                                                *)
(***************************************************************************)
EXTENDS Integers, Sequences, FiniteSets

CONSTANTS Orders,     \* values of gprs_order (256)
          CrOrder,    \* the order whose byte is a carriage return (13)
          MailMax,    \* GPRS_MAIL_MAX_MSGS
          ErrorLimit, \* failures in a row before the modem is switched off (10)
          Command,    \* the server's commands
          TooMany,    \* those with more entries than there is room for
          Altered,    \* those carried out otherwise: too long an address, no digits in a time
          CommandMax, \* bound on the commands sent
          Alarms,     \* bound on the alarms and uploads
          Faults      \* bound on the faults

ASSUME LinkAssumption ==
    /\ Orders \in Nat /\ Orders > 1 /\ CrOrder \in Nat
    /\ MailMax \in Nat \ {0} /\ ErrorLimit \in Nat
    /\ TooMany \subseteq Command /\ Altered \subseteq Command \ TooMany /\ CommandMax \in Nat
    /\ Alarms \in Nat /\ Faults \in Nat

VARIABLES
    modem,        \* "off", "cmd", or "data": its bytes go to the server
    tcp,          \* is it connected?
    rx,           \* what it has sent to the processor
    down,         \* what the server has sent to the modem
    gsm_mode, gsm, \* the gsm thread's mode and place
    stale,        \* CLOSED stands in the gsm thread's buffer behind its beginning
    gprs,         \* the gprs thread's place
    gprs_mq, gprs_order, error_counts,
    request,      \* its frame
    send_result, response,
    outcome,      \* of the last frame that wanted a response
    received,     \* has the server got it?
    executed,     \* commands carried out
    altered,      \* and those carried out otherwise than asked
    frame,        \* the upload's: the command held, is its length right, turned or wrong, its data wiped
    spoiled,      \* commands the upload has parsed again or wiped
    told,         \* what the server was told of each command
    sent,         \* the server's commands so far
    alarms, faults

modemVars == <<modem, tcp, rx, down>>
serverVars == <<received, told>>
mailVars == <<gprs_mq, executed, altered>>
frameVars == <<frame, spoiled>>
gprsVars == <<gprs, gprs_order, error_counts, request, outcome>>
reportVars == <<send_result, response>>
vars == <<modemVars, gsm_mode, gsm, stale, gprsVars, mailVars, reportVars, serverVars, frameVars, sent,
          alarms, faults>>

Order == 0..Orders - 1

(***************************************************************************)
(* A frame or line from the modem: the answer to a request, to a page or   *)
(* to the authentication, a command, CLOSED, or the echo of a frame: of    *)
(* the request alone or with something else.                               *)
(***************************************************************************)
Closed == <<"closed", 0>>
AuthAnswer == <<"auth", 0>>
Noise == <<"noise", 0>>
Verdict == <<"verdict", 0>>
Item == {"ack", "echo"} \X Order \cup {"command"} \X Command \cup {Closed, AuthAnswer, Noise, Verdict}

(* A mail for the gprs thread: an alarm or heartbeat, a picture to upload, or a command to acknowledge *)
Alarm == <<"alarm", 0>>
Picture == <<"picture", 0>>
Mail == {Alarm, Picture} \cup {"done", "failed"} \X Command

(* The upload's frame, with nothing of the server's in it *)
NoFrame == [held |-> {}, length |-> "wrong", wiped |-> FALSE]

Init ==
    /\ modem = "cmd" /\ tcp = FALSE /\ rx = <<>> /\ down = <<>>
    /\ gsm_mode = "cmd" /\ gsm = "top" /\ stale = FALSE
    /\ gprs = "recv" /\ gprs_mq = <<>> /\ gprs_order = 0 /\ error_counts = 0
    /\ request = Alarm /\ send_result = -1 /\ response = <<>>
    /\ outcome = "none" /\ received = FALSE
    /\ executed = {} /\ altered = {} /\ told = [c \in Command |-> "nothing"]
    /\ frame = NoFrame /\ spoiled = {}
    /\ sent = {} /\ alarms = 0 /\ faults = 0

Fault == faults < Faults /\ faults' = faults + 1
FaultIf(p) == IF p THEN Fault ELSE UNCHANGED faults

-----------------------------------------------------------------------------
(* The modem, the network and the server *)

Off == modem' = "off" /\ tcp' = FALSE /\ down' = <<>>

ServerCommand ==
    /\ Cardinality(sent) < CommandMax /\ tcp
    /\ \E c \in Command \ sent :
        /\ sent' = sent \cup {c}
        /\ down' = Append(down, <<"command", c>>)
    /\ UNCHANGED <<modem, tcp, rx, gsm_mode, gsm, stale, gprsVars, mailVars, reportVars, serverVars,
                   frameVars, alarms, faults>>

Deliver ==
    /\ modem = "data" /\ down # <<>>
    /\ rx' = Append(rx, Head(down))
    /\ down' = Tail(down)
    /\ UNCHANGED <<modem, tcp, gsm_mode, gsm, stale, gprsVars, mailVars, reportVars, serverVars, frameVars,
                   sent, alarms, faults>>

(* The connection is closed: the modem says so and is in command mode again. *)
Close ==
    /\ tcp /\ Fault
    /\ tcp' = FALSE /\ modem' = "cmd"
    /\ rx' = Append(rx, Closed)
    /\ down' = <<>>
    /\ UNCHANGED <<gsm_mode, gsm, stale, gprsVars, mailVars, reportVars, serverVars, frameVars, sent, alarms>>

PowerLoss ==
    /\ modem # "off" /\ Fault
    /\ Off
    /\ UNCHANGED <<rx, gsm_mode, gsm, stale, gprsVars, mailVars, reportVars, serverVars, frameVars, sent, alarms>>

(* Another thread has an alarm for the server, or the server has asked for a picture. *)
NewAlarm ==
    /\ alarms < Alarms /\ Len(gprs_mq) < MailMax
    /\ alarms' = alarms + 1
    /\ \E m \in {Alarm, Picture} : gprs_mq' = Append(gprs_mq, m)
    /\ UNCHANGED <<modemVars, gsm_mode, gsm, stale, gprsVars, executed, altered, reportVars, serverVars,
                   frameVars, sent, faults>>

-----------------------------------------------------------------------------
(* The gprs thread *)

(***************************************************************************)
(* Nothing has come for a minute: a heartbeat.  By then the gsm thread,    *)
(* which looks every second, has read what had arrived, and nothing is on  *)
(* its way any more, or it is late.                                        *)
(***************************************************************************)
Heart ==
    /\ gprs = "recv" /\ gprs_mq = <<>>
    /\ modem # "off" /\ gsm_mode = "gprs" => rx = <<>>
    /\ FaultIf(modem = "data" /\ down # <<>>)
    /\ gprs_mq' = <<Alarm>>
    /\ UNCHANGED <<modemVars, gsm_mode, gsm, stale, gprsVars, executed, altered, reportVars, serverVars,
                   frameVars, sent, alarms>>

(* mutant: a full queue takes another mail *)
MutSendMail(m) == gprs_mq' = Append(gprs_mq, m)

(* send_gprs_mail: if the queue is full the mail is lost. *)
SendMail(m) == gprs_mq' = IF Len(gprs_mq) < MailMax THEN Append(gprs_mq, m) ELSE gprs_mq

(***************************************************************************)
(* process_gprs_set_...: a list with too many entries is passed over, an   *)
(* address is cut off and wrong digits become zero.  If the frame's data   *)
(* was wiped, nothing but zeros is set.                                    *)
(***************************************************************************)
CarryOut(c, whole) ==
    /\ executed' = executed \cup (IF whole THEN {c} \ (TooMany \cup Altered) ELSE {})
    /\ altered' = altered \cup (IF whole THEN {c} \cap Altered ELSE {c})

(***************************************************************************)
(* A command is carried out if its length is right; it is acknowledged,    *)
(* with its own order, in both cases.                                      *)
(***************************************************************************)
ParseCommand(c, right, whole) ==
    IF right THEN CarryOut(c, whole) /\ SendMail(<<"done", c>>)
    ELSE UNCHANGED <<executed, altered>> /\ SendMail(<<"failed", c>>)

(* mutant: a command that did not come alone is reported as done *)
MutRecvFrame(read) ==
    IF read # <<>> /\ Head(read)[1] = "command"
    THEN LET c == Head(read)[2]
         IN  /\ IF Len(read) = 1 THEN CarryOut(c, TRUE) ELSE UNCHANGED <<executed, altered>>
             /\ SendMail(<<"done", c>>)
    ELSE UNCHANGED mailVars

(* recv_gprs_frame: whatever was read is taken for one frame, so that only a command alone has the right length. *)
RecvFrame(read) ==
    IF read # <<>> /\ Head(read)[1] = "command"
    THEN ParseCommand(Head(read)[2], Len(read) = 1, TRUE)
    ELSE UNCHANGED mailVars

(* What remains of a sequence, in its order, when only some of its places are kept *)
Remaining(q, keep) ==
    LET n == Cardinality(keep)
    IN  {[i \in 1..n |-> q[at[i]]] :
            at \in {f \in [1..n -> keep] : \A i, j \in 1..n : i < j => f[i] < f[j]}}

(* What remains without the answers of some orders *)
NotOfOrder(q, os) == Remaining(q, {i \in DOMAIN q : q[i][1] = "ack" => q[i][2] \notin os})

(***************************************************************************)
(* send_gprs_frame: a request gets the next order, an acknowledgement has  *)
(* the command's.  No answer is on its way for a turn of the counter less  *)
(* one: by then it has arrived, or the connection is gone.                 *)
(***************************************************************************)
SendFrame ==
    /\ gprs = "recv" /\ gprs_mq # <<>>
    /\ gprs' = IF Head(gprs_mq) = Picture THEN "page" ELSE "wait"
    /\ gprs_mq' = Tail(gprs_mq)
    /\ \/ /\ Head(gprs_mq) = Alarm
          /\ request' = <<"alarm", gprs_order>>
          /\ gprs_order' = (gprs_order + 1) % Orders
          /\ down' \in NotOfOrder(down, {gprs_order, gprs_order'})
          /\ received' = FALSE /\ outcome' = "none"
       \/ /\ Head(gprs_mq) \notin {Alarm, Picture}
          /\ request' = Head(gprs_mq)
          /\ UNCHANGED <<gprs_order, down, received, outcome>>
       \/ /\ Head(gprs_mq) = Picture
          /\ UNCHANGED <<request, gprs_order, down, received, outcome>>
    /\ UNCHANGED <<modem, tcp, rx, gsm_mode, gsm, stale, error_counts, executed, altered, reportVars, told,
                   frameVars, sent, alarms, faults>>

(* Requests have a number, pages are the upload's; not every page has a response. *)
Numbered == request[1] = "alarm"
Page == request[1] \in {"page", "last"}
HasResponse == request[1] \in {"alarm", "last"}

(* mutant: any answer will do *)
MutAnswers(read) == Len(read) = 1 /\ Head(read)[1] = "ack"

(* Is what was read the answer to the request, alone and with its order? *)
Answers(read) == read = << <<"ack", request[2]>> >>

(* The frame and its response are freed. *)
Free == request' = Alarm /\ send_result' = -1 /\ response' = <<>>

(* The response is dealt with whatever it is, and compared with the request. *)
Judge ==
    /\ gprs = "report" /\ Numbered
    /\ outcome' = IF send_result = 1 /\ Answers(response) THEN "ok" ELSE "failed"
    /\ IF send_result = 1 THEN RecvFrame(response) ELSE UNCHANGED mailVars
    /\ gprs' = IF outcome' = "ok" THEN "recv" ELSE "failure"
    /\ error_counts' = IF outcome' = "ok" THEN 0 ELSE error_counts
    /\ Free
    /\ UNCHANGED <<modemVars, gsm_mode, gsm, stale, gprs_order, serverVars, frameVars, sent, alarms, faults>>

(* A frame without a response counts as sent, whatever the gsm thread says. *)
JudgeNothing ==
    /\ gprs = "report" /\ ~Numbered /\ ~Page
    /\ gprs' = "recv"
    /\ error_counts' = 0
    /\ Free
    /\ UNCHANGED <<modemVars, gsm_mode, gsm, stale, gprs_order, outcome, mailVars, serverVars, frameVars,
                   sent, alarms, faults>>

(* After too many failures the modem is switched off, if it can be. *)
Failure ==
    /\ gprs = "failure"
    /\ gprs' = "recv"
    /\ \/ /\ error_counts < ErrorLimit
          /\ error_counts' = error_counts + 1
          /\ UNCHANGED <<modem, tcp, down, faults>>
       \/ /\ error_counts >= ErrorLimit
          /\ error_counts' = 0
          /\ \/ Off /\ UNCHANGED faults
             \/ Fault /\ UNCHANGED <<modem, tcp, down>>
    /\ UNCHANGED <<rx, gsm_mode, gsm, stale, gprs_order, request, outcome, mailVars, reportVars, serverVars,
                   frameVars, sent, alarms>>

-----------------------------------------------------------------------------
(* The upload, by the gprs thread *)

(* send_picture_data: the next page, the last page once more or a lost one *)
UploadPage ==
    /\ gprs = "page"
    /\ gprs' = "wait"
    /\ request' \in {"page", "last"} \X {gprs_order}
    /\ UNCHANGED <<modemVars, gsm_mode, gsm, stale, gprs_order, error_counts, outcome, mailVars, reportVars,
                   serverVars, frameVars, sent, alarms, faults>>

(***************************************************************************)
(* What was read is in the upload's frame.  If nothing was, what is in it  *)
(* from before remains, but if the page was sent nothing has its length    *)
(* (a turned one is wrong in any case); an echo is read into it too.       *)
(***************************************************************************)
TakePage ==
    /\ gprs = "report" /\ Page
    /\ gprs' = "page"
    /\ \/ /\ HasResponse /\ send_result = 1
          /\ frame' = IF Head(response)[1] = "command"
                      THEN [held |-> {Head(response)[2]}, wiped |-> FALSE,
                            length |-> IF Len(response) = 1 THEN "right" ELSE "wrong"]
                      ELSE NoFrame
       \/ /\ HasResponse /\ send_result # 1
          /\ \/ frame' \in {frame, NoFrame}
             \/ frame.length = "right" /\ frame' = [frame EXCEPT !.length = "wrong", !.wiped = FALSE]
       \/ ~HasResponse /\ UNCHANGED frame
    /\ Free
    /\ UNCHANGED <<modemVars, gsm_mode, gsm, stale, gprs_order, error_counts, outcome, mailVars, serverVars, spoiled,
                   sent, alarms, faults>>

(***************************************************************************)
(* recv_gprs_frame on the upload's frame, after every page that has a      *)
(* response and again at the end.  It turns the bytes of the length round  *)
(* in the frame: the next time the length is wrong, and then right again.  *)
(***************************************************************************)
RecvHeld ==
    /\ gprs = "page"
    /\ \E c \in frame.held :
        /\ ParseCommand(c, frame.length = "right", ~frame.wiped)
        /\ spoiled' = IF frame.length = "turned" \/ frame.wiped THEN spoiled \cup {c} ELSE spoiled
    /\ frame' = [frame EXCEPT !.length = IF frame.length = "right" THEN "turned"
                                         ELSE IF frame.length = "turned" THEN "right" ELSE "wrong"]
    /\ UNCHANGED <<modemVars, gsm_mode, gsm, stale, gprsVars, reportVars, serverVars, sent, alarms, faults>>

(* The end of the upload's loop: the frame's data is set to zero, its length and command are not. *)
Wipe ==
    /\ gprs = "page" /\ frame.length # "wrong" /\ ~frame.wiped
    /\ frame' = [frame EXCEPT !.wiped = TRUE]
    /\ UNCHANGED <<modemVars, gsm_mode, gsm, stale, gprsVars, mailVars, reportVars, serverVars, spoiled,
                   sent, alarms,
                   faults>>

(***************************************************************************)
(* The upload has succeeded or failed and has used up an order; answers    *)
(* that are a turn old have been read by then.  The frame is a local       *)
(* variable that nothing initialises: the next upload finds it.            *)
(***************************************************************************)
EndUpload ==
    /\ gprs = "page"
    /\ gprs_order' = (gprs_order + 1) % Orders
    /\ down' \in NotOfOrder(down, {gprs_order'})
    /\ rx' \in NotOfOrder(rx, {gprs_order'})
    /\ \/ gprs' = "recv" /\ error_counts' = 0
       \/ gprs' = "failure" /\ UNCHANGED error_counts
    /\ UNCHANGED <<modem, tcp, gsm_mode, gsm, stale, request, outcome, mailVars, reportVars, serverVars, frameVars,
                   sent, alarms, faults>>

-----------------------------------------------------------------------------
(* The gsm thread *)

(* The mail's result and semaphore *)
Report(r, read) == gsm' = "top" /\ gprs' = "report" /\ send_result' = r /\ response' = read

(***************************************************************************)
(* gsm_mode_switch to command mode.  A modem in command mode echoes the    *)
(* plus signs.  If it misses them, anything else that arrives still passes *)
(* for its answer; only silence has it switched off, if it can be.         *)
(***************************************************************************)
ToCmd(unread) ==
    /\ gsm_mode' = "cmd"
    /\ rx' = <<>>
    /\ \/ modem # "off" /\ modem' = "cmd" /\ UNCHANGED <<tcp, down, faults>>
       \/ modem = "data" /\ Fault /\ unread = <<>> /\ Off
       \/ modem = "data" /\ Fault /\ UNCHANGED <<modem, tcp, down>>
       \/ modem = "off" /\ UNCHANGED <<modem, tcp, down, faults>>

(* Another thread's mail: its commands read on until they are answered. *)
OtherMail ==
    /\ gsm = "top" /\ modem # "off"
    /\ \/ gsm_mode = "gprs" /\ ToCmd(rx)
       \/ gsm_mode = "cmd" /\ rx' = <<>> /\ UNCHANGED <<modem, tcp, down, gsm_mode, faults>>
    /\ UNCHANGED <<gsm, stale, gprsVars, mailVars, reportVars, serverVars, frameVars, sent, alarms>>

(***************************************************************************)
(* A frame's mail.  In command mode the connection is resumed if there is  *)
(* one, else set up and authenticated.  A modem that is not in command     *)
(* mode understands none of it.                                            *)
(***************************************************************************)
SwitchMode ==
    /\ gsm = "top" /\ modem # "off" /\ gprs = "wait"
    /\ \/ /\ gsm_mode = "gprs"
          /\ gsm' = "write"
          /\ UNCHANGED <<modemVars, gsm_mode, gprs, reportVars, faults>>
       \/ /\ gsm_mode = "cmd" /\ modem = "cmd" /\ tcp
          /\ modem' = "data" /\ gsm_mode' = "gprs" /\ gsm' = "write" /\ rx' = <<>>
          /\ UNCHANGED <<tcp, down, gprs, reportVars, faults>>
       \/ /\ gsm_mode = "cmd" /\ modem = "cmd"
          /\ \/ FaultIf(tcp) /\ down' = <<AuthAnswer>>
             \/ ~tcp /\ Fault /\ down' = <<>>
          /\ modem' = "data" /\ tcp' = TRUE /\ gsm_mode' = "gprs" /\ gsm' = "auth" /\ rx' = <<>>
          /\ UNCHANGED <<gprs, reportVars>>
       \/ /\ gsm_mode = "cmd" /\ FaultIf(modem = "cmd")
          /\ rx' = <<>>
          /\ Report(-1, <<>>)
          /\ UNCHANGED <<modem, tcp, down, gsm_mode>>
    /\ UNCHANGED <<stale, gprs_order, error_counts, request, outcome, mailVars, serverVars, frameVars, sent, alarms>>

(* send_gprs_auth_frame takes what comes within ten seconds. *)
AuthRead ==
    /\ gsm = "auth"
    /\ gsm' = "write"
    /\ FaultIf(rx = <<>> /\ down # <<>>)
    /\ RecvFrame(rx)
    /\ rx' = <<>>
    /\ UNCHANGED <<modem, tcp, down, gsm_mode, stale, gprsVars, reportVars, serverVars, frameVars, sent, alarms>>

(***************************************************************************)
(* A modem in command mode sends the frame back, up to a carriage return   *)
(* in it.  Noise is any number of bytes that mean nothing.                 *)
(***************************************************************************)
Echoed(x) == IF x = Noise /\ rx # <<>> /\ rx[Len(rx)] = Noise THEN rx ELSE Append(rx, x)
Echoes ==
    IF Numbered /\ request[2] # CrOrder THEN {<<"echo", request[2]>>}
    ELSE IF Page /\ HasResponse THEN {<<"echo", request[2]>>, Noise}
    ELSE {Noise}

(* The frame is written: to the server, or to a modem in command mode, which echoes it. *)
WriteFrame ==
    /\ gsm = "write"
    /\ \/ /\ modem = "data"
          /\ \/ /\ Numbered
                /\ received' = TRUE
                /\ \/ down' = Append(down, <<"ack", request[2]>>) /\ UNCHANGED faults
                   \/ Fault /\ UNCHANGED down
                /\ UNCHANGED told
             \/ /\ Page /\ HasResponse
                /\ down' = Append(down, Verdict)
                /\ UNCHANGED <<received, told, faults>>
             \/ /\ Page /\ ~HasResponse
                /\ UNCHANGED <<received, told, down, faults>>
             \/ /\ ~Numbered /\ ~Page
                /\ told' = [told EXCEPT ![request[2]] = request[1]]
                /\ UNCHANGED <<received, down, faults>>
             \/ Fault /\ UNCHANGED <<received, told, down>>
          /\ UNCHANGED rx
       \/ /\ modem = "cmd"
          /\ rx' \in {Echoed(x) : x \in Echoes}
          /\ UNCHANGED <<down, received, told, faults>>
       \/ modem = "off" /\ UNCHANGED <<rx, down, received, told, faults>>
    /\ \/ HasResponse /\ gsm' = "read" /\ UNCHANGED <<gprs, reportVars>>
       \/ ~HasResponse /\ Report(1, <<>>)
    /\ UNCHANGED <<modem, tcp, gsm_mode, stale, gprs_order, error_counts, request, outcome, mailVars,
                   frameVars, sent, alarms>>

(* Ten seconds without a byte *)
NoResponse ==
    /\ gsm = "read" /\ rx = <<>>
    /\ FaultIf(modem = "data" /\ down # <<>>)
    /\ Report(-1, <<>>)
    /\ UNCHANGED <<modemVars, gsm_mode, stale, gprs_order, error_counts, request, outcome, mailVars,
                   serverVars, frameVars, sent, alarms>>

(* mutant: the echo is taken for a response *)
MutEcho == FALSE

(* Nothing but the request itself came back. *)
Echo == rx = << <<"echo", request[2]>> >>

(* The echo tells that the modem is in command mode; CLOSED is not looked for here. *)
ReadResponse ==
    /\ gsm = "read" /\ rx # <<>>
    /\ \/ /\ Echo
          /\ ToCmd(<<>>)
          /\ Report(-1, <<>>)
       \/ /\ ~Echo
          /\ rx' = <<>>
          /\ Report(1, rx)
          /\ UNCHANGED <<modem, tcp, down, gsm_mode, faults>>
    /\ UNCHANGED <<stale, gprs_order, error_counts, request, outcome, mailVars, serverVars, frameVars, sent, alarms>>

(***************************************************************************)
(* No mail for a second: what has arrived is read, and CLOSED looked for   *)
(* in the whole of the buffer, of which the frame may fill only a part.    *)
(***************************************************************************)
IdleRead ==
    /\ gsm = "top" /\ modem # "off" /\ gprs # "wait"
    /\ gsm_mode = "gprs" /\ rx # <<>>
    /\ \E i \in 0..Len(rx) :
        \/ /\ i > 0 /\ rx[i] = Closed
           /\ stale' = (i > 1)
           /\ ToCmd(<<>>)
           /\ UNCHANGED mailVars
        \/ /\ i = 0 /\ stale /\ \A j \in DOMAIN rx : rx[j] # Closed
           /\ UNCHANGED stale
           /\ ToCmd(<<>>)
           /\ UNCHANGED mailVars
        \/ /\ i = 0 /\ \A j \in DOMAIN rx : rx[j] # Closed
           /\ stale' = FALSE
           /\ RecvFrame(rx)
           /\ rx' = <<>>
           /\ UNCHANGED <<modem, tcp, down, gsm_mode, faults>>
    /\ UNCHANGED <<gsm, gprsVars, reportVars, serverVars, frameVars, sent, alarms>>

(* The status pin shows that the modem is off: it is reset, however often that takes. *)
Reset ==
    /\ gsm = "top" /\ modem = "off"
    /\ \/ modem' = "cmd" /\ rx' = <<>> /\ UNCHANGED faults
       \/ Fault /\ UNCHANGED <<modem, rx>>
    /\ UNCHANGED <<tcp, down, gsm_mode, gsm, stale, gprsVars, mailVars, reportVars, serverVars, frameVars,
                   sent, alarms>>

-----------------------------------------------------------------------------
Upload == UploadPage \/ TakePage \/ RecvHeld \/ Wipe \/ EndUpload
Gprs == Heart \/ SendFrame \/ Judge \/ JudgeNothing \/ Failure \/ Upload
Gsm == SwitchMode \/ AuthRead \/ WriteFrame \/ NoResponse \/ ReadResponse \/ IdleRead \/ Reset

Next ==
    \/ Gprs \/ Gsm
    \/ ServerCommand \/ Deliver \/ Close \/ PowerLoss \/ NewAlarm \/ OtherMail

Spec == Init /\ [][Next]_vars

(***************************************************************************)
(* Both threads run on, and what the server sends arrives.  Nothing makes  *)
(* a fault, a command, an alarm or another thread's mail happen.  An       *)
(* upload comes to its end (Terminates of PictureUpload).                  *)
(***************************************************************************)
FairSpec == Spec /\ WF_vars(Gprs) /\ WF_vars(Gsm) /\ WF_vars(Deliver) /\ SF_vars(EndUpload)

-----------------------------------------------------------------------------
(* Properties *)

TypeOK ==
    /\ modem \in {"off", "cmd", "data"} /\ tcp \in BOOLEAN /\ (modem = "data" => tcp)
    /\ rx \in Seq(Item) /\ down \in Seq(Item) /\ response \in Seq(Item)
    /\ gsm_mode \in {"cmd", "gprs"} /\ gsm \in {"top", "auth", "write", "read"}
    /\ gprs \in {"recv", "wait", "report", "failure", "page"}
    /\ gprs_mq \in Seq(Mail) /\ Len(gprs_mq) <= MailMax
    /\ gprs_order \in Order /\ error_counts \in 0..ErrorLimit
    /\ request \in (Mail \ {Picture}) \cup {"alarm", "page", "last"} \X Order
    /\ send_result \in {1, -1} /\ outcome \in {"none", "ok", "failed"}
    /\ stale \in BOOLEAN /\ received \in BOOLEAN
    /\ executed \subseteq sent /\ altered \subseteq sent /\ spoiled \subseteq sent
    /\ frame \in [held : SUBSET sent, length : {"right", "turned", "wrong"}, wiped : BOOLEAN]
    /\ sent \subseteq Command
    /\ told \in [Command -> {"nothing", "done", "failed"}]

(***************************************************************************)
(* A request that counts as answered has reached the server: though orders *)
(* come round again, answers come late and are left over in the receive    *)
(* buffer, the answer to an earlier request is never taken for its own.    *)
(***************************************************************************)
AnsweredMeansReceived == outcome = "ok" => received

(***************************************************************************)
(* The server is told of success only for a command that was carried out,  *)
(* perhaps not as it was meant, or passed over for having too many         *)
(* entries, and of failure only for one that was not carried out, wherever *)
(* it was read: instead of an answer, after the authentication, in between *)
(* or into an upload's frame.  The exception are commands which the upload *)
(* parses again: they may be carried out and reported as failed too, and   *)
(* set what the wiped frame holds.  No other command but those that cannot *)
(* be carried out as they are is carried out otherwise.                    *)
(***************************************************************************)
ToldTheTruth ==
    \A c \in Command :
        /\ told[c] = "done" => c \in executed \cup altered \cup TooMany
        /\ told[c] = "failed" /\ c \notin spoiled => c \notin executed \cup altered
        /\ c \in altered => c \in Altered \cup spoiled

Holds(q, f) == \E i \in DOMAIN q : q[i] = f
HoldsCommand(q, c) == Holds(q, <<"command", c>>)
HoldsAnswer(q, o) == Holds(q, <<"ack", o>>)

(* A command that has not been looked at, and one that is to be acknowledged *)
Arriving(c) == HoldsCommand(down, c) \/ HoldsCommand(rx, c) \/ HoldsCommand(response, c)
Mailed(r, c) == Holds(gprs_mq, <<r, c>>) \/ request = <<r, c>>

(* One of which nothing is known *)
Unread(c) ==
    /\ c \notin executed /\ c \notin altered /\ told[c] = "nothing"
    /\ ~Mailed("done", c) /\ ~Mailed("failed", c)

(***************************************************************************)
(* The gsm thread is in the middle of a frame only while the gprs thread   *)
(* waits for it, and reads only for one with a response; a request bears   *)
(* the order before the next one until it has been judged, a page the next *)
(* one, and only then is there something in the response.                  *)
(***************************************************************************)
Turns ==
    /\ gsm # "top" => gprs = "wait"
    /\ gsm = "read" => HasResponse
    /\ gprs \in {"wait", "report"} /\ Numbered =>
            request[2] \in Order /\ gprs_order = (request[2] + 1) % Orders
    /\ Page => request[2] \in Order
    /\ response # <<>> => gprs = "report" /\ HasResponse
    /\ gprs = "report" /\ HasResponse /\ send_result = 1 => response # <<>>

(* A command that arrives does so in one place, *)
Once(q) == \A i, j \in DOMAIN q : q[i][1] = "command" /\ q[i] = q[j] => i = j
Apart ==
    /\ Once(down)
    /\ \A c \in Command : /\ ~(HoldsCommand(down, c) /\ HoldsCommand(rx, c))
                          /\ ~(HoldsCommand(down, c) /\ HoldsCommand(response, c))
                          /\ ~(HoldsCommand(rx, c) /\ HoldsCommand(response, c))

(* and until it is looked at nothing is known of it, *)
Unknown == \A c \in Command : Arriving(c) => c \in sent /\ Unread(c)

(* not even in the upload's frame, unless it was parsed there; with a wrong length it is not carried out. *)
HeldOnce ==
    /\ \A c, d \in frame.held : c = d
    /\ \A c \in frame.held :
            /\ ~Arriving(c)
            /\ frame.length = "right" /\ c \notin spoiled => Unread(c)
            /\ frame.length = "wrong" /\ c \notin spoiled => c \notin executed \cup altered

(* The acknowledgement that waits to be sent is the truth. *)
MailedTheTruth ==
    \A c \in Command :
        /\ Mailed("done", c) => c \in executed \cup altered \cup TooMany
        /\ Mailed("failed", c) /\ c \notin spoiled => c \notin executed \cup altered
        /\ Mailed("done", c) \/ Mailed("failed", c) \/ told[c] # "nothing" => c \in sent

(* An answer with the last order: the server has got that request. *)
AnswersOld(q) ==
    \A o \in Order : HoldsAnswer(q, o) /\ gprs_order = (o + 1) % Orders => received

(* No answer has the next order, except one that is read before that is used. *)
AnswersFit ==
    /\ ~HoldsAnswer(down, gprs_order)
    /\ HoldsAnswer(rx, gprs_order) => gprs = "wait" /\ Numbered

(* What holds in every state and is kept by every step *)
LinkInv ==
    /\ TypeOK /\ Turns
    /\ Apart /\ Unknown /\ HeldOnce /\ MailedTheTruth /\ ToldTheTruth
    /\ AnswersOld(down) /\ AnswersOld(rx) /\ AnswersOld(response) /\ AnswersFit
    /\ AnsweredMeansReceived

(***************************************************************************)
(* After the last fault the link recovers for good, whatever the threads   *)
(* and the modem then think of each other: from some point on heartbeats   *)
(* are answered and none fails.                                            *)
(***************************************************************************)
Recovers == []<>(outcome = "ok") /\ <>[](outcome # "failed")
=============================================================================
