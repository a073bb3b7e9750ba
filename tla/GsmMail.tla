------------------------------- MODULE GsmMail -------------------------------
(***************************************************************************)
(* The mail interface of the modem.  One thread, gsm_process_thread_entry, *)
(* owns the modem; the others put a mail on mq_gsm and wait on a semaphore *)
(* that the gsm thread releases once it has written the result through a   *)
(* pointer into the sender's stack.  mutex_gsm_mail_sequence keeps the     *)
(* mails of one client together; pic_file_mutex, taken inside it by the    *)
(* MMS and GPRS threads and on its own by the camera thread, guards the    *)
(* picture file.                                                           *)
(*                                                                         *)
(* The modem's answers are abstracted to success and failure and are       *)
(* arbitrary; the contents of a mail are abstracted to its sender, its     *)
(* mode and whether an answer from the server is expected.                 *)
(***************************************************************************)
EXTENDS Integers, Sequences, FiniteSets

CONSTANTS Sms, Local, Aip, Mms, Gprs,  \* the threads that use the modem, by the code they run
          Shell,                       \* the finsh console, which takes no mutex
          Photo,                       \* the camera thread
          GSM_MAIL_MAX_MSGS,           \* capacity of mq_gsm
          MaxMails,                    \* bound on the counted mails of a long session (MMS, AIP, picture)
          ErrorLimit,                  \* consecutive failures the gprs thread tolerates
          AuthMails,                   \* can the gprs thread be mailed ALARM_TYPE_GPRS_AUTH?
          NULL

Locking == Sms \cup Local \cup Aip \cup Mms \cup Gprs
Client == Locking \cup Shell
Thread == Client \cup Photo

ASSUME KindsAssumption ==
    /\ NULL \notin Thread
    /\ Locking \cap Shell = {}
    /\ Client \cap Photo = {}
    /\ Gprs \cap (Sms \cup Local \cup Aip \cup Mms) = {}
    /\ IsFiniteSet(Shell)

(* One slot for the owner of the mutex and one for each console. *)
ASSUME QueueAssumption ==
    /\ GSM_MAIL_MAX_MSGS \in Nat
    /\ Cardinality(Shell) < GSM_MAIL_MAX_MSGS

ASSUME BoundsAssumption == MaxMails \in Nat /\ ErrorLimit \in Nat /\ AuthMails \in BOOLEAN

Mutex == {"gsm", "pic"}
Mode == {"CMD", "GPRS"}
Mail == [client : Client, mode : Mode, has_response : BOOLEAN]
NoSem == -1

VARIABLES
    owner,         \* per mutex: the thread that holds it, or NULL
    waiters,       \* per mutex: the suspended threads, first come first served
    pc,            \* per thread: where it is
    mails,         \* per client: calls made in the current session
    sem,           \* per client: value of its result semaphore, NoSem if it does not exist
    result,        \* per client: send_result, the variable mail.result points to
    has_response,  \* per client: the flag of the last mail it built
    error_counts,  \* per gprs thread: consecutive failures
    endless,       \* the clients whose session has come to a loop that need not end
    created,       \* mq_gsm # RT_NULL
    mq_gsm,        \* the queue
    serving,       \* the mail the gsm thread works on: <<>> or <<mail>>
    gpc,           \* where the gsm thread is
    gsm_mode,      \* what the gsm thread believes of the modem
    gsm_status     \* the modem's status pin

mutexVars == <<owner, waiters>>
clientVars == <<mails, sem, result, has_response, error_counts, endless>>
queueVars == <<created, mq_gsm, serving>>
gsmVars == <<gpc, gsm_mode, gsm_status>>
vars == <<mutexVars, pc, clientVars, queueVars, gsmVars>>

ClientPC == {"idle", "wait_gsm", "session", "wait_pic", "pic", "wait_sem", "disable"}
GsmPC == {"start", "reset", "poll", "recv", "switch", "execute", "release"}

Init ==
    /\ owner = [m \in Mutex |-> NULL]
    /\ waiters = [m \in Mutex |-> <<>>]
    /\ pc = [t \in Thread |-> "idle"]
    /\ mails = [c \in Client |-> 0]
    /\ sem = [c \in Client |-> NoSem]
    /\ result = [c \in Client |-> "fail"]
    /\ has_response = [c \in Client |-> FALSE]
    /\ error_counts = [c \in Gprs |-> 0]
    /\ endless = {}
    /\ created = FALSE
    /\ mq_gsm = <<>>
    /\ serving = <<>>
    /\ gpc = "start"
    /\ gsm_mode = "CMD"
    /\ gsm_status = 0

-----------------------------------------------------------------------------
(* RT-Thread mutexes and queues. *)

(***************************************************************************)
(* rt_mutex_take with RT_WAITING_FOREVER: thread t goes on at `inside', or *)
(* joins the suspended threads.                                            *)
(***************************************************************************)
rt_mutex_take(m, t, blocked, inside) ==
    \/ /\ owner[m] = NULL
       /\ owner' = [owner EXCEPT ![m] = t]
       /\ pc' = [pc EXCEPT ![t] = inside]
       /\ UNCHANGED waiters
    \/ /\ owner[m] # NULL
       /\ waiters' = [waiters EXCEPT ![m] = Append(@, t)]
       /\ pc' = [pc EXCEPT ![t] = blocked]
       /\ UNCHANGED owner

(* mutant: the lock is freed and every waiter left to try its luck *)
MutReleaseWithoutHandOver(m) ==
    /\ owner' = [owner EXCEPT ![m] = NULL]
    /\ UNCHANGED waiters

(* rt_mutex_release hands the mutex over to the first suspended thread. *)
rt_mutex_release(m) ==
    IF waiters[m] = <<>>
    THEN /\ owner' = [owner EXCEPT ![m] = NULL]
         /\ UNCHANGED waiters
    ELSE /\ owner' = [owner EXCEPT ![m] = Head(waiters[m])]
         /\ waiters' = [waiters EXCEPT ![m] = Tail(@)]

IsFull == Len(mq_gsm) >= GSM_MAIL_MAX_MSGS

rt_mq_send(mail) == mq_gsm' = Append(mq_gsm, mail)
rt_mq_urgent(mail) == mq_gsm' = <<mail>> \o mq_gsm

-----------------------------------------------------------------------------
(* The clients. *)

(* mutant: a client that forgets the mutex *)
MutBeginWithoutMutex(c) ==
    /\ c \in Locking
    /\ pc[c] = "idle"
    /\ pc' = [pc EXCEPT ![c] = "session"]
    /\ UNCHANGED <<mutexVars, clientVars, queueVars, gsmVars>>

(* A mail of its own queue, or a ring, makes a thread start a session. *)
Begin(c) ==
    /\ c \in Locking
    /\ pc[c] = "idle"
    /\ rt_mutex_take("gsm", c, "wait_gsm", "session")
    /\ UNCHANGED <<clientVars, queueVars, gsmVars>>

(* send_cmd_mail typed at the console: no mutex. *)
ShellBegin(c) ==
    /\ c \in Shell
    /\ pc[c] = "idle"
    /\ pc' = [pc EXCEPT ![c] = "session"]
    /\ UNCHANGED <<mutexVars, clientVars, queueVars, gsmVars>>

(* A suspended thread that was handed the mutex runs again. *)
Resume(t) ==
    /\ \/ /\ pc[t] = "wait_gsm" /\ owner["gsm"] = t
          /\ pc' = [pc EXCEPT ![t] = "session"]
       \/ /\ pc[t] = "wait_pic" /\ owner["pic"] = t
          /\ pc' = [pc EXCEPT ![t] = "pic"]
    /\ UNCHANGED <<mutexVars, clientVars, queueVars, gsmVars>>

(***************************************************************************)
(* How many mails one session sends: one per SMS attempt, frame or console *)
(* command; AT_RING, AT_CLCC and ATA or ATH5 for a ring; the command       *)
(* sequences of an MMS, a download or a picture are cut at MaxMails,       *)
(* unless the session has come to a loop without end.                      *)
(***************************************************************************)
SessionMails(c) ==
    IF c \in Sms \cup Shell THEN 1 ELSE IF c \in Local THEN 3 ELSE MaxMails

MoreMails(c) == mails[c] < SessionMails(c) \/ c \in endless
CountMail(c) == mails' = [mails EXCEPT ![c] = IF @ < SessionMails(c) THEN @ + 1 ELSE @]

(***************************************************************************)
(* A loop that need not end.  In send_mms: the size was taken by stat      *)
(* before the session had the picture file, and a read at the end of a     *)
(* shorter one, or after a card error, brings st_size no nearer to zero.   *)
(* In get_aip: the server goes on answering ranges.  In the upload: the    *)
(* server goes on asking for pages.                                        *)
(***************************************************************************)
Loop(c) ==
    /\ \/ c \in Mms \cup Gprs /\ pc[c] = "pic"
       \/ c \in Aip /\ pc[c] = "session"
    /\ c \notin endless
    /\ endless' = endless \cup {c}
    /\ UNCHANGED <<mutexVars, pc, mails, sem, result, has_response, error_counts, queueVars, gsmVars>>

(* The outcomes of send_cmd_mail and of the send in sms_pdu_ucs_send. *)
SendCmd(c) ==
    /\ c \notin Gprs
    /\ pc[c] \in {"session", "pic"}
    /\ MoreMails(c)
    /\ CountMail(c)
    /\ has_response' = [has_response EXCEPT ![c] = FALSE]
    /\ \/ /\ ~created                            \* the new semaphore leaks, nobody refers to it
          /\ sem' = [sem EXCEPT ![c] = NoSem]
          /\ result' = [result EXCEPT ![c] = "fail"]
          /\ UNCHANGED <<pc, mq_gsm>>
       \/ /\ created /\ IsFull
          /\ sem' = [sem EXCEPT ![c] = NoSem]
          /\ result' = [result EXCEPT ![c] = "fail"]
          /\ UNCHANGED <<pc, mq_gsm>>
       \/ /\ created /\ ~IsFull
          /\ sem' = [sem EXCEPT ![c] = 0]
          /\ result' = [result EXCEPT ![c] = "fail"]
          /\ rt_mq_send([client |-> c, mode |-> "CMD", has_response |-> FALSE])
          /\ pc' = [pc EXCEPT ![c] = "wait_sem"]
    /\ UNCHANGED <<mutexVars, error_counts, endless, created, serving, gsmVars>>

(***************************************************************************)
(* send_gprs_frame: one frame.  An authentication frame, which expects no  *)
(* response, is put ahead of the queue; no code of the build mails one,    *)
(* but the console can.                                                    *)
(***************************************************************************)
SendFrame(c, expects, urgent) ==
    LET mail == [client |-> c, mode |-> "GPRS", has_response |-> expects]
    IN  /\ c \in Gprs
        /\ urgent => AuthMails /\ ~expects
        /\ pc[c] = "session"
        /\ mails[c] = 0
        /\ mails' = [mails EXCEPT ![c] = 1]
        /\ has_response' = [has_response EXCEPT ![c] = expects]
        /\ result' = [result EXCEPT ![c] = "fail"]
        /\ \/ /\ ~created
              /\ sem' = [sem EXCEPT ![c] = 0]
              /\ UNCHANGED <<pc, mq_gsm>>
           \/ /\ created /\ IsFull
              /\ sem' = [sem EXCEPT ![c] = NoSem]
              /\ UNCHANGED <<pc, mq_gsm>>
           \/ /\ created /\ ~IsFull
              /\ sem' = [sem EXCEPT ![c] = 0]
              /\ IF urgent THEN rt_mq_urgent(mail) ELSE rt_mq_send(mail)
              /\ pc' = [pc EXCEPT ![c] = "wait_sem"]
        /\ UNCHANGED <<mutexVars, error_counts, endless, created, serving, gsmVars>>

(* mutant: the picture file is taken before the session *)
MutTakePicFirst(c) ==
    /\ c \in Mms \cup Gprs
    /\ pc[c] = "idle"
    /\ rt_mutex_take("pic", c, "wait_pic", "pic")
    /\ UNCHANGED <<clientVars, queueVars, gsmVars>>

(***************************************************************************)
(* Both users of the picture file open it inside their session.  (In an    *)
(* MMS the section counts as one of the session's calls.)                  *)
(***************************************************************************)
TakePic(c) ==
    /\ \/ /\ c \in Mms /\ mails[c] < MaxMails
          /\ mails' = [mails EXCEPT ![c] = @ + 1]
       \/ /\ c \in Gprs /\ mails[c] = 0
          /\ UNCHANGED mails
    /\ pc[c] = "session"
    /\ rt_mutex_take("pic", c, "wait_pic", "pic")
    /\ UNCHANGED <<sem, result, has_response, error_counts, endless, queueVars, gsmVars>>

(***************************************************************************)
(* send_picture_data and send_page_pic_data do not look at what rt_mq_send *)
(* returns: they wait for an answer even if the mail was not queued.  One  *)
(* semaphore serves all the pages.                                         *)
(***************************************************************************)
SendPage(c, expects) ==
    /\ c \in Gprs
    /\ pc[c] = "pic"
    /\ created
    /\ MoreMails(c)
    /\ CountMail(c)
    /\ has_response' = [has_response EXCEPT ![c] = expects]
    /\ sem' = [sem EXCEPT ![c] = IF mails[c] = 0 THEN 0 ELSE @]
    /\ IF IsFull THEN UNCHANGED mq_gsm
                 ELSE rt_mq_send([client |-> c, mode |-> "GPRS", has_response |-> expects])
    /\ pc' = [pc EXCEPT ![c] = "wait_sem"]
    /\ UNCHANGED <<mutexVars, result, error_counts, endless, created, serving, gsmVars>>

(***************************************************************************)
(* The upload ends: at once when there is no picture or no queue, or after *)
(* some pages, with whatever send_result says.                             *)
(***************************************************************************)
EndUpload(c) ==
    /\ c \in Gprs
    /\ pc[c] = "pic"
    /\ IF mails[c] = 0
       THEN result' = [result EXCEPT ![c] = "fail"]
       ELSE \E r \in {"ok", "fail"} : result' = [result EXCEPT ![c] = r]
    /\ mails' = [mails EXCEPT ![c] = IF @ = 0 THEN 1 ELSE @]
    /\ sem' = [sem EXCEPT ![c] = NoSem]
    /\ endless' = endless \ {c}
    /\ rt_mutex_release("pic")
    /\ pc' = [pc EXCEPT ![c] = "session"]
    /\ UNCHANGED <<has_response, error_counts, queueVars, gsmVars>>

(***************************************************************************)
(* send_mms has handed the picture to the modem, or could not open it, and *)
(* gives the file up.  Its loop has no other exit.                         *)
(***************************************************************************)
MmsReleasePic(c) ==
    /\ c \in Mms \ endless
    /\ pc[c] = "pic"
    /\ rt_mutex_release("pic")
    /\ pc' = [pc EXCEPT ![c] = "session"]
    /\ UNCHANGED <<clientVars, queueVars, gsmVars>>

(* mutant: the wait for the answer has a timeout *)
MutTakeResultWithTimeout(c) ==
    /\ pc[c] = "wait_sem"
    /\ sem' = [sem EXCEPT ![c] = NoSem]
    /\ pc' = [pc EXCEPT ![c] = IF owner["pic"] = c THEN "pic" ELSE "session"]
    /\ UNCHANGED <<mutexVars, mails, result, has_response, error_counts, endless, queueVars, gsmVars>>

(***************************************************************************)
(* rt_sem_take returns, and the sender judges the answer.  For a frame     *)
(* that needs no response the result is 1 whatever the gsm thread wrote;   *)
(* for one that does, the response is matched with the request as well.    *)
(* The semaphore is deleted, except between the pages of a picture.        *)
(***************************************************************************)
TakeResult(c) ==
    LET uploading == c \in Gprs /\ owner["pic"] = c
    IN  /\ pc[c] = "wait_sem"
        /\ sem[c] > 0
        /\ sem' = [sem EXCEPT ![c] = IF uploading THEN @ - 1 ELSE NoSem]
        /\ IF c \in Gprs /\ ~uploading
           THEN \E r \in {"ok", "fail"} :
                  /\ ~has_response[c] => r = "ok"
                  /\ has_response[c] /\ result[c] = "fail" => r = "fail"
                  /\ result' = [result EXCEPT ![c] = r]
           ELSE UNCHANGED result
        /\ pc' = [pc EXCEPT ![c] = IF owner["pic"] = c THEN "pic" ELSE "session"]
        /\ UNCHANGED <<mutexVars, mails, has_response, error_counts, endless, queueVars, gsmVars>>

(* The sender's local variables go out of scope with its session. *)
LocalsDie(c) ==
    /\ mails' = [mails EXCEPT ![c] = 0]
    /\ result' = [result EXCEPT ![c] = "fail"]
    /\ has_response' = [has_response EXCEPT ![c] = FALSE]
    /\ endless' = endless \ {c}

(* A session of any thread but the gprs thread ends; a download, whenever a command fails. *)
Finish(c) ==
    /\ c \in Client \ Gprs
    /\ pc[c] = "session"
    /\ c \in Sms \cup Local \cup Shell => mails[c] > 0
    /\ c \in endless => result[c] = "fail"
    /\ IF c \in Shell THEN UNCHANGED mutexVars ELSE rt_mutex_release("gsm")
    /\ pc' = [pc EXCEPT ![c] = "idle"]
    /\ LocalsDie(c)
    /\ UNCHANGED <<sem, error_counts, queueVars, gsmVars>>

(* The gprs thread counts consecutive failures before it ends its session. *)
FinishGprs(c) ==
    /\ c \in Gprs
    /\ pc[c] = "session"
    /\ mails[c] > 0
    /\ error_counts' = [error_counts EXCEPT ![c] = IF result[c] = "ok" THEN 0 ELSE @ + 1]
    /\ IF error_counts'[c] > ErrorLimit
       THEN /\ pc' = [pc EXCEPT ![c] = "disable"]
            /\ UNCHANGED mutexVars
       ELSE /\ pc' = [pc EXCEPT ![c] = "idle"]
            /\ rt_mutex_release("gsm")
    /\ LocalsDie(c)
    /\ UNCHANGED <<sem, queueVars, gsmVars>>

(* mutant: the counter is not reset *)
MutDisableKeepsCount(c) ==
    /\ c \in Gprs
    /\ pc[c] = "disable"
    /\ gsm_status' \in {0, gsm_status}
    /\ rt_mutex_release("gsm")
    /\ pc' = [pc EXCEPT ![c] = "idle"]
    /\ UNCHANGED <<clientVars, queueVars, gpc, gsm_mode>>

(* Too many failures: it switches the modem off behind the gsm thread's back. *)
Disable(c) ==
    /\ c \in Gprs
    /\ pc[c] = "disable"
    /\ gsm_status' \in {0, gsm_status}
    /\ error_counts' = [error_counts EXCEPT ![c] = 0]
    /\ rt_mutex_release("gsm")
    /\ pc' = [pc EXCEPT ![c] = "idle"]
    /\ UNCHANGED <<mails, sem, result, has_response, endless, queueVars, gpc, gsm_mode>>

(* The camera thread writes the picture file. *)
PhotoBegin(t) ==
    /\ t \in Photo
    /\ pc[t] = "idle"
    /\ rt_mutex_take("pic", t, "wait_pic", "pic")
    /\ UNCHANGED <<clientVars, queueVars, gsmVars>>

PhotoEnd(t) ==
    /\ t \in Photo
    /\ pc[t] = "pic"
    /\ rt_mutex_release("pic")
    /\ pc' = [pc EXCEPT ![t] = "idle"]
    /\ UNCHANGED <<clientVars, queueVars, gsmVars>>

-----------------------------------------------------------------------------
(* The gsm thread. *)

(* at_command_map_init and rt_mq_create *)
GsmStart ==
    /\ gpc = "start"
    /\ created' = TRUE
    /\ gpc' = "reset"
    /\ UNCHANGED <<mutexVars, pc, clientVars, mq_gsm, serving, gsm_mode, gsm_status>>

(* gsm_reset, twice if need be, and gsm_init_process succeed. *)
GsmResetSuccess ==
    /\ gpc = "reset"
    /\ gsm_status' = 1
    /\ gpc' = "poll"
    /\ UNCHANGED <<mutexVars, pc, clientVars, queueVars, gsm_mode>>

(* They do not: the loop tries again, after 300 s if the modem did not start. *)
GsmResetFailure ==
    /\ gpc = "reset"
    /\ gsm_status' \in {0, 1}
    /\ UNCHANGED <<mutexVars, pc, clientVars, queueVars, gpc, gsm_mode>>

(* mutant: in data mode the queue is not looked at *)
MutPollIgnoresQueueInDataMode ==
    /\ gpc = "poll"
    /\ gpc' = IF gsm_status = 1 THEN IF gsm_mode = "CMD" THEN "recv" ELSE "poll" ELSE "reset"
    /\ UNCHANGED <<mutexVars, pc, clientVars, queueVars, gsm_mode, gsm_status>>

(* The status pin decides between the queue and the reset loop. *)
GsmPoll ==
    /\ gpc = "poll"
    /\ gpc' = IF gsm_status = 1 THEN "recv" ELSE "reset"
    /\ UNCHANGED <<mutexVars, pc, clientVars, queueVars, gsm_mode, gsm_status>>

GsmRecv ==
    /\ gpc = "recv"
    /\ mq_gsm # <<>>
    /\ serving' = <<Head(mq_gsm)>>
    /\ mq_gsm' = Tail(mq_gsm)
    /\ gpc' = "switch"
    /\ UNCHANGED <<mutexVars, pc, clientVars, created, gsm_mode, gsm_status>>

(***************************************************************************)
(* gsm_mode_switch.  Into data mode: by ATO on a live connection or by     *)
(* setting up a new one.  Out of data mode: "+++"; a modem that does not   *)
(* answer it is switched off.                                              *)
(***************************************************************************)
gsm_mode_switch(new_mode, ok) ==
    \/ /\ gsm_mode = new_mode
       /\ ok
       /\ UNCHANGED <<gsm_mode, gsm_status>>
    \/ /\ gsm_mode = "CMD" /\ new_mode = "GPRS"
       /\ gsm_mode' = IF ok THEN "GPRS" ELSE "CMD"
       /\ UNCHANGED gsm_status
    \/ /\ gsm_mode = "GPRS" /\ new_mode = "CMD"
       /\ gsm_mode' = "CMD"
       /\ gsm_status' \in IF ok THEN {gsm_status} ELSE {0, gsm_status}

(***************************************************************************)
(* No mail for 100 ticks.  In data mode a frame of the server may be       *)
(* there; "CLOSED" takes the modem back to command mode.                   *)
(***************************************************************************)
GsmIdle ==
    /\ gpc = "recv"
    /\ mq_gsm = <<>>
    /\ gpc' = "poll"
    /\ \/ UNCHANGED <<gsm_mode, gsm_status>>
       \/ /\ gsm_mode = "GPRS"
          /\ \E ok \in BOOLEAN : gsm_mode_switch("CMD", ok)
    /\ UNCHANGED <<mutexVars, pc, clientVars, queueVars>>

(* mutant: a mail whose mode switch fails is dropped *)
MutSwitchDropsMail ==
    /\ gpc = "switch"
    /\ \E ok \in BOOLEAN :
         /\ gsm_mode_switch(serving[1].mode, ok)
         /\ gpc' = IF ok THEN "execute" ELSE "poll"
         /\ serving' = IF ok THEN serving ELSE <<>>
    /\ UNCHANGED <<mutexVars, pc, clientVars, created, mq_gsm>>

(* The mode of the mail is established, or the mail has failed. *)
GsmSwitch ==
    LET c == serving[1].client
    IN  /\ gpc = "switch"
        /\ \E ok \in BOOLEAN :
             /\ gsm_mode_switch(serving[1].mode, ok)
             /\ gpc' = IF ok THEN "execute" ELSE "release"
             /\ result' = IF ok THEN result ELSE [result EXCEPT ![c] = "fail"]
        /\ UNCHANGED <<mutexVars, pc, mails, sem, has_response, error_counts, endless, queueVars>>

(***************************************************************************)
(* gsm_command, or the request of a GPRS mail and the wait for its         *)
(* response; an echo of the request shows that the modem is not in data    *)
(* mode any more.                                                          *)
(***************************************************************************)
GsmExecute ==
    LET mail == serving[1]
    IN  /\ gpc = "execute"
        /\ gpc' = "release"
        /\ \/ /\ mail.mode = "GPRS" /\ ~mail.has_response
              /\ result' = [result EXCEPT ![mail.client] = "ok"]
              /\ UNCHANGED <<gsm_mode, gsm_status>>
           \/ /\ mail.mode = "CMD" \/ mail.has_response
              /\ \E r \in {"ok", "fail"} : result' = [result EXCEPT ![mail.client] = r]
              /\ UNCHANGED <<gsm_mode, gsm_status>>
           \/ /\ mail.mode = "GPRS" /\ mail.has_response
              /\ result' = [result EXCEPT ![mail.client] = "fail"]
              /\ \E ok \in BOOLEAN : gsm_mode_switch("CMD", ok)
        /\ UNCHANGED <<mutexVars, pc, mails, sem, has_response, error_counts, endless, queueVars>>

(* mutant: the semaphore is released twice *)
MutReleaseTwice ==
    /\ gpc = "release"
    /\ sem' = [sem EXCEPT ![serving[1].client] = @ + 1]
    /\ \/ /\ serving' = <<>>
          /\ gpc' = "poll"
       \/ /\ sem[serving[1].client] < 1
          /\ UNCHANGED <<serving, gpc>>
    /\ UNCHANGED <<mutexVars, pc, mails, result, has_response, error_counts, endless, created,
                   mq_gsm, gsm_mode, gsm_status>>

(* rt_sem_release(gsm_mail_buf.result_sem) *)
GsmRelease ==
    /\ gpc = "release"
    /\ sem' = [sem EXCEPT ![serving[1].client] = @ + 1]
    /\ serving' = <<>>
    /\ gpc' = "poll"
    /\ UNCHANGED <<mutexVars, pc, mails, result, has_response, error_counts, endless, created,
                   mq_gsm, gsm_mode, gsm_status>>

(* The modem loses power or switches itself off. *)
ModemDown ==
    /\ gsm_status = 1
    /\ gsm_status' = 0
    /\ UNCHANGED <<mutexVars, pc, clientVars, queueVars, gpc, gsm_mode>>

-----------------------------------------------------------------------------
ClientStep(c) ==
    \/ Begin(c) \/ ShellBegin(c) \/ SendCmd(c) \/ TakePic(c) \/ Loop(c)
    \/ \E expects, urgent \in BOOLEAN : SendFrame(c, expects, urgent)
    \/ \E expects \in BOOLEAN : SendPage(c, expects)
    \/ EndUpload(c) \/ MmsReleasePic(c) \/ TakeResult(c)
    \/ Finish(c) \/ FinishGprs(c) \/ Disable(c)

GsmStep ==
    \/ GsmStart \/ GsmResetSuccess \/ GsmResetFailure \/ GsmPoll \/ GsmRecv
    \/ GsmIdle \/ GsmSwitch \/ GsmExecute \/ GsmRelease

Next ==
    \/ \E c \in Client : ClientStep(c)
    \/ \E t \in Photo : PhotoBegin(t) \/ PhotoEnd(t)
    \/ \E t \in Thread : Resume(t)
    \/ GsmStep
    \/ ModemDown

Spec == Init /\ [][Next]_vars

(***************************************************************************)
(* Fairness.  A thread that can run is eventually run: every thread of the *)
(* system blocks in each round of its loop, so the lower priorities get    *)
(* the processor.  Nothing obliges a thread to begin a session.  Of the    *)
(* modem it is assumed that it does not fail to start forever, nor drop    *)
(* its status pin before every single look at the queue.                   *)
(***************************************************************************)
ClientProgress(c) ==
    \/ SendCmd(c)
    \/ \E expects, urgent \in BOOLEAN : SendFrame(c, expects, urgent)
    \/ \E expects \in BOOLEAN : SendPage(c, expects)
    \/ EndUpload(c) \/ MmsReleasePic(c) \/ TakeResult(c)
    \/ Finish(c) \/ FinishGprs(c) \/ Disable(c)

GsmProgress ==
    GsmStart \/ GsmPoll \/ GsmRecv \/ GsmIdle \/ GsmSwitch \/ GsmExecute \/ GsmRelease

FairSpec ==
    /\ Spec
    /\ \A c \in Client : WF_vars(ClientProgress(c))
    /\ \A t \in Photo : WF_vars(PhotoEnd(t))
    /\ \A t \in Thread : WF_vars(Resume(t))
    /\ WF_vars(GsmProgress)
    /\ SF_vars(GsmResetSuccess)
    /\ SF_vars(GsmPoll /\ gsm_status = 1)

-----------------------------------------------------------------------------
(* Properties. *)

(* The mails whose answer is still owed. *)
Outstanding == serving \o mq_gsm
HasMail(c) == \E i \in 1..Len(Outstanding) : Outstanding[i].client = c

(* Types; the counter of gsm_setup(DISABLE) never exceeds its threshold by more than one. *)
TypeOK ==
    /\ owner \in [Mutex -> Thread \cup {NULL}]
    /\ waiters \in [Mutex -> Seq(Thread)]
    /\ pc \in [Thread -> ClientPC]
    /\ mails \in [Client -> Nat]
    /\ sem \in [Client -> {NoSem, 0, 1}]
    /\ result \in [Client -> {"ok", "fail"}]
    /\ has_response \in [Client -> BOOLEAN]
    /\ error_counts \in [Gprs -> 0..(ErrorLimit + 1)]
    /\ endless \in SUBSET Client
    /\ created \in BOOLEAN
    /\ mq_gsm \in Seq(Mail)
    /\ serving \in Seq(Mail)
    /\ gpc \in GsmPC
    /\ gsm_mode \in Mode
    /\ gsm_status \in {0, 1}

(***************************************************************************)
(* A mail holds pointers into its sender's stack and to its semaphore.     *)
(* While the mail is queued or served, the sender is suspended on that     *)
(* semaphore, which exists and has not been released, and no second mail   *)
(* of the same sender is around: the gsm thread never writes a result into *)
(* a dead stack frame, nor releases a deleted semaphore.                   *)
(***************************************************************************)
NoDanglingMail ==
    /\ \A i \in 1..Len(Outstanding) :
         /\ pc[Outstanding[i].client] = "wait_sem"
         /\ sem[Outstanding[i].client] = 0
    /\ \A i, j \in 1..Len(Outstanding) :
         Outstanding[i].client = Outstanding[j].client => i = j

(***************************************************************************)
(* No client waits for an answer that nobody owes it: its mail is queued   *)
(* or served, or the semaphore is already released.  The picture upload    *)
(* ignores the result of rt_mq_send, so this needs the queue never to be   *)
(* full when a page is sent.                                               *)
(***************************************************************************)
NoLostRequest ==
    \A c \in Client : pc[c] = "wait_sem" => sem[c] = 1 \/ HasMail(c)

(***************************************************************************)
(* mutex_gsm_mail_sequence does its work: a mail of a thread that uses it  *)
(* is only ever outstanding while that thread owns it, hence the gsm       *)
(* thread never sees the command sequences of two threads interleaved.     *)
(***************************************************************************)
SequenceOwned ==
    \A i \in 1..Len(Outstanding) :
        Outstanding[i].client \in Locking => owner["gsm"] = Outstanding[i].client

(***************************************************************************)
(* The occupancy of mq_gsm: one mail for the owner of the mutex and one    *)
(* for each console, far below GSM_MAIL_MAX_MSGS, whose overflow the       *)
(* picture upload does not handle.                                         *)
(***************************************************************************)
QueueBound == Len(Outstanding) <= 1 + Cardinality(Shell)

(***************************************************************************)
(* Lock order: a client owns or awaits pic_file_mutex only inside its      *)
(* session, and the camera thread never touches the session mutex; so the  *)
(* two mutexes cannot be waited for in a circle.                           *)
(***************************************************************************)
LockOrder ==
    /\ owner["pic"] \in Client => owner["gsm"] = owner["pic"]
    /\ \A c \in Client : pc[c] = "wait_pic" => owner["gsm"] = c
    /\ \A t \in Photo : owner["gsm"] # t /\ pc[t] # "wait_gsm"

(***************************************************************************)
(* The inductive invariant behind the above.  Its further parts: only the  *)
(* threads that can wait for a mutex do so; inside a session, and inside   *)
(* the picture section, the thread owns the mutex; suspended threads are   *)
(* listed once and only while the mutex is held by another thread; between *)
(* two pages of a picture the shared semaphore exists and is at zero; the  *)
(* failure counter passes its limit only on the way to switching the modem *)
(* off; and the statements about outstanding mails are split into those    *)
(* about the mail being served and those about the queue.                  *)
(***************************************************************************)
KindOfWaiter ==
    \A t \in Thread :
        /\ pc[t] = "wait_gsm" => t \in Locking
        /\ pc[t] \in {"wait_pic", "pic"} => t \in Mms \cup Gprs \cup Photo
        /\ pc[t] = "disable" => t \in Gprs
        /\ pc[t] \in {"session", "wait_sem"} => t \in Client

Inside == {"session", "wait_pic", "pic", "wait_sem", "disable"}

SessionOwned == \A c \in Locking : pc[c] \in Inside => owner["gsm"] = c
PicOwned == \A t \in Thread : pc[t] = "pic" => owner["pic"] = t
GsmOwner == owner["gsm"] # NULL => /\ owner["gsm"] \in Locking
                                   /\ pc[owner["gsm"]] # "idle"
PicOwner == owner["pic"] # NULL => /\ pc[owner["pic"]] \in {"wait_pic", "pic", "wait_sem"}
                                   /\ owner["pic"] \in Mms \cup Gprs \cup Photo

WaitersListed ==
    \A m \in Mutex :
        /\ waiters[m] # <<>> => owner[m] # NULL
        /\ \A i \in 1..Len(waiters[m]) :
             /\ pc[waiters[m][i]] = IF m = "gsm" THEN "wait_gsm" ELSE "wait_pic"
             /\ waiters[m][i] # owner[m]
        /\ \A i, j \in 1..Len(waiters[m]) : waiters[m][i] = waiters[m][j] => i = j

OneServed == Len(serving) = IF gpc \in {"switch", "execute", "release"} THEN 1 ELSE 0
UploadSem == \A c \in Gprs : pc[c] \in {"wait_pic", "pic"} /\ mails[c] > 0 => sem[c] = 0
QueueExists == ~created => mq_gsm = <<>>
ErrorsCounted == \A c \in Gprs : pc[c] # "disable" => error_counts[c] <= ErrorLimit

Waiting(c) == pc[c] = "wait_sem" /\ sem[c] = 0

MailsAwaited ==
    /\ \A i \in 1..Len(serving) : Waiting(serving[i].client)
    /\ \A i \in 1..Len(mq_gsm) : Waiting(mq_gsm[i].client)
    /\ \A i, j \in 1..Len(mq_gsm) : mq_gsm[i].client = mq_gsm[j].client => i = j
    /\ \A i \in 1..Len(serving), j \in 1..Len(mq_gsm) : serving[i].client # mq_gsm[j].client

WaitersMailed ==
    \A c \in Client : Waiting(c) => \/ \E i \in 1..Len(serving) : serving[i].client = c
                                  \/ \E i \in 1..Len(mq_gsm) : mq_gsm[i].client = c

WaitsOnSem == \A c \in Client : pc[c] = "wait_sem" => sem[c] # NoSem

IInv ==
    /\ TypeOK
    /\ KindOfWaiter /\ SessionOwned /\ PicOwned /\ GsmOwner /\ PicOwner /\ WaitersListed
    /\ OneServed /\ UploadSem /\ QueueExists /\ ErrorsCounted
    /\ MailsAwaited /\ WaitersMailed /\ WaitsOnSem

(* Every mail is answered: nobody stays on its result semaphore forever. *)
RequestAnswered ==
    \A c \in Client : pc[c] = "wait_sem" ~> pc[c] # "wait_sem"

(***************************************************************************)
(* Every thread that waits for a mutex gets it (they queue first come,     *)
(* first served), unless the one that holds it has come to a loop without  *)
(* end: a download, an upload or an MMS for the session; the last two for  *)
(* the picture file too.  Nothing else keeps a thread out.                 *)
(***************************************************************************)
MutexGranted ==
    \A t \in Thread :
        /\ pc[t] = "wait_gsm" ~> pc[t] = "session" \/ owner["gsm"] \in endless
        /\ pc[t] = "wait_pic" ~> pc[t] = "pic" \/ owner["pic"] \in endless

(* The mail interface implements the abstract request/answer service. *)
Service == INSTANCE MailService
    WITH session <- owner["gsm"],
         req <- [c \in Client |->
                   IF pc[c] # "wait_sem" THEN "none"
                   ELSE IF sem[c] > 0 THEN "answered" ELSE "pending"]

(* Safety part: one answer per request, sessions never overlap. *)
ImplementsService == Service!Spec

(* With progress: every request is answered and its answer taken. *)
ImplementsFairService == Service!FairSpec
=============================================================================
