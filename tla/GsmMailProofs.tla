---------------------------- MODULE GsmMailProofs ----------------------------
(***************************************************************************)
(* Proofs about GsmMail, for every set of threads, queue size and bound.   *)
(*                                                                         *)
(* The inductive invariant IInv has three parts that the steps disturb     *)
(* separately: who holds and awaits the mutexes (LockInv), which mails are *)
(* around and who waits for their answer (MailInv), and the counters of    *)
(* the gprs thread (GprsInv).  The lemmas below say, once for every shape  *)
(* of step, that it preserves one of the parts; the induction step cites   *)
(* them action by action.                                                  *)
(***************************************************************************)
EXTENDS GsmMail, TLAPS, SequenceTheorems, FiniteSetTheorems, FunctionTheorems

LockInv ==
    KindOfWaiter /\ SessionOwned /\ PicOwned /\ GsmOwner /\ PicOwner /\ WaitersListed

MailInv == OneServed /\ QueueExists /\ MailsAwaited /\ WaitersMailed /\ WaitsOnSem

GprsInv == UploadSem /\ ErrorsCounted

(* The four parts together are the inductive invariant. *)
LEMMA Parts == IInv <=> TypeOK /\ LockInv /\ MailInv /\ GprsInv
  BY DEF IInv, LockInv, MailInv, GprsInv

(* How the kinds of threads are related. *)
LEMMA Kinds ==
    /\ Locking \subseteq Client /\ Client \subseteq Thread /\ Photo \subseteq Thread
    /\ Shell \subseteq Client /\ Gprs \subseteq Locking /\ Mms \subseteq Locking
    /\ \A c \in Client : c \in Locking \/ c \in Shell
    /\ \A t \in Thread : t \in Client \/ t \in Photo
    /\ \A c \in Locking : c \notin Shell
    /\ \A c \in Client : c \notin Photo
    /\ \A c \in Gprs : c \notin Mms
    /\ NULL \notin Thread
    /\ "gsm" \in Mutex /\ "pic" \in Mutex
    /\ \A m \in Mutex : m = "gsm" \/ m = "pic"
  BY KindsAssumption DEF Locking, Client, Thread, Mutex

-----------------------------------------------------------------------------
(* Taking and releasing a mutex. *)

(* A thread outside any session asks for mutex_gsm_mail_sequence. *)
LEMMA TakeGsm ==
  ASSUME TypeOK, LockInv, NEW c \in Locking, pc[c] = "idle",
         rt_mutex_take("gsm", c, "wait_gsm", "session")
  PROVE  /\ LockInv'
         /\ owner' \in [Mutex -> Thread \cup {NULL}]
         /\ waiters' \in [Mutex -> Seq(Thread)]
  <1>1. /\ owner \in [Mutex -> Thread \cup {NULL}]
        /\ waiters \in [Mutex -> Seq(Thread)] /\ pc \in [Thread -> ClientPC]
    BY DEF TypeOK
  <1>2. c \in Client /\ c \in Thread /\ c # NULL /\ c \notin Photo
    BY Kinds
  <1>3. CASE owner["gsm"] = NULL
    <2>1. /\ owner' = [owner EXCEPT !["gsm"] = c] /\ waiters' = waiters
          /\ pc' = [pc EXCEPT ![c] = "session"]
      BY <1>3 DEF rt_mutex_take
    <2>2. waiters["gsm"] = <<>>
      BY <1>1, <1>3, Kinds DEF LockInv, WaitersListed
    <2>3. KindOfWaiter' /\ SessionOwned' /\ PicOwned'
      BY <1>1, <1>2, <1>3, <2>1, Kinds DEF LockInv, KindOfWaiter, SessionOwned, PicOwned, Inside
    <2>5. GsmOwner' /\ PicOwner'
      BY <1>1, <1>2, <1>3, <2>1, Kinds DEF LockInv, GsmOwner, PicOwner
    <2>4. WaitersListed'
      BY <1>1, <1>2, <1>3, <2>1, <2>2, Kinds DEF LockInv, WaitersListed
    <2> QED BY <1>1, <1>2, <2>1, <2>3, <2>4, <2>5, Kinds DEF LockInv
  <1>4. CASE owner["gsm"] # NULL
    <2>1. /\ owner' = owner
          /\ waiters' = [waiters EXCEPT !["gsm"] = Append(waiters["gsm"], c)]
          /\ pc' = [pc EXCEPT ![c] = "wait_gsm"]
      BY <1>4 DEF rt_mutex_take
    <2>2. /\ Append(waiters["gsm"], c) \in Seq(Thread)
          /\ Len(Append(waiters["gsm"], c)) = Len(waiters["gsm"]) + 1
          /\ \A i \in 1..Len(waiters["gsm"]) : Append(waiters["gsm"], c)[i] = waiters["gsm"][i]
          /\ Append(waiters["gsm"], c)[Len(waiters["gsm"]) + 1] = c
          /\ Len(waiters["gsm"]) \in Nat
      BY <1>1, <1>2, Kinds, AppendProperties, LenProperties
    <2>3. KindOfWaiter' /\ SessionOwned' /\ PicOwned'
      BY <1>1, <1>2, <1>4, <2>1, Kinds DEF LockInv, KindOfWaiter, SessionOwned, PicOwned, Inside
    <2>5. GsmOwner' /\ PicOwner'
      BY <1>1, <1>2, <1>4, <2>1, Kinds DEF LockInv, GsmOwner, PicOwner
    <2>4. WaitersListed'
      BY <1>1, <1>2, <1>4, <2>1, <2>2, Kinds DEF LockInv, WaitersListed, GsmOwner
    <2> QED BY <1>1, <2>1, <2>2, <2>3, <2>4, <2>5, Kinds DEF LockInv
  <1> QED BY <1>3, <1>4
(* pic_file_mutex is taken inside a session, or by the camera thread. *)
LEMMA TakePicFile ==
  ASSUME TypeOK, LockInv, NEW t \in Mms \cup Gprs \cup Photo,
         pc[t] = IF t \in Photo THEN "idle" ELSE "session",
         rt_mutex_take("pic", t, "wait_pic", "pic")
  PROVE  /\ LockInv'
         /\ owner' \in [Mutex -> Thread \cup {NULL}]
         /\ waiters' \in [Mutex -> Seq(Thread)]
  <1>1. /\ owner \in [Mutex -> Thread \cup {NULL}]
        /\ waiters \in [Mutex -> Seq(Thread)] /\ pc \in [Thread -> ClientPC]
    BY DEF TypeOK
  <1>2. /\ t \in Thread /\ t # NULL
        /\ t \in Photo => t \notin Client /\ pc[t] = "idle"
        /\ t \notin Photo => t \in Locking /\ pc[t] = "session" /\ owner["gsm"] = t
    BY Kinds DEF LockInv, SessionOwned, Inside
  <1>3. CASE owner["pic"] = NULL
    <2>1. /\ owner' = [owner EXCEPT !["pic"] = t] /\ waiters' = waiters
          /\ pc' = [pc EXCEPT ![t] = "pic"]
      BY <1>3 DEF rt_mutex_take
    <2>2. waiters["pic"] = <<>>
      BY <1>1, <1>3, Kinds DEF LockInv, WaitersListed
    <2>3. KindOfWaiter' /\ SessionOwned' /\ PicOwned'
      BY <1>1, <1>2, <1>3, <2>1, Kinds DEF LockInv, KindOfWaiter, SessionOwned, PicOwned, Inside
    <2>4. GsmOwner' /\ PicOwner'
      BY <1>1, <1>2, <1>3, <2>1, Kinds DEF LockInv, GsmOwner, PicOwner
    <2>5. WaitersListed'
      BY <1>1, <1>2, <1>3, <2>1, <2>2, Kinds DEF LockInv, WaitersListed
    <2> QED BY <1>1, <1>2, <2>1, <2>3, <2>4, <2>5, Kinds DEF LockInv
  <1>4. CASE owner["pic"] # NULL
    <2>1. /\ owner' = owner
          /\ waiters' = [waiters EXCEPT !["pic"] = Append(waiters["pic"], t)]
          /\ pc' = [pc EXCEPT ![t] = "wait_pic"]
      BY <1>4 DEF rt_mutex_take
    <2>2. /\ Append(waiters["pic"], t) \in Seq(Thread)
          /\ Len(Append(waiters["pic"], t)) = Len(waiters["pic"]) + 1
          /\ \A i \in 1..Len(waiters["pic"]) : Append(waiters["pic"], t)[i] = waiters["pic"][i]
          /\ Append(waiters["pic"], t)[Len(waiters["pic"]) + 1] = t
          /\ Len(waiters["pic"]) \in Nat
      BY <1>1, <1>2, Kinds, AppendProperties, LenProperties
    <2>3. KindOfWaiter' /\ SessionOwned' /\ PicOwned'
      BY <1>1, <1>2, <1>4, <2>1, Kinds DEF LockInv, KindOfWaiter, SessionOwned, PicOwned, Inside
    <2>4. GsmOwner' /\ PicOwner'
      BY <1>1, <1>2, <1>4, <2>1, Kinds DEF LockInv, GsmOwner, PicOwner
    <2>5. WaitersListed'
      BY <1>1, <1>2, <1>4, <2>1, <2>2, Kinds DEF LockInv, WaitersListed, PicOwner
    <2> QED BY <1>1, <2>1, <2>2, <2>3, <2>4, <2>5, Kinds DEF LockInv
  <1> QED BY <1>3, <1>4

(* The end of a session hands the mutex to the first waiter. *)
LEMMA ReleaseGsm ==
  ASSUME TypeOK, LockInv, NEW c \in Locking, pc[c] \in {"session", "disable"},
         rt_mutex_release("gsm"), pc' = [pc EXCEPT ![c] = "idle"]
  PROVE  /\ LockInv'
         /\ owner' \in [Mutex -> Thread \cup {NULL}]
         /\ waiters' \in [Mutex -> Seq(Thread)]
  <1>1. /\ owner \in [Mutex -> Thread \cup {NULL}]
        /\ waiters \in [Mutex -> Seq(Thread)] /\ pc \in [Thread -> ClientPC]
    BY DEF TypeOK
  <1>2. c \in Client /\ c \in Thread /\ c # NULL /\ c \notin Photo /\ owner["gsm"] = c
    BY Kinds DEF LockInv, SessionOwned, Inside
  <1>3. CASE waiters["gsm"] = <<>>
    <2>1. owner' = [owner EXCEPT !["gsm"] = NULL] /\ waiters' = waiters
      BY <1>3 DEF rt_mutex_release
    <2>2. KindOfWaiter' /\ SessionOwned' /\ PicOwned'
      BY <1>1, <1>2, <2>1, Kinds DEF LockInv, KindOfWaiter, SessionOwned, PicOwned, Inside
    <2>3. GsmOwner' /\ PicOwner'
      BY <1>1, <1>2, <2>1, Kinds DEF LockInv, GsmOwner, PicOwner
    <2>4. WaitersListed'
      BY <1>1, <1>2, <1>3, <2>1, Kinds DEF LockInv, WaitersListed
    <2> QED BY <1>1, <2>1, <2>2, <2>3, <2>4, Kinds DEF LockInv
  <1>4. CASE waiters["gsm"] # <<>>
    <2> DEFINE h == waiters["gsm"][1]
    <2>1. /\ Tail(waiters["gsm"]) \in Seq(Thread)
          /\ Len(waiters["gsm"]) \in Nat /\ 1 \in 1..Len(waiters["gsm"])
          /\ Len(Tail(waiters["gsm"])) = Len(waiters["gsm"]) - 1
          /\ \A i \in 1..Len(Tail(waiters["gsm"])) : Tail(waiters["gsm"])[i] = waiters["gsm"][i + 1]
          /\ h = Head(waiters["gsm"])
      BY <1>1, <1>4, Kinds, HeadTailProperties, LenProperties, EmptySeq
    <2>2. /\ owner' = [owner EXCEPT !["gsm"] = h]
          /\ waiters' = [waiters EXCEPT !["gsm"] = Tail(waiters["gsm"])]
      BY <1>4, <2>1 DEF rt_mutex_release
    <2>3. h \in Thread /\ pc[h] = "wait_gsm" /\ h \in Locking /\ h # c /\ h # NULL
      BY <1>1, <1>2, <2>1, Kinds, ElementOfSeq DEF LockInv, WaitersListed, KindOfWaiter
    <2> HIDE DEF h
    <2>4. KindOfWaiter' /\ SessionOwned' /\ PicOwned'
      BY <1>1, <1>2, <2>2, <2>3, Kinds DEF LockInv, KindOfWaiter, SessionOwned, PicOwned, Inside
    <2>5. GsmOwner' /\ PicOwner'
      BY <1>1, <1>2, <2>2, <2>3, Kinds DEF LockInv, GsmOwner, PicOwner
    <2>6. \A i \in 1..Len(Tail(waiters["gsm"])) : Tail(waiters["gsm"])[i] # h
      BY <2>1, Kinds DEF h, LockInv, WaitersListed
    <2>7. WaitersListed'
      BY <1>1, <1>2, <2>1, <2>2, <2>3, <2>6, Kinds DEF LockInv, WaitersListed
    <2> QED BY <1>1, <2>1, <2>2, <2>3, <2>4, <2>5, <2>7, Kinds DEF LockInv
  <1> QED BY <1>3, <1>4

(* The user of the picture file gives it up, inside its session or as the camera thread. *)
LEMMA ReleasePicFile ==
  ASSUME TypeOK, LockInv, NEW t \in Mms \cup Gprs \cup Photo, pc[t] = "pic",
         rt_mutex_release("pic"),
         pc' = [pc EXCEPT ![t] = IF t \in Photo THEN "idle" ELSE "session"]
  PROVE  /\ LockInv'
         /\ owner' \in [Mutex -> Thread \cup {NULL}]
         /\ waiters' \in [Mutex -> Seq(Thread)]
  <1>1. /\ owner \in [Mutex -> Thread \cup {NULL}]
        /\ waiters \in [Mutex -> Seq(Thread)] /\ pc \in [Thread -> ClientPC]
    BY DEF TypeOK
  <1>2. /\ t \in Thread /\ t # NULL /\ owner["pic"] = t
        /\ t \in Photo => t \notin Client
        /\ t \notin Photo => t \in Locking /\ t \in Client /\ owner["gsm"] = t
    BY Kinds DEF LockInv, SessionOwned, PicOwned, Inside
  <1>3. CASE waiters["pic"] = <<>>
    <2>1. owner' = [owner EXCEPT !["pic"] = NULL] /\ waiters' = waiters
      BY <1>3 DEF rt_mutex_release
    <2>2. KindOfWaiter' /\ SessionOwned' /\ PicOwned'
      BY <1>1, <1>2, <2>1, Kinds DEF LockInv, KindOfWaiter, SessionOwned, PicOwned, Inside
    <2>3. GsmOwner' /\ PicOwner'
      BY <1>1, <1>2, <2>1, Kinds DEF LockInv, GsmOwner, PicOwner
    <2>4. WaitersListed'
      BY <1>1, <1>2, <1>3, <2>1, Kinds DEF LockInv, WaitersListed
    <2> QED BY <1>1, <2>1, <2>2, <2>3, <2>4, Kinds DEF LockInv
  <1>4. CASE waiters["pic"] # <<>>
    <2> DEFINE h == waiters["pic"][1]
    <2>1. /\ Tail(waiters["pic"]) \in Seq(Thread)
          /\ Len(waiters["pic"]) \in Nat /\ 1 \in 1..Len(waiters["pic"])
          /\ Len(Tail(waiters["pic"])) = Len(waiters["pic"]) - 1
          /\ \A i \in 1..Len(Tail(waiters["pic"])) : Tail(waiters["pic"])[i] = waiters["pic"][i + 1]
          /\ h = Head(waiters["pic"])
      BY <1>1, <1>4, Kinds, HeadTailProperties, LenProperties, EmptySeq
    <2>2. /\ owner' = [owner EXCEPT !["pic"] = h]
          /\ waiters' = [waiters EXCEPT !["pic"] = Tail(waiters["pic"])]
      BY <1>4, <2>1 DEF rt_mutex_release
    <2>3. /\ h \in Thread /\ pc[h] = "wait_pic" /\ h # t /\ h # NULL
          /\ h \in Mms \cup Gprs \cup Photo
      BY <1>1, <1>2, <2>1, Kinds, ElementOfSeq DEF LockInv, WaitersListed, KindOfWaiter
    <2> HIDE DEF h
    <2>4. KindOfWaiter' /\ SessionOwned' /\ PicOwned'
      BY <1>1, <1>2, <2>2, <2>3, Kinds DEF LockInv, KindOfWaiter, SessionOwned, PicOwned, Inside
    <2>5. GsmOwner' /\ PicOwner'
      BY <1>1, <1>2, <2>2, <2>3, Kinds DEF LockInv, GsmOwner, PicOwner
    <2>6. \A i \in 1..Len(Tail(waiters["pic"])) : Tail(waiters["pic"])[i] # h
      BY <2>1, Kinds DEF h, LockInv, WaitersListed
    <2>7. WaitersListed'
      BY <1>1, <1>2, <2>1, <2>2, <2>3, <2>6, Kinds DEF LockInv, WaitersListed
    <2> QED BY <1>1, <2>1, <2>2, <2>3, <2>4, <2>5, <2>7, Kinds DEF LockInv
  <1> QED BY <1>3, <1>4

(* A thread moves on without touching a mutex. *)
LEMMA MoveOn ==
  ASSUME TypeOK, LockInv, NEW t \in Thread, NEW x \in ClientPC,
         owner' = owner, waiters' = waiters, pc' = [pc EXCEPT ![t] = x],
         \/ /\ t \in Shell
            /\ pc[t] \in {"idle", "session", "wait_sem"}
            /\ x \in {"idle", "session", "wait_sem"}
         \/ /\ t \in Locking
            /\ pc[t] \in {"session", "pic", "wait_sem"}
            /\ x = "wait_sem" \/ x = IF owner["pic"] = t THEN "pic" ELSE "session"
         \/ t \in Gprs /\ pc[t] = "session" /\ x = "disable"
         \/ pc[t] = "wait_gsm" /\ owner["gsm"] = t /\ x = "session"
         \/ pc[t] = "wait_pic" /\ owner["pic"] = t /\ x = "pic"
  PROVE  LockInv'
  <1>1. /\ owner \in [Mutex -> Thread \cup {NULL}]
        /\ waiters \in [Mutex -> Seq(Thread)] /\ pc \in [Thread -> ClientPC]
    BY DEF TypeOK
  <1>2. t # NULL
    BY Kinds
  <1>3. KindOfWaiter'
    BY <1>1, <1>2, Kinds DEF LockInv, KindOfWaiter, PicOwner
  <1>4. SessionOwned' /\ PicOwned'
    BY <1>1, <1>2, Kinds DEF LockInv, SessionOwned, PicOwned, KindOfWaiter, Inside
  <1>5. GsmOwner' /\ PicOwner'
    BY <1>1, <1>2, Kinds DEF LockInv, GsmOwner, PicOwner, SessionOwned, Inside
  <1>6. WaitersListed'
    BY <1>1, <1>2, Kinds DEF LockInv, WaitersListed
  <1> QED BY <1>3, <1>4, <1>5, <1>6 DEF LockInv

-----------------------------------------------------------------------------
(* The mails. *)

(* Every mail has a client. *)
LEMMA MailClients ==
  ASSUME NEW s \in Seq(Mail)
  PROVE  /\ Len(s) \in Nat
         /\ \A i \in 1..Len(s) : s[i] \in Mail /\ s[i].client \in Client
  <1>1. \A mail \in Mail : mail.client \in Client
    BY DEF Mail
  <1>2. \A i \in 1..Len(s) : s[i] \in Mail
    BY ElementOfSeq
  <1> QED BY <1>1, <1>2, LenProperties

(* A step that leaves the queue alone and changes nobody's wait for an answer. *)
LEMMA MailsUntouched ==
  ASSUME TypeOK, MailInv, UNCHANGED queueVars, OneServed',
         \A c \in Client : Waiting(c)' <=> Waiting(c),
         WaitsOnSem'
  PROVE  MailInv'
  <1>1. serving' = serving /\ mq_gsm' = mq_gsm /\ created' = created
    BY DEF queueVars
  <1>2. /\ \A i \in 1..Len(serving) : serving[i].client \in Client
        /\ \A i \in 1..Len(mq_gsm) : mq_gsm[i].client \in Client
    BY MailClients DEF TypeOK
  <1>3. QueueExists' /\ MailsAwaited'
    BY <1>1, <1>2 DEF MailInv, QueueExists, MailsAwaited
  <1>4. WaitersMailed'
    BY <1>1 DEF MailInv, WaitersMailed
  <1> QED BY <1>3, <1>4 DEF MailInv

(* A client that was not waiting queues a mail, at either end, and waits. *)
LEMMA MailPosted ==
  ASSUME TypeOK, MailInv, NEW c \in Client, pc[c] # "wait_sem", created,
         pc' = [pc EXCEPT ![c] = "wait_sem"],
         sem' \in [Client -> Int], sem'[c] = 0,
         \A d \in Client : d # c => sem'[d] = sem[d],
         NEW mail \in Mail, mail.client = c,
         mq_gsm' = Append(mq_gsm, mail) \/ mq_gsm' = <<mail>> \o mq_gsm,
         UNCHANGED <<created, serving, gpc>>
  PROVE  MailInv' /\ mq_gsm' \in Seq(Mail)
  <1>1. /\ mq_gsm \in Seq(Mail) /\ serving \in Seq(Mail) /\ c \in Thread
        /\ pc \in [Thread -> ClientPC] /\ sem \in [Client -> {NoSem, 0, 1}]
    BY Kinds DEF TypeOK
  <1>2. /\ Len(mq_gsm) \in Nat /\ Len(serving) \in Nat
        /\ \A i \in 1..Len(serving) : serving[i].client \in Client
        /\ \A i \in 1..Len(mq_gsm) : mq_gsm[i].client \in Client
    BY <1>1, MailClients
  <1>3. /\ \A i \in 1..Len(serving) : serving[i].client # c
        /\ \A i \in 1..Len(mq_gsm) : mq_gsm[i].client # c
    BY <1>2 DEF MailInv, MailsAwaited, Waiting
  <1>4. /\ \A d \in Client : d # c => (Waiting(d)' <=> Waiting(d))
        /\ Waiting(c)'
    BY <1>1, Kinds DEF Waiting
  <1>5. WaitsOnSem'
    BY <1>1, Kinds DEF MailInv, WaitsOnSem, NoSem
  <1>6. OneServed' /\ QueueExists'
    BY DEF MailInv, OneServed, QueueExists
  <1>7. CASE mq_gsm' = Append(mq_gsm, mail)
    <2>1. /\ mq_gsm' \in Seq(Mail) /\ Len(mq_gsm') = Len(mq_gsm) + 1
          /\ \A i \in 1..Len(mq_gsm) : mq_gsm'[i] = mq_gsm[i]
          /\ mq_gsm'[Len(mq_gsm) + 1] = mail
      BY <1>1, <1>7, AppendProperties
    <2>2. MailsAwaited'
      <3>1. \A i \in 1..Len(mq_gsm') :
                \/ i \in 1..Len(mq_gsm) /\ mq_gsm'[i] = mq_gsm[i]
                \/ i = Len(mq_gsm) + 1 /\ mq_gsm'[i] = mail
        BY <1>2, <2>1
      <3>2. \A i \in 1..Len(serving) : Waiting(serving[i].client)
        BY DEF MailInv, MailsAwaited
      <3>3. \A i \in 1..Len(mq_gsm) : Waiting(mq_gsm[i].client)
        BY DEF MailInv, MailsAwaited
      <3>4. ASSUME NEW i \in 1..Len(serving')
            PROVE  Waiting(serving[i].client)'
        BY <1>1, <1>2, <1>3, <3>2, Kinds DEF Waiting
      <3>5. ASSUME NEW i \in 1..Len(mq_gsm')
            PROVE  Waiting(mq_gsm[i].client)'
        <4>1. CASE mq_gsm'[i] = mail
          BY <1>4, <4>1 DEF Waiting
        <4>2. CASE mq_gsm'[i] # mail
          <5>1. PICK k \in 1..Len(mq_gsm) : mq_gsm'[i] = mq_gsm[k]
            BY <3>1, <4>2
          <5>2. mq_gsm[k].client \in Client /\ mq_gsm[k].client # c /\ Waiting(mq_gsm[k].client)
            BY <1>2, <1>3, <3>3
          <5> QED BY <1>1, <5>1, <5>2, Kinds DEF Waiting
        <4> QED BY <4>1, <4>2
      <3>6. ASSUME NEW i \in 1..Len(mq_gsm'), NEW j \in 1..Len(mq_gsm'),
                   mq_gsm'[i].client = mq_gsm'[j].client
            PROVE  i = j
        <4>1. \A k, l \in 1..Len(mq_gsm) : mq_gsm[k].client = mq_gsm[l].client => k = l
          BY DEF MailInv, MailsAwaited
        <4> QED BY <1>2, <1>3, <3>1, <3>6, <4>1, SMTT(40)
      <3>7. ASSUME NEW i \in 1..Len(serving'), NEW j \in 1..Len(mq_gsm')
            PROVE  serving'[i].client # mq_gsm'[j].client
        <4>1. \A k \in 1..Len(serving), l \in 1..Len(mq_gsm) : serving[k].client # mq_gsm[l].client
          BY DEF MailInv, MailsAwaited
        <4> QED BY <1>2, <1>3, <3>1, <4>1, SMTT(40)
      <3> QED BY <3>4, <3>5, <3>6, <3>7 DEF MailsAwaited
    <2>3. WaitersMailed'
      <3> SUFFICES ASSUME NEW d \in Client, Waiting(d)',
                          \A i \in 1..Len(serving) : serving[i].client # d
                   PROVE  \E i \in 1..Len(mq_gsm') : mq_gsm'[i].client = d
        BY DEF WaitersMailed
      <3>1. CASE d = c
        <4>1. Len(mq_gsm) + 1 \in 1..Len(mq_gsm')
          BY <1>2, <2>1
        <4> QED BY <2>1, <3>1, <4>1
      <3>2. CASE d # c
        <4>1. PICK k \in 1..Len(mq_gsm) : mq_gsm[k].client = d
          BY <1>4, <3>2 DEF MailInv, WaitersMailed
        <4>2. k \in 1..Len(mq_gsm')
          BY <1>2, <2>1
        <4> QED BY <2>1, <4>1, <4>2
      <3> QED BY <3>1, <3>2
    <2> QED BY <1>5, <1>6, <2>1, <2>2, <2>3 DEF MailInv
  <1>8. CASE mq_gsm' = <<mail>> \o mq_gsm
    <2>1. /\ mq_gsm' \in Seq(Mail) /\ Len(mq_gsm') = Len(mq_gsm) + 1
          /\ \A i \in 1..Len(mq_gsm') : mq_gsm'[i] = IF i = 1 THEN mail ELSE mq_gsm[i - 1]
      <3>1. <<mail>> \in Seq(Mail) /\ Len(<<mail>>) = 1 /\ <<mail>>[1] = mail
        OBVIOUS
      <3> QED BY <1>1, <1>2, <1>8, <3>1, ConcatProperties
    <2>2. MailsAwaited'
      <3>1. \A i \in 1..Len(mq_gsm') :
                \/ i - 1 \in 1..Len(mq_gsm) /\ mq_gsm'[i] = mq_gsm[i - 1]
                \/ i = 1 /\ mq_gsm'[i] = mail
        BY <1>2, <2>1
      <3>2. \A i \in 1..Len(serving) : Waiting(serving[i].client)
        BY DEF MailInv, MailsAwaited
      <3>3. \A i \in 1..Len(mq_gsm) : Waiting(mq_gsm[i].client)
        BY DEF MailInv, MailsAwaited
      <3>4. ASSUME NEW i \in 1..Len(serving')
            PROVE  Waiting(serving[i].client)'
        BY <1>1, <1>2, <1>3, <3>2, Kinds DEF Waiting
      <3>5. ASSUME NEW i \in 1..Len(mq_gsm')
            PROVE  Waiting(mq_gsm[i].client)'
        <4>1. CASE mq_gsm'[i] = mail
          BY <1>4, <4>1 DEF Waiting
        <4>2. CASE mq_gsm'[i] # mail
          <5>1. PICK k \in 1..Len(mq_gsm) : mq_gsm'[i] = mq_gsm[k]
            BY <3>1, <4>2
          <5>2. mq_gsm[k].client \in Client /\ mq_gsm[k].client # c /\ Waiting(mq_gsm[k].client)
            BY <1>2, <1>3, <3>3
          <5> QED BY <1>1, <5>1, <5>2, Kinds DEF Waiting
        <4> QED BY <4>1, <4>2
      <3>6. ASSUME NEW i \in 1..Len(mq_gsm'), NEW j \in 1..Len(mq_gsm'),
                   mq_gsm'[i].client = mq_gsm'[j].client
            PROVE  i = j
        <4>0. ASSUME NEW k \in 1..Len(mq_gsm')
              PROVE  k = 1 <=> mq_gsm'[k].client = c
          <5>1. CASE k = 1
            BY <2>1, <5>1
          <5>2. CASE k # 1
            <6>1. k - 1 \in 1..Len(mq_gsm) /\ mq_gsm'[k] = mq_gsm[k - 1]
              BY <3>1, <5>2
            <6> QED BY <1>3, <5>2, <6>1
          <5> QED BY <5>1, <5>2
        <4>1. CASE i = 1 \/ j = 1
          BY <3>6, <4>0, <4>1
        <4>2. CASE i # 1 /\ j # 1
          <5>1. /\ i - 1 \in 1..Len(mq_gsm) /\ mq_gsm'[i] = mq_gsm[i - 1]
                /\ j - 1 \in 1..Len(mq_gsm) /\ mq_gsm'[j] = mq_gsm[j - 1]
            BY <3>1, <4>2
          <5>2. i - 1 = j - 1
            BY <3>6, <5>1 DEF MailInv, MailsAwaited
          <5> QED BY <5>2
        <4> QED BY <4>1, <4>2
      <3>7. ASSUME NEW i \in 1..Len(serving'), NEW j \in 1..Len(mq_gsm')
            PROVE  serving'[i].client # mq_gsm'[j].client
        <4>1. CASE j = 1
          BY <1>3, <2>1, <4>1
        <4>2. CASE j # 1
          <5>1. j - 1 \in 1..Len(mq_gsm) /\ mq_gsm'[j] = mq_gsm[j - 1]
            BY <3>1, <4>2
          <5> QED BY <5>1 DEF MailInv, MailsAwaited
        <4> QED BY <4>1, <4>2
      <3> QED BY <3>4, <3>5, <3>6, <3>7 DEF MailsAwaited
    <2>3. WaitersMailed'
      <3> SUFFICES ASSUME NEW d \in Client, Waiting(d)',
                          \A i \in 1..Len(serving) : serving[i].client # d
                   PROVE  \E i \in 1..Len(mq_gsm') : mq_gsm'[i].client = d
        BY DEF WaitersMailed
      <3>1. CASE d = c
        BY <1>2, <2>1, <3>1
      <3>2. CASE d # c
        <4>1. PICK i \in 1..Len(mq_gsm) : mq_gsm[i].client = d
          BY <1>4, <3>2 DEF MailInv, WaitersMailed
        <4>2. i + 1 \in 1..Len(mq_gsm') /\ mq_gsm'[i + 1] = mq_gsm[i]
          BY <1>2, <2>1
        <4> QED BY <4>1, <4>2
      <3> QED BY <3>1, <3>2
    <2> QED BY <1>5, <1>6, <2>1, <2>2, <2>3 DEF MailInv
  <1> QED BY <1>7, <1>8

(* The gsm thread takes the first mail off the queue. *)
LEMMA MailServed ==
  ASSUME TypeOK, MailInv, GsmRecv
  PROVE  MailInv' /\ mq_gsm' \in Seq(Mail) /\ serving' \in Seq(Mail)
  <1>1. /\ mq_gsm \in Seq(Mail) /\ mq_gsm # <<>> /\ pc' = pc /\ sem' = sem
        /\ serving' = <<Head(mq_gsm)>> /\ mq_gsm' = Tail(mq_gsm)
        /\ created' = created /\ gpc' = "switch"
    BY DEF TypeOK, GsmRecv, clientVars
  <1>2. /\ mq_gsm' \in Seq(Mail) /\ Len(mq_gsm) \in Nat /\ 1 \in 1..Len(mq_gsm)
        /\ Len(mq_gsm') = Len(mq_gsm) - 1
        /\ \A i \in 1..Len(mq_gsm') : i + 1 \in 1..Len(mq_gsm) /\ mq_gsm'[i] = mq_gsm[i + 1]
        /\ Head(mq_gsm) = mq_gsm[1] /\ Head(mq_gsm) \in Mail
    BY <1>1, HeadTailProperties, LenProperties, EmptySeq
  <1>3. /\ serving' \in Seq(Mail) /\ Len(serving') = 1
        /\ \A i \in 1..Len(serving') : serving'[i] = mq_gsm[1]
    BY <1>1, <1>2
  <1>4. OneServed' /\ QueueExists' /\ WaitsOnSem'
    BY <1>1, <1>3 DEF MailInv, OneServed, QueueExists, WaitsOnSem
  <1>5. MailsAwaited'
    BY <1>1, <1>2, <1>3 DEF MailInv, MailsAwaited, Waiting
  <1>6. WaitersMailed'
    <2> SUFFICES ASSUME NEW d \in Client, Waiting(d)
                 PROVE  \/ \E i \in 1..Len(serving') : serving'[i].client = d
                        \/ \E i \in 1..Len(mq_gsm') : mq_gsm'[i].client = d
      BY <1>1 DEF WaitersMailed, Waiting
    <2>1. PICK i \in 1..Len(mq_gsm) : mq_gsm[i].client = d
      <3>1. Len(serving) = 0
        BY DEF MailInv, OneServed, GsmRecv
      <3> QED BY <3>1 DEF MailInv, WaitersMailed
    <2>2. CASE i = 1
      BY <1>3, <2>1, <2>2
    <2>3. CASE i # 1
      <3>1. i - 1 \in 1..Len(mq_gsm') /\ mq_gsm'[i - 1] = mq_gsm[i]
        BY <1>2, <2>3
      <3> QED BY <2>1, <3>1
    <2> QED BY <2>2, <2>3
  <1> QED BY <1>2, <1>3, <1>4, <1>5, <1>6 DEF MailInv

(* The gsm thread releases the semaphore of the mail it has served. *)
LEMMA MailReleased ==
  ASSUME TypeOK, MailInv, GsmRelease
  PROVE  /\ MailInv' /\ serving' \in Seq(Mail)
         /\ \E c \in Client : Waiting(c) /\ sem' = [sem EXCEPT ![c] = 1]
  <1> DEFINE c == serving[1].client
  <1>1. /\ gpc = "release" /\ gpc' = "poll" /\ serving' = <<>> /\ mq_gsm' = mq_gsm
        /\ created' = created /\ pc' = pc /\ sem' = [sem EXCEPT ![c] = sem[c] + 1]
    BY DEF GsmRelease
  <1>2. /\ Len(serving) = 1 /\ serving \in Seq(Mail) /\ sem \in [Client -> {NoSem, 0, 1}]
        /\ mq_gsm \in Seq(Mail)
    BY <1>1 DEF MailInv, OneServed, TypeOK
  <1>3. c \in Client /\ Waiting(c)
    <2>1. 1 \in 1..Len(serving)
      BY <1>2
    <2> QED BY <1>2, <2>1, MailClients DEF MailInv, MailsAwaited
  <1>4. \A i \in 1..Len(serving) : serving[i].client = c
    BY <1>2
  <1>5. \A i \in 1..Len(mq_gsm) : mq_gsm[i].client # c /\ mq_gsm[i].client \in Client
    <2>1. 1 \in 1..Len(serving)
      BY <1>2
    <2> QED BY <1>2, <2>1, MailClients DEF MailInv, MailsAwaited
  <1> HIDE DEF c
  <1>6. sem' = [sem EXCEPT ![c] = 1]
    BY <1>1, <1>2, <1>3 DEF Waiting
  <1>7. \A d \in Client : Waiting(d)' <=> Waiting(d) /\ d # c
    BY <1>1, <1>2, <1>3, <1>6 DEF Waiting
  <1>8. serving' \in Seq(Mail) /\ Len(serving') = 0
    BY <1>1
  <1>9. OneServed' /\ QueueExists' /\ WaitsOnSem'
    BY <1>1, <1>2, <1>3, <1>6, <1>8 DEF MailInv, OneServed, QueueExists, WaitsOnSem, NoSem
  <1>10. MailsAwaited'
    BY <1>1, <1>5, <1>7, <1>8 DEF MailInv, MailsAwaited
  <1>11. WaitersMailed'
    BY <1>1, <1>4, <1>7 DEF MailInv, WaitersMailed
  <1> QED BY <1>3, <1>6, <1>8, <1>9, <1>10, <1>11 DEF MailInv

LEMMA CountTo == ASSUME NEW n \in Nat PROVE Cardinality(1..n) = n
  <1>1. 1 \in Int /\ n \in Int
    OBVIOUS
  <1>2. Cardinality(1..n) = IF 1 > n THEN 0 ELSE n - 1 + 1
    BY <1>1, FS_Interval, Zenon
  <1> QED BY <1>2

(***************************************************************************)
(* A client that is inside its session and not waiting finds room in the   *)
(* queue: only the consoles can have a mail there.                         *)
(***************************************************************************)
LEMMA RoomInQueue ==
  ASSUME TypeOK, LockInv, MailInv, NEW c \in Locking, pc[c] \in Inside, pc[c] # "wait_sem"
  PROVE  ~IsFull
  <1> DEFINE f == [i \in 1..Len(mq_gsm) |-> mq_gsm[i].client]
  <1>1. mq_gsm \in Seq(Mail) /\ Len(mq_gsm) \in Nat
    BY MailClients DEF TypeOK
  <1>2. ASSUME NEW i \in 1..Len(mq_gsm)
        PROVE  mq_gsm[i].client \in Shell
    <2>1. mq_gsm[i].client \in Client /\ pc[mq_gsm[i].client] = "wait_sem"
      BY <1>1, MailClients DEF MailInv, MailsAwaited, Waiting
    <2>2. owner["gsm"] = c
      BY DEF LockInv, SessionOwned
    <2>3. mq_gsm[i].client \in Locking => mq_gsm[i].client = c
      BY <2>1, <2>2 DEF LockInv, SessionOwned, Inside
    <2> QED BY <2>1, <2>3, Kinds
  <1>3. f \in Injection(1..Len(mq_gsm), Shell)
    <2>1. f \in [1..Len(mq_gsm) -> Shell]
      BY <1>2
    <2>2. \A i, j \in 1..Len(mq_gsm) : f[i] = f[j] => i = j
      BY DEF MailInv, MailsAwaited
    <2> HIDE DEF f
    <2> QED BY <2>1, <2>2, Fun_IsInj
  <1>4. Cardinality(1..Len(mq_gsm)) <= Cardinality(Shell)
    <2> HIDE DEF f
    <2> QED BY <1>3, FS_Injection, KindsAssumption
  <1> HIDE DEF f
  <1>5. Cardinality(1..Len(mq_gsm)) = Len(mq_gsm)
    BY <1>1, CountTo, Zenon
  <1>6. Cardinality(Shell) \in Nat
    BY FS_CardinalityType, KindsAssumption
  <1>7. Len(mq_gsm) <= Cardinality(Shell)
    BY <1>4, <1>5, Zenon
  <1> QED BY <1>1, <1>6, <1>7, QueueAssumption DEF IsFull

-----------------------------------------------------------------------------
(* The induction. *)

(* The initial state. *)
LEMMA InitIInv == Init => IInv
  <1> SUFFICES ASSUME Init PROVE IInv
    OBVIOUS
  <1>1. /\ <<>> \in Seq(Thread) /\ <<>> \in Seq(Mail) /\ Len(mq_gsm) = 0 /\ Len(serving) = 0
        /\ Len(<<>>) = 0
    BY DEF Init
  <1>2. TypeOK
    <2>1. /\ owner \in [Mutex -> Thread \cup {NULL}] /\ waiters \in [Mutex -> Seq(Thread)]
          /\ pc \in [Thread -> ClientPC]
      BY <1>1 DEF Init, ClientPC
    <2>2. /\ mails \in [Client -> Nat] /\ sem \in [Client -> {NoSem, 0, 1}]
          /\ result \in [Client -> {"ok", "fail"}] /\ has_response \in [Client -> BOOLEAN]
      BY DEF Init
    <2>3. error_counts \in [Gprs -> 0..(ErrorLimit + 1)] /\ endless \in SUBSET Client
      BY BoundsAssumption DEF Init
    <2>4. /\ created \in BOOLEAN /\ mq_gsm \in Seq(Mail) /\ serving \in Seq(Mail)
          /\ gpc \in GsmPC /\ gsm_mode \in Mode /\ gsm_status \in {0, 1}
      BY <1>1 DEF Init, GsmPC, Mode
    <2> QED BY <2>1, <2>2, <2>3, <2>4 DEF TypeOK
  <1>3. KindOfWaiter /\ SessionOwned /\ PicOwned /\ GsmOwner /\ PicOwner
    BY Kinds DEF Init, KindOfWaiter, SessionOwned, PicOwned, GsmOwner, PicOwner, Inside
  <1>4. WaitersListed
    BY <1>1 DEF Init, WaitersListed
  <1>5. OneServed /\ QueueExists /\ MailsAwaited
    BY <1>1 DEF Init, OneServed, QueueExists, MailsAwaited
  <1>6. WaitersMailed /\ WaitsOnSem
    BY Kinds DEF Init, WaitersMailed, WaitsOnSem, Waiting
  <1>7. UploadSem /\ ErrorsCounted
    BY Kinds, BoundsAssumption DEF Init, UploadSem, ErrorsCounted
  <1> QED BY <1>2, <1>3, <1>4, <1>5, <1>6, <1>7 DEF IInv

(* A step that moves thread t, changes its semaphore only, and leaves the mails alone. *)
LEMMA Bystanders ==
  ASSUME TypeOK, MailInv, NEW t \in Thread, NEW x \in ClientPC,
         pc' = [pc EXCEPT ![t] = x], pc[t] # "wait_sem", x # "wait_sem",
         sem' \in [Client -> {NoSem, 0, 1}],
         \A d \in Client : d # t => sem'[d] = sem[d],
         UNCHANGED queueVars, gpc' = gpc
  PROVE  MailInv'
  <1>1. pc \in [Thread -> ClientPC]
    BY DEF TypeOK
  <1>2. \A d \in Client : Waiting(d)' <=> Waiting(d)
    BY <1>1, Kinds DEF Waiting
  <1>3. OneServed' /\ WaitsOnSem'
    BY <1>1, Kinds DEF MailInv, OneServed, WaitsOnSem, queueVars
  <1> QED BY <1>2, <1>3, MailsUntouched

(* What a step of a client leaves alone keeps its type and its part of the invariant. *)
LEMMA BeginStep == ASSUME IInv, NEW c \in Client, Begin(c) PROVE IInv'
  <1>1. /\ TypeOK /\ LockInv /\ MailInv /\ GprsInv /\ c \in Locking /\ pc[c] = "idle"
        /\ rt_mutex_take("gsm", c, "wait_gsm", "session")
        /\ UNCHANGED <<clientVars, queueVars, gsmVars>> /\ c \in Thread
    BY Parts, Kinds DEF Begin
  <1>2. PICK x \in {"wait_gsm", "session"} : pc' = [pc EXCEPT ![c] = x]
    BY <1>1 DEF rt_mutex_take
  <1>3. LockInv' /\ owner' \in [Mutex -> Thread \cup {NULL}] /\ waiters' \in [Mutex -> Seq(Thread)]
    BY <1>1, TakeGsm
  <1>4. x \in ClientPC
    BY DEF ClientPC
  <1>5. TypeOK'
    BY <1>1, <1>2, <1>3, <1>4 DEF TypeOK, clientVars, queueVars, gsmVars
  <1>6. MailInv'
    BY <1>1, <1>2, <1>4, Bystanders DEF clientVars, gsmVars, TypeOK
  <1>7. GprsInv'
    BY <1>1, <1>2, Kinds DEF GprsInv, UploadSem, ErrorsCounted, clientVars, TypeOK
  <1> QED BY <1>3, <1>5, <1>6, <1>7, Parts DEF IInv, LockInv, MailInv, GprsInv

(* The console starts a command, outside any mutex. *)
LEMMA ShellBeginStep == ASSUME IInv, NEW c \in Client, ShellBegin(c) PROVE IInv'
  <1>1. /\ TypeOK /\ LockInv /\ MailInv /\ GprsInv /\ c \in Shell /\ pc[c] = "idle"
        /\ pc' = [pc EXCEPT ![c] = "session"]
        /\ UNCHANGED <<mutexVars, clientVars, queueVars, gsmVars>> /\ c \in Thread
    BY Parts, Kinds DEF ShellBegin
  <1>2. "session" \in ClientPC
    BY DEF ClientPC
  <1>3. TypeOK'
    BY <1>1, <1>2 DEF TypeOK, mutexVars, clientVars, queueVars, gsmVars
  <1>4. LockInv'
    BY <1>1, <1>2, MoveOn DEF mutexVars
  <1>5. MailInv'
    BY <1>1, <1>2, Bystanders DEF clientVars, gsmVars, TypeOK
  <1>6. GprsInv'
    BY <1>1, Kinds DEF GprsInv, UploadSem, ErrorsCounted, clientVars, TypeOK
  <1> QED BY <1>3, <1>4, <1>5, <1>6 DEF IInv, LockInv, MailInv, GprsInv

(* A suspended thread that was handed a mutex goes on. *)
LEMMA ResumeStep == ASSUME IInv, NEW t \in Thread, Resume(t) PROVE IInv'
  <1>1. /\ TypeOK /\ LockInv /\ MailInv /\ GprsInv
        /\ UNCHANGED <<mutexVars, clientVars, queueVars, gsmVars>>
    BY Parts DEF Resume
  <1>2. PICK x \in {"session", "pic"} :
           /\ pc' = [pc EXCEPT ![t] = x]
           /\ \/ pc[t] = "wait_gsm" /\ owner["gsm"] = t /\ x = "session"
              \/ pc[t] = "wait_pic" /\ owner["pic"] = t /\ x = "pic"
    BY DEF Resume
  <1>3. x \in ClientPC
    BY DEF ClientPC
  <1>4. TypeOK'
    BY <1>1, <1>2, <1>3 DEF TypeOK, mutexVars, clientVars, queueVars, gsmVars
  <1>5. LockInv'
    BY <1>1, <1>2, <1>3, MoveOn DEF mutexVars
  <1>6. MailInv'
    BY <1>1, <1>2, <1>3, Bystanders DEF clientVars, gsmVars, TypeOK
  <1>7. GprsInv'
    BY <1>1, <1>2, Kinds DEF GprsInv, UploadSem, ErrorsCounted, clientVars, TypeOK
  <1> QED BY <1>4, <1>5, <1>6, <1>7 DEF IInv, LockInv, MailInv, GprsInv

(* A step of the gsm thread or of the modem touches no lock. *)
LEMMA LocksUntouched ==
  ASSUME LockInv, UNCHANGED <<owner, waiters, pc>>
  PROVE  LockInv'
  BY DEF LockInv, KindOfWaiter, SessionOwned, PicOwned, GsmOwner, PicOwner, WaitersListed

(* The count of a client's mails stops at the bound of its session. *)
LEMMA MailCounted ==
  ASSUME TypeOK, NEW c \in Client, CountMail(c)
  PROVE  /\ mails' \in [Client -> Nat]
         /\ \A d \in Client : d # c => mails'[d] = mails[d]
  BY DEF TypeOK, CountMail

(* A session that comes to a loop without end is only marked. *)
LEMMA LoopStep == ASSUME IInv, NEW c \in Client, Loop(c) PROVE IInv'
  <1>1. /\ TypeOK /\ LockInv /\ MailInv /\ GprsInv
        /\ endless' = endless \cup {c}
        /\ UNCHANGED <<owner, waiters, pc, mails, sem, result, has_response, error_counts>>
        /\ UNCHANGED <<queueVars, gsmVars>>
    BY Parts DEF Loop, mutexVars
  <1>2. TypeOK'
    BY <1>1 DEF TypeOK, queueVars, gsmVars
  <1>3. LockInv'
    BY <1>1, LocksUntouched
  <1>4. MailInv'
    BY <1>1 DEF MailInv, OneServed, QueueExists, MailsAwaited, WaitersMailed, WaitsOnSem, Waiting,
                queueVars, gsmVars
  <1>5. GprsInv'
    BY <1>1 DEF GprsInv, UploadSem, ErrorsCounted
  <1> QED BY <1>2, <1>3, <1>4, <1>5 DEF IInv, LockInv, MailInv, GprsInv

(* One command: refused for want of a queue or of room, or posted. *)
LEMMA SendCmdStep == ASSUME IInv, NEW c \in Client, SendCmd(c) PROVE IInv'
  <1>1. /\ TypeOK /\ LockInv /\ MailInv /\ GprsInv /\ c \in Thread /\ c \notin Gprs
        /\ pc[c] \in {"session", "pic"} /\ pc[c] \in ClientPC
        /\ UNCHANGED <<owner, waiters, error_counts, endless, created, serving, gpc, gsm_mode, gsm_status>>
        /\ mails' \in [Client -> Nat] /\ \A d \in Client : d # c => mails'[d] = mails[d]
        /\ has_response' = [has_response EXCEPT ![c] = FALSE]
        /\ result' = [result EXCEPT ![c] = "fail"]
    BY Parts, Kinds, MailCounted DEF SendCmd, TypeOK, mutexVars, gsmVars
  <1>2. CASE pc' = pc /\ mq_gsm' = mq_gsm /\ sem' = [sem EXCEPT ![c] = NoSem]
    <2>1. TypeOK'
      BY <1>1, <1>2 DEF TypeOK
    <2>2. LockInv'
      BY <1>1, <1>2, LocksUntouched
    <2>3. MailInv'
      <3>1. pc' = [pc EXCEPT ![c] = pc[c]] /\ pc[c] # "wait_sem"
        BY <1>1, <1>2 DEF TypeOK
      <3>2. sem' \in [Client -> {NoSem, 0, 1}] /\ \A d \in Client : d # c => sem'[d] = sem[d]
        BY <1>2, <2>1 DEF TypeOK
      <3> QED BY <1>1, <1>2, <3>1, <3>2, Bystanders DEF queueVars
    <2>4. GprsInv'
      BY <1>1, <1>2, Kinds DEF GprsInv, UploadSem, ErrorsCounted, TypeOK
    <2> QED BY <2>1, <2>2, <2>3, <2>4 DEF IInv, LockInv, MailInv, GprsInv
  <1>3. CASE /\ created
             /\ sem' = [sem EXCEPT ![c] = 0]
             /\ rt_mq_send([client |-> c, mode |-> "CMD", has_response |-> FALSE])
             /\ pc' = [pc EXCEPT ![c] = "wait_sem"]
    <2> DEFINE mail == [client |-> c, mode |-> "CMD", has_response |-> FALSE]
    <2>1. mail \in Mail /\ mail.client = c /\ mq_gsm' = Append(mq_gsm, mail)
      BY <1>3 DEF Mail, Mode, rt_mq_send
    <2> HIDE DEF mail
    <2>2. sem' \in [Client -> {NoSem, 0, 1}] /\ sem' \in [Client -> Int] /\ sem'[c] = 0
          /\ \A d \in Client : d # c => sem'[d] = sem[d]
      BY <1>3 DEF TypeOK, IInv, NoSem
    <2>3. MailInv' /\ mq_gsm' \in Seq(Mail)
      BY <1>1, <1>3, <2>1, <2>2, MailPosted
    <2>4. "wait_sem" \in ClientPC
      BY DEF ClientPC
    <2>5. TypeOK'
      BY <1>1, <1>3, <2>2, <2>3, <2>4 DEF TypeOK
    <2>6. LockInv'
      <3>1. (c \in Shell /\ pc[c] = "session") \/ c \in Locking
        BY <1>1, Kinds DEF LockInv, KindOfWaiter
      <3> QED BY <1>1, <1>3, <2>4, <3>1, MoveOn
    <2>7. GprsInv'
      BY <1>1, <1>3, Kinds DEF GprsInv, UploadSem, ErrorsCounted, TypeOK
    <2> QED BY <2>3, <2>5, <2>6, <2>7 DEF IInv, LockInv, MailInv, GprsInv
  <1> QED BY <1>2, <1>3 DEF SendCmd

(* One frame of the gprs thread. *)
LEMMA SendFrameStep ==
  ASSUME IInv, NEW c \in Client, NEW expects \in BOOLEAN, NEW urgent \in BOOLEAN,
         SendFrame(c, expects, urgent)
  PROVE  IInv'
  <1> DEFINE mail == [client |-> c, mode |-> "GPRS", has_response |-> expects]
  <1>1. /\ TypeOK /\ LockInv /\ MailInv /\ GprsInv /\ c \in Thread /\ c \in Gprs
        /\ pc[c] = "session" /\ pc[c] \in ClientPC /\ c \in Locking
        /\ UNCHANGED <<owner, waiters, error_counts, endless, created, serving, gpc, gsm_mode, gsm_status>>
        /\ mails' = [mails EXCEPT ![c] = 1]
        /\ has_response' = [has_response EXCEPT ![c] = expects]
        /\ result' = [result EXCEPT ![c] = "fail"]
    BY Parts, Kinds DEF SendFrame, TypeOK, mutexVars, gsmVars
  <1>2. mail \in Mail /\ mail.client = c
    BY DEF Mail, Mode
  <1>3. PICK v \in {NoSem, 0} :
           /\ sem' = [sem EXCEPT ![c] = v]
           /\ \/ pc' = pc /\ mq_gsm' = mq_gsm
              \/ /\ v = 0 /\ created /\ pc' = [pc EXCEPT ![c] = "wait_sem"]
                 /\ mq_gsm' = Append(mq_gsm, mail) \/ mq_gsm' = <<mail>> \o mq_gsm
    BY DEF SendFrame, rt_mq_send, rt_mq_urgent
  <1> HIDE DEF mail
  <1>4. /\ sem' \in [Client -> {NoSem, 0, 1}] /\ sem' \in [Client -> Int] /\ sem'[c] = v
        /\ \A d \in Client : d # c => sem'[d] = sem[d]
    BY <1>1, <1>3 DEF TypeOK, NoSem
  <1>5. CASE pc' = pc /\ mq_gsm' = mq_gsm
    <2>1. TypeOK'
      BY <1>1, <1>4, <1>5 DEF TypeOK
    <2>2. LockInv'
      BY <1>1, <1>5, LocksUntouched
    <2>3. MailInv'
      <3>1. pc' = [pc EXCEPT ![c] = pc[c]] /\ pc[c] # "wait_sem"
        BY <1>1, <1>5 DEF TypeOK
      <3> QED BY <1>1, <1>4, <1>5, <3>1, Bystanders DEF queueVars
    <2>4. GprsInv'
      BY <1>1, <1>4, <1>5, Kinds DEF GprsInv, UploadSem, ErrorsCounted, TypeOK
    <2> QED BY <2>1, <2>2, <2>3, <2>4 DEF IInv, LockInv, MailInv, GprsInv
  <1>6. CASE /\ v = 0 /\ created /\ pc' = [pc EXCEPT ![c] = "wait_sem"]
             /\ mq_gsm' = Append(mq_gsm, mail) \/ mq_gsm' = <<mail>> \o mq_gsm
    <2>1. MailInv' /\ mq_gsm' \in Seq(Mail)
      BY <1>1, <1>2, <1>4, <1>6, MailPosted
    <2>2. "wait_sem" \in ClientPC
      BY DEF ClientPC
    <2>3. TypeOK'
      BY <1>1, <1>4, <1>6, <2>1, <2>2 DEF TypeOK
    <2>4. LockInv'
      BY <1>1, <1>6, <2>2, MoveOn
    <2>5. GprsInv'
      BY <1>1, <1>4, <1>6, Kinds, ZenonT(40) DEF GprsInv, UploadSem, ErrorsCounted, TypeOK
    <2> QED BY <2>1, <2>3, <2>4, <2>5 DEF IInv, LockInv, MailInv, GprsInv
  <1> QED BY <1>3, <1>5, <1>6

(* One page of a picture: the mail always finds room. *)
LEMMA SendPageStep ==
  ASSUME IInv, NEW c \in Client, NEW expects \in BOOLEAN, SendPage(c, expects)
  PROVE  IInv'
  <1> DEFINE mail == [client |-> c, mode |-> "GPRS", has_response |-> expects]
  <1>1. /\ TypeOK /\ LockInv /\ MailInv /\ GprsInv /\ c \in Thread /\ c \in Gprs
        /\ pc[c] = "pic" /\ c \in Locking /\ created
        /\ UNCHANGED <<owner, waiters, error_counts, endless, created, serving, gpc, gsm_mode, gsm_status>>
        /\ mails' \in [Client -> Nat] /\ \A d \in Client : d # c => mails'[d] = mails[d]
        /\ has_response' = [has_response EXCEPT ![c] = expects]
        /\ result' = result
        /\ sem' = [sem EXCEPT ![c] = IF mails[c] = 0 THEN 0 ELSE sem[c]]
        /\ pc' = [pc EXCEPT ![c] = "wait_sem"]
    BY Parts, Kinds, MailCounted DEF SendPage, TypeOK, mutexVars, gsmVars
  <1>2. mail \in Mail /\ mail.client = c
    BY DEF Mail, Mode
  <1>3. mq_gsm' = Append(mq_gsm, mail)
    <2>1. ~IsFull
      BY <1>1, RoomInQueue DEF Inside
    <2> QED BY <2>1 DEF SendPage, rt_mq_send
  <1> HIDE DEF mail
  <1>4. sem' = [sem EXCEPT ![c] = 0]
    <2>1. mails[c] \in Nat
      BY <1>1 DEF TypeOK
    <2>2. mails[c] # 0 => sem[c] = 0
      BY <1>1, <2>1 DEF GprsInv, UploadSem
    <2> QED BY <1>1, <2>2
  <1>5. /\ sem' \in [Client -> {NoSem, 0, 1}] /\ sem' \in [Client -> Int] /\ sem'[c] = 0
        /\ \A d \in Client : d # c => sem'[d] = sem[d]
    BY <1>1, <1>4 DEF TypeOK, NoSem
  <1>6. MailInv' /\ mq_gsm' \in Seq(Mail)
    BY <1>1, <1>2, <1>3, <1>5, MailPosted
  <1>7. "wait_sem" \in ClientPC
    BY DEF ClientPC
  <1>8. TypeOK'
    BY <1>1, <1>5, <1>6, <1>7 DEF TypeOK
  <1>9. LockInv'
    BY <1>1, <1>7, MoveOn
  <1>10. GprsInv'
    BY <1>1, <1>5, Kinds DEF GprsInv, UploadSem, ErrorsCounted, TypeOK
  <1> QED BY <1>6, <1>8, <1>9, <1>10 DEF IInv, LockInv, MailInv, GprsInv

(* A client opens the picture file inside its session. *)
LEMMA TakePicStep == ASSUME IInv, NEW c \in Client, TakePic(c) PROVE IInv'
  <1>1. /\ TypeOK /\ LockInv /\ MailInv /\ GprsInv /\ c \in Thread /\ c \notin Photo
        /\ c \in Mms \cup Gprs /\ c \in Locking /\ pc[c] = "session"
        /\ rt_mutex_take("pic", c, "wait_pic", "pic")
        /\ UNCHANGED <<sem, result, has_response, error_counts, endless, queueVars, gsmVars>>
        /\ mails \in [Client -> Nat]
    BY Parts, Kinds DEF TakePic, TypeOK
  <1>2. PICK x \in {"wait_pic", "pic"} : pc' = [pc EXCEPT ![c] = x]
    BY <1>1 DEF rt_mutex_take
  <1>3. LockInv' /\ owner' \in [Mutex -> Thread \cup {NULL}] /\ waiters' \in [Mutex -> Seq(Thread)]
    BY <1>1, TakePicFile
  <1>4. x \in ClientPC
    BY DEF ClientPC
  <1>5. /\ mails' \in [Client -> Nat]
        /\ \A d \in Gprs : mails'[d] = mails[d]
        /\ c \in Gprs => mails[c] = 0
    BY <1>1, Kinds DEF TakePic
  <1>6. TypeOK'
    BY <1>1, <1>2, <1>3, <1>4, <1>5 DEF TypeOK, queueVars, gsmVars
  <1>7. MailInv'
    BY <1>1, <1>2, <1>4, Bystanders DEF gsmVars, TypeOK
  <1>8. GprsInv'
    BY <1>1, <1>2, <1>5, Kinds DEF GprsInv, UploadSem, ErrorsCounted, TypeOK
  <1> QED BY <1>3, <1>6, <1>7, <1>8 DEF IInv, LockInv, MailInv, GprsInv

(* The upload ends and closes the file; its semaphore is deleted. *)
LEMMA EndUploadStep == ASSUME IInv, NEW c \in Client, EndUpload(c) PROVE IInv'
  <1>1. /\ TypeOK /\ LockInv /\ MailInv /\ GprsInv /\ c \in Thread /\ c \notin Photo
        /\ c \in Gprs /\ pc[c] = "pic" /\ rt_mutex_release("pic")
        /\ pc' = [pc EXCEPT ![c] = "session"]
        /\ sem' = [sem EXCEPT ![c] = NoSem]
        /\ UNCHANGED <<has_response, error_counts, queueVars, gsmVars>> /\ endless' = endless \ {c}
    BY Parts, Kinds DEF EndUpload
  <1>2. LockInv' /\ owner' \in [Mutex -> Thread \cup {NULL}] /\ waiters' \in [Mutex -> Seq(Thread)]
    BY <1>1, ReleasePicFile
  <1>3. "session" \in ClientPC
    BY DEF ClientPC
  <1>4. /\ mails' \in [Client -> Nat] /\ result' \in [Client -> {"ok", "fail"}]
        /\ \A d \in Gprs : d # c => mails'[d] = mails[d]
    <2>1. mails \in [Client -> Nat] /\ mails' = [mails EXCEPT ![c] = IF mails[c] = 0 THEN 1 ELSE mails[c]]
      BY <1>1 DEF EndUpload, TypeOK
    <2>2. \E r \in {"ok", "fail"} : result' = [result EXCEPT ![c] = r]
      BY DEF EndUpload
    <2>3. result \in [Client -> {"ok", "fail"}]
      BY <1>1 DEF TypeOK
    <2> QED BY <2>1, <2>2, <2>3, Kinds
  <1>5. sem' \in [Client -> {NoSem, 0, 1}] /\ \A d \in Client : d # c => sem'[d] = sem[d]
    BY <1>1 DEF TypeOK
  <1>6. TypeOK'
    BY <1>1, <1>2, <1>3, <1>4, <1>5 DEF TypeOK, queueVars, gsmVars
  <1>7. MailInv'
    BY <1>1, <1>3, <1>5, Bystanders DEF gsmVars
  <1>8. GprsInv'
    BY <1>1, <1>4, <1>5, Kinds DEF GprsInv, UploadSem, ErrorsCounted, TypeOK
  <1> QED BY <1>2, <1>6, <1>7, <1>8 DEF IInv, LockInv, MailInv, GprsInv

(* The MMS thread and the camera thread give the file up. *)
LEMMA MmsReleasePicStep == ASSUME IInv, NEW c \in Client, MmsReleasePic(c) PROVE IInv'
  <1>1. /\ TypeOK /\ LockInv /\ MailInv /\ GprsInv /\ c \in Thread /\ c \notin Photo
        /\ c \in Mms /\ c \notin Gprs /\ pc[c] = "pic" /\ rt_mutex_release("pic")
        /\ pc' = [pc EXCEPT ![c] = "session"]
        /\ UNCHANGED <<clientVars, queueVars, gsmVars>>
    BY Parts, Kinds DEF MmsReleasePic
  <1>2. LockInv' /\ owner' \in [Mutex -> Thread \cup {NULL}] /\ waiters' \in [Mutex -> Seq(Thread)]
    BY <1>1, ReleasePicFile
  <1>3. "session" \in ClientPC
    BY DEF ClientPC
  <1>4. TypeOK'
    BY <1>1, <1>2, <1>3 DEF TypeOK, clientVars, queueVars, gsmVars
  <1>5. MailInv'
    BY <1>1, <1>3, Bystanders DEF clientVars, gsmVars, TypeOK
  <1>6. GprsInv'
    BY <1>1, Kinds DEF GprsInv, UploadSem, ErrorsCounted, clientVars, TypeOK
  <1> QED BY <1>2, <1>4, <1>5, <1>6 DEF IInv, LockInv, MailInv, GprsInv

(* The camera thread asks for the picture file. *)
LEMMA PhotoBeginStep == ASSUME IInv, NEW t \in Photo, PhotoBegin(t) PROVE IInv'
  <1>1. /\ TypeOK /\ LockInv /\ MailInv /\ GprsInv /\ t \in Thread /\ t \notin Client
        /\ pc[t] = "idle" /\ rt_mutex_take("pic", t, "wait_pic", "pic")
        /\ UNCHANGED <<clientVars, queueVars, gsmVars>>
    BY Parts, Kinds DEF PhotoBegin
  <1>2. PICK x \in {"wait_pic", "pic"} : pc' = [pc EXCEPT ![t] = x]
    BY <1>1 DEF rt_mutex_take
  <1>3. LockInv' /\ owner' \in [Mutex -> Thread \cup {NULL}] /\ waiters' \in [Mutex -> Seq(Thread)]
    BY <1>1, TakePicFile
  <1>4. x \in ClientPC
    BY DEF ClientPC
  <1>5. TypeOK'
    BY <1>1, <1>2, <1>3, <1>4 DEF TypeOK, clientVars, queueVars, gsmVars
  <1>6. MailInv'
    BY <1>1, <1>2, <1>4, Bystanders DEF clientVars, gsmVars, TypeOK
  <1>7. GprsInv'
    BY <1>1, <1>2, Kinds DEF GprsInv, UploadSem, ErrorsCounted, clientVars, TypeOK
  <1> QED BY <1>3, <1>5, <1>6, <1>7 DEF IInv, LockInv, MailInv, GprsInv

(* The camera thread gives the picture file up. *)
LEMMA PhotoEndStep == ASSUME IInv, NEW t \in Photo, PhotoEnd(t) PROVE IInv'
  <1>1. /\ TypeOK /\ LockInv /\ MailInv /\ GprsInv /\ t \in Thread /\ t \notin Client
        /\ pc[t] = "pic" /\ rt_mutex_release("pic") /\ pc' = [pc EXCEPT ![t] = "idle"]
        /\ UNCHANGED <<clientVars, queueVars, gsmVars>>
    BY Parts, Kinds DEF PhotoEnd
  <1>2. LockInv' /\ owner' \in [Mutex -> Thread \cup {NULL}] /\ waiters' \in [Mutex -> Seq(Thread)]
    BY <1>1, ReleasePicFile
  <1>3. "idle" \in ClientPC
    BY DEF ClientPC
  <1>4. TypeOK'
    BY <1>1, <1>2, <1>3 DEF TypeOK, clientVars, queueVars, gsmVars
  <1>5. MailInv'
    BY <1>1, <1>3, Bystanders DEF clientVars, gsmVars, TypeOK
  <1>6. GprsInv'
    BY <1>1, Kinds DEF GprsInv, UploadSem, ErrorsCounted, clientVars, TypeOK
  <1> QED BY <1>2, <1>4, <1>5, <1>6 DEF IInv, LockInv, MailInv, GprsInv

(* The answer is taken. *)
LEMMA TakeResultStep == ASSUME IInv, NEW c \in Client, TakeResult(c) PROVE IInv'
  <1> DEFINE x == IF owner["pic"] = c THEN "pic" ELSE "session"
             v == IF c \in Gprs /\ owner["pic"] = c THEN 0 ELSE NoSem
  <1>1. /\ TypeOK /\ LockInv /\ MailInv /\ GprsInv /\ c \in Thread
        /\ pc[c] = "wait_sem" /\ sem[c] = 1
        /\ sem' = [sem EXCEPT ![c] = v] /\ pc' = [pc EXCEPT ![c] = x]
        /\ UNCHANGED <<owner, waiters, mails, has_response, error_counts, endless, queueVars, gsmVars>>
    <2>1. sem[c] \in {NoSem, 0, 1} /\ sem[c] > 0
      BY DEF TakeResult, IInv, TypeOK
    <2>2. sem[c] = 1
      BY <2>1 DEF NoSem
    <2> QED BY <2>2, Parts, Kinds DEF TakeResult, mutexVars
  <1>2. x \in ClientPC /\ x # "wait_sem" /\ v \in {NoSem, 0}
    BY DEF ClientPC
  <1>3. result' \in [Client -> {"ok", "fail"}]
    BY <1>1 DEF TakeResult, TypeOK
  <1>4. TypeOK'
    BY <1>1, <1>2, <1>3 DEF TypeOK, queueVars, gsmVars
  <1>5. LockInv'
    <2>1. c \in Shell => owner["pic"] # c
      BY Kinds, <1>1 DEF LockInv, PicOwner
    <2>2. c \in Shell \/ c \in Locking
      BY Kinds
    <2> QED BY <1>1, <1>2, <2>1, <2>2, MoveOn
  <1>6. MailInv'
    <2>1. \A d \in Client : Waiting(d)' <=> Waiting(d)
      BY <1>1, <1>2, Kinds DEF Waiting, TypeOK
    <2>2. OneServed' /\ WaitsOnSem'
      BY <1>1, <1>2, Kinds DEF MailInv, OneServed, WaitsOnSem, queueVars, gsmVars, TypeOK
    <2> QED BY <1>1, <2>1, <2>2, MailsUntouched
  <1>7. GprsInv'
    BY <1>1, Kinds DEF GprsInv, UploadSem, ErrorsCounted, TypeOK
  <1> QED BY <1>4, <1>5, <1>6, <1>7 DEF IInv, LockInv, MailInv, GprsInv

(* A session ends. *)
LEMMA FinishStep == ASSUME IInv, NEW c \in Client, Finish(c) PROVE IInv'
  <1>1. /\ TypeOK /\ LockInv /\ MailInv /\ GprsInv /\ c \in Thread /\ c \notin Gprs
        /\ pc[c] = "session" /\ pc' = [pc EXCEPT ![c] = "idle"]
        /\ mails' = [mails EXCEPT ![c] = 0] /\ result' = [result EXCEPT ![c] = "fail"]
        /\ has_response' = [has_response EXCEPT ![c] = FALSE]
        /\ UNCHANGED <<sem, error_counts, queueVars, gsmVars>> /\ endless' = endless \ {c}
    BY Parts, Kinds DEF Finish, LocalsDie
  <1>2. "idle" \in ClientPC
    BY DEF ClientPC
  <1>3. LockInv' /\ owner' \in [Mutex -> Thread \cup {NULL}] /\ waiters' \in [Mutex -> Seq(Thread)]
    <2>1. CASE c \in Shell
      <3>1. owner' = owner /\ waiters' = waiters
        BY <2>1 DEF Finish, mutexVars
      <3>2. LockInv'
        BY <1>1, <1>2, <2>1, <3>1, MoveOn
      <3> QED BY <1>1, <3>1, <3>2 DEF TypeOK
    <2>2. CASE c \in Locking
      BY <1>1, <2>2, Kinds, ReleaseGsm DEF Finish
    <2> QED BY <2>1, <2>2, Kinds
  <1>4. TypeOK'
    BY <1>1, <1>2, <1>3 DEF TypeOK, queueVars, gsmVars
  <1>5. MailInv'
    BY <1>1, <1>2, Bystanders DEF gsmVars, TypeOK
  <1>6. GprsInv'
    BY <1>1, Kinds DEF GprsInv, UploadSem, ErrorsCounted, TypeOK
  <1> QED BY <1>3, <1>4, <1>5, <1>6 DEF IInv, LockInv, MailInv, GprsInv

(* The gprs thread ends its session, or goes on to switch the modem off. *)
LEMMA FinishGprsStep == ASSUME IInv, NEW c \in Client, FinishGprs(c) PROVE IInv'
  <1>1. /\ TypeOK /\ LockInv /\ MailInv /\ GprsInv /\ c \in Thread /\ c \in Gprs /\ c \in Locking
        /\ pc[c] = "session"
        /\ error_counts' = [error_counts EXCEPT ![c] = IF result[c] = "ok" THEN 0 ELSE error_counts[c] + 1]
        /\ mails' = [mails EXCEPT ![c] = 0] /\ result' = [result EXCEPT ![c] = "fail"]
        /\ has_response' = [has_response EXCEPT ![c] = FALSE]
        /\ UNCHANGED <<sem, queueVars, gsmVars>> /\ endless' = endless \ {c}
    BY Parts, Kinds DEF FinishGprs, LocalsDie
  <1>2. "idle" \in ClientPC /\ "disable" \in ClientPC
    BY DEF ClientPC
  <1>3. /\ error_counts' \in [Gprs -> 0..(ErrorLimit + 1)]
        /\ \A d \in Gprs : d # c => error_counts'[d] = error_counts[d]
    <2>1. error_counts \in [Gprs -> 0..(ErrorLimit + 1)] /\ error_counts[c] <= ErrorLimit
      BY <1>1 DEF GprsInv, ErrorsCounted, TypeOK
    <2>2. (IF result[c] = "ok" THEN 0 ELSE error_counts[c] + 1) \in 0..(ErrorLimit + 1)
      BY <1>1, <2>1, BoundsAssumption
    <2> QED BY <1>1, <2>1, <2>2
  <1>4. CASE error_counts'[c] > ErrorLimit
    <2>1. pc' = [pc EXCEPT ![c] = "disable"] /\ owner' = owner /\ waiters' = waiters
      BY <1>4 DEF FinishGprs, mutexVars
    <2>2. TypeOK'
      BY <1>1, <1>2, <1>3, <2>1 DEF TypeOK, queueVars, gsmVars
    <2>3. LockInv'
      BY <1>1, <1>2, <2>1, MoveOn
    <2>4. MailInv'
      BY <1>1, <1>2, <2>1, Bystanders DEF gsmVars, TypeOK
    <2>5. GprsInv'
      BY <1>1, <1>3, <2>1, Kinds DEF GprsInv, UploadSem, ErrorsCounted, TypeOK
    <2> QED BY <2>2, <2>3, <2>4, <2>5 DEF IInv, LockInv, MailInv, GprsInv
  <1>5. CASE ~(error_counts'[c] > ErrorLimit)
    <2>1. pc' = [pc EXCEPT ![c] = "idle"] /\ rt_mutex_release("gsm")
      BY <1>5 DEF FinishGprs
    <2>2. LockInv' /\ owner' \in [Mutex -> Thread \cup {NULL}] /\ waiters' \in [Mutex -> Seq(Thread)]
      BY <1>1, <2>1, ReleaseGsm
    <2>3. TypeOK'
      BY <1>1, <1>2, <1>3, <2>1, <2>2 DEF TypeOK, queueVars, gsmVars
    <2>4. MailInv'
      BY <1>1, <1>2, <2>1, Bystanders DEF gsmVars, TypeOK
    <2>5. GprsInv'
      <3>1. error_counts'[c] <= ErrorLimit
        BY <1>1, <1>3, <1>5, BoundsAssumption
      <3> QED BY <1>1, <1>3, <2>1, <3>1, Kinds DEF GprsInv, UploadSem, ErrorsCounted, TypeOK
    <2> QED BY <2>2, <2>3, <2>4, <2>5 DEF IInv, LockInv, MailInv, GprsInv
  <1> QED BY <1>4, <1>5

(* The gprs thread switches the modem off, clears its counter and ends its session. *)
LEMMA DisableStep == ASSUME IInv, NEW c \in Client, Disable(c) PROVE IInv'
  <1>1. /\ TypeOK /\ LockInv /\ MailInv /\ GprsInv /\ c \in Thread /\ c \in Gprs /\ c \in Locking
        /\ pc[c] = "disable" /\ pc' = [pc EXCEPT ![c] = "idle"] /\ rt_mutex_release("gsm")
        /\ error_counts' = [error_counts EXCEPT ![c] = 0]
        /\ gsm_status' \in {0, gsm_status}
        /\ UNCHANGED <<mails, sem, result, has_response, endless, queueVars, gpc, gsm_mode>>
    BY Parts, Kinds DEF Disable
  <1>2. "idle" \in ClientPC
    BY DEF ClientPC
  <1>3. LockInv' /\ owner' \in [Mutex -> Thread \cup {NULL}] /\ waiters' \in [Mutex -> Seq(Thread)]
    BY <1>1, ReleaseGsm
  <1>4. error_counts' \in [Gprs -> 0..(ErrorLimit + 1)]
    BY <1>1, BoundsAssumption DEF TypeOK
  <1>5. TypeOK'
    BY <1>1, <1>2, <1>3, <1>4 DEF TypeOK, queueVars
  <1>6. MailInv'
    BY <1>1, <1>2, Bystanders DEF TypeOK
  <1>7. GprsInv'
    BY <1>1, <1>2, Kinds, BoundsAssumption DEF GprsInv, UploadSem, ErrorsCounted, TypeOK
  <1> QED BY <1>3, <1>5, <1>6, <1>7 DEF IInv, LockInv, MailInv, GprsInv

(* A step of the gsm thread that neither takes nor answers a mail. *)
LEMMA GsmQuiet ==
  ASSUME IInv, UNCHANGED <<mutexVars, pc, mails, sem, has_response, error_counts, endless, mq_gsm, serving>>,
         result' \in [Client -> {"ok", "fail"}], created' \in BOOLEAN, created => created',
         gpc' \in GsmPC, gsm_mode' \in Mode, gsm_status' \in {0, 1},
         OneServed'
  PROVE  IInv'
  <1>1. TypeOK /\ LockInv /\ MailInv /\ GprsInv
    BY Parts
  <1>2. TypeOK'
    BY <1>1 DEF TypeOK, mutexVars
  <1>3. LockInv'
    BY <1>1, LocksUntouched DEF mutexVars
  <1>4. MailInv'
    BY <1>1 DEF MailInv, QueueExists, MailsAwaited, WaitersMailed, WaitsOnSem, Waiting
  <1>5. GprsInv'
    BY <1>1 DEF GprsInv, UploadSem, ErrorsCounted
  <1> QED BY <1>2, <1>3, <1>4, <1>5 DEF IInv, LockInv, MailInv, GprsInv

(* The modem's mode and status keep their types. *)
LEMMA SwitchTypes ==
  ASSUME TypeOK, NEW new_mode \in Mode, NEW ok \in BOOLEAN, gsm_mode_switch(new_mode, ok)
  PROVE  gsm_mode' \in Mode /\ gsm_status' \in {0, 1}
  BY DEF TypeOK, gsm_mode_switch, Mode

(* The mail being served. *)
LEMMA ServedMail ==
  ASSUME TypeOK, OneServed, gpc \in {"switch", "execute", "release"}
  PROVE  Len(serving) = 1 /\ serving[1] \in Mail /\ serving[1].client \in Client
                          /\ serving[1].mode \in Mode
  <1>1. Len(serving) = 1 /\ 1 \in 1..Len(serving) /\ serving \in Seq(Mail)
    BY DEF TypeOK, OneServed
  <1>2. serving[1] \in Mail
    BY <1>1, ElementOfSeq
  <1> QED BY <1>1, <1>2 DEF Mail

(* One case for each step of the gsm thread. *)
LEMMA GsmStepIInv == ASSUME IInv, GsmStep PROVE IInv'
  <1>0. TypeOK /\ LockInv /\ MailInv /\ GprsInv /\ OneServed
    BY Parts DEF IInv
  <1>1. CASE GsmStart \/ GsmResetSuccess \/ GsmResetFailure \/ GsmPoll
    <2>1. /\ UNCHANGED <<mutexVars, pc, mails, sem, has_response, error_counts, endless, mq_gsm, serving, result>>
          /\ created' \in BOOLEAN /\ (created => created')
          /\ gpc \in {"start", "reset", "poll"} /\ gpc' \in {"reset", "poll", "recv"}
          /\ gsm_mode' = gsm_mode /\ gsm_status' \in {0, 1}
      BY <1>0, <1>1 DEF GsmStart, GsmResetSuccess, GsmResetFailure, GsmPoll, clientVars, queueVars, TypeOK
    <2>2. OneServed' /\ gpc' \in GsmPC
      BY <1>0, <2>1 DEF OneServed, GsmPC
    <2> QED BY <1>0, <2>1, <2>2, GsmQuiet DEF TypeOK
  <1>2. CASE GsmIdle
    <2>1. /\ UNCHANGED <<mutexVars, pc, mails, sem, has_response, error_counts, endless, mq_gsm, serving, result,
                         created>>
          /\ gpc = "recv" /\ gpc' = "poll"
      BY <1>2 DEF GsmIdle, clientVars, queueVars
    <2>2. gsm_mode' \in Mode /\ gsm_status' \in {0, 1}
      <3>1. "CMD" \in Mode
        BY DEF Mode
      <3> QED BY <1>0, <1>2, <3>1, SwitchTypes DEF GsmIdle, TypeOK
    <2>3. OneServed' /\ gpc' \in GsmPC
      BY <1>0, <2>1 DEF OneServed, GsmPC
    <2> QED BY <1>0, <2>1, <2>2, <2>3, GsmQuiet DEF TypeOK
  <1>3. CASE GsmSwitch
    <2> DEFINE c == serving[1].client
    <2>1. /\ UNCHANGED <<mutexVars, pc, mails, sem, has_response, error_counts, endless, mq_gsm, serving, created>>
          /\ gpc = "switch" /\ gpc' \in {"execute", "release"}
      BY <1>3 DEF GsmSwitch, queueVars
    <2>2. PICK ok \in BOOLEAN :
             /\ gsm_mode_switch(serving[1].mode, ok)
             /\ result' = IF ok THEN result ELSE [result EXCEPT ![c] = "fail"]
      BY <1>3 DEF GsmSwitch
    <2>3. serving[1].mode \in Mode
      BY <1>0, <2>1, ServedMail
    <2>4. gsm_mode' \in Mode /\ gsm_status' \in {0, 1}
      BY <1>0, <2>2, <2>3, SwitchTypes
    <2>5. result' \in [Client -> {"ok", "fail"}]
      BY <1>0, <2>2 DEF TypeOK
    <2>6. OneServed' /\ gpc' \in GsmPC
      BY <1>0, <2>1 DEF OneServed, GsmPC
    <2> QED BY <1>0, <2>1, <2>4, <2>5, <2>6, GsmQuiet DEF TypeOK
  <1>4. CASE GsmExecute
    <2>1. /\ UNCHANGED <<mutexVars, pc, mails, sem, has_response, error_counts, endless, mq_gsm, serving, created>>
          /\ gpc = "execute" /\ gpc' = "release"
      BY <1>4 DEF GsmExecute, queueVars
    <2>2. \E r \in {"ok", "fail"} : result' = [result EXCEPT ![serving[1].client] = r]
      BY <1>4 DEF GsmExecute
    <2>3. result' \in [Client -> {"ok", "fail"}]
      BY <1>0, <2>2 DEF TypeOK
    <2>4. gsm_mode' \in Mode /\ gsm_status' \in {0, 1}
      <3>1. "CMD" \in Mode
        BY DEF Mode
      <3>2. CASE UNCHANGED <<gsm_mode, gsm_status>>
        BY <1>0, <3>2 DEF TypeOK
      <3>3. CASE \E ok \in BOOLEAN : gsm_mode_switch("CMD", ok)
        BY <1>0, <3>1, <3>3, SwitchTypes
      <3> QED BY <1>4, <3>2, <3>3 DEF GsmExecute
    <2>5. OneServed' /\ gpc' \in GsmPC
      BY <1>0, <2>1 DEF OneServed, GsmPC
    <2> QED BY <1>0, <2>1, <2>3, <2>4, <2>5, GsmQuiet DEF TypeOK
  <1>5. CASE GsmRecv
    <2>1. MailInv' /\ mq_gsm' \in Seq(Mail) /\ serving' \in Seq(Mail)
      BY <1>0, <1>5, MailServed
    <2>2. /\ UNCHANGED <<mutexVars, pc, clientVars, created, gsm_mode, gsm_status>> /\ gpc' \in GsmPC
      BY <1>5 DEF GsmRecv, GsmPC
    <2>3. TypeOK'
      BY <1>0, <2>1, <2>2 DEF TypeOK, mutexVars, clientVars
    <2>4. LockInv'
      BY <1>0, <2>2, LocksUntouched DEF mutexVars
    <2>5. GprsInv'
      BY <1>0, <2>2 DEF GprsInv, UploadSem, ErrorsCounted, clientVars
    <2> QED BY <2>1, <2>3, <2>4, <2>5 DEF IInv, LockInv, MailInv, GprsInv
  <1>6. CASE GsmRelease
    <2>1. MailInv' /\ serving' \in Seq(Mail)
      BY <1>0, <1>6, MailReleased
    <2>2. PICK c \in Client : Waiting(c) /\ sem' = [sem EXCEPT ![c] = 1]
      BY <1>0, <1>6, MailReleased
    <2>3. /\ UNCHANGED <<mutexVars, pc, mails, result, has_response, error_counts, endless, created, mq_gsm,
                         gsm_mode, gsm_status>>
          /\ gpc' \in GsmPC
      BY <1>6 DEF GsmRelease, GsmPC
    <2>4. TypeOK'
      BY <1>0, <2>1, <2>2, <2>3 DEF TypeOK, mutexVars
    <2>5. LockInv'
      BY <1>0, <2>3, LocksUntouched DEF mutexVars
    <2>6. GprsInv'
      BY <1>0, <2>2, <2>3, Kinds DEF GprsInv, UploadSem, ErrorsCounted, Waiting, TypeOK
    <2> QED BY <2>1, <2>4, <2>5, <2>6 DEF IInv, LockInv, MailInv, GprsInv
  <1> QED BY <1>1, <1>2, <1>3, <1>4, <1>5, <1>6 DEF GsmStep

(* The modem going down changes its status pin only. *)
LEMMA ModemDownStep == ASSUME IInv, ModemDown PROVE IInv'
  <1>1. /\ UNCHANGED <<mutexVars, pc, mails, sem, has_response, error_counts, endless, mq_gsm, serving, result,
                       created, gpc, gsm_mode>>
        /\ gsm_status' = 0
    BY DEF ModemDown, clientVars, queueVars
  <1>2. TypeOK /\ OneServed
    BY DEF IInv
  <1>3. OneServed'
    BY <1>1, <1>2 DEF OneServed
  <1> QED BY <1>1, <1>2, <1>3, GsmQuiet DEF TypeOK

(* Every step preserves the inductive invariant. *)
LEMMA NextIInv == IInv /\ [Next]_vars => IInv'
  <1> SUFFICES ASSUME IInv, [Next]_vars PROVE IInv'
    OBVIOUS
  <1>1. ASSUME NEW c \in Client, ClientStep(c) PROVE IInv'
    <2>1. CASE Begin(c) \/ ShellBegin(c) \/ SendCmd(c) \/ TakePic(c) \/ Loop(c)
      BY <2>1, BeginStep, ShellBeginStep, SendCmdStep, TakePicStep, LoopStep
    <2>2. CASE \E expects, urgent \in BOOLEAN : SendFrame(c, expects, urgent)
      BY <2>2, SendFrameStep
    <2>3. CASE \E expects \in BOOLEAN : SendPage(c, expects)
      BY <2>3, SendPageStep
    <2>4. CASE EndUpload(c) \/ MmsReleasePic(c) \/ TakeResult(c)
      BY <2>4, EndUploadStep, MmsReleasePicStep, TakeResultStep
    <2>5. CASE Finish(c) \/ FinishGprs(c) \/ Disable(c)
      BY <2>5, FinishStep, FinishGprsStep, DisableStep
    <2> QED BY <1>1, <2>1, <2>2, <2>3, <2>4, <2>5 DEF ClientStep
  <1>2. ASSUME NEW t \in Photo, PhotoBegin(t) \/ PhotoEnd(t) PROVE IInv'
    BY <1>2, PhotoBeginStep, PhotoEndStep
  <1>3. ASSUME NEW t \in Thread, Resume(t) PROVE IInv'
    BY <1>3, ResumeStep
  <1>4. CASE GsmStep
    BY <1>4, GsmStepIInv
  <1>5. CASE ModemDown
    BY <1>5, ModemDownStep
  <1>6. CASE UNCHANGED vars
    <2>1. TypeOK /\ OneServed
      BY DEF IInv
    <2>2. UNCHANGED <<mutexVars, pc, mails, sem, has_response, error_counts, endless, mq_gsm, serving, result,
                      created, gpc, gsm_mode, gsm_status>>
      BY <1>6 DEF vars, clientVars, queueVars, gsmVars
    <2>3. OneServed'
      BY <2>1, <2>2 DEF OneServed
    <2> QED BY <2>1, <2>2, <2>3, GsmQuiet DEF TypeOK
  <1> QED BY <1>1, <1>2, <1>3, <1>4, <1>5, <1>6 DEF Next

(***************************************************************************)
(* The inductive invariant holds in every reachable state, whatever the    *)
(* threads, the size of the queue and the bounds.                          *)
(***************************************************************************)
THEOREM InductiveInvariant == Spec => []IInv
  BY InitIInv, NextIInv, PTL DEF Spec

-----------------------------------------------------------------------------
(* What the inductive invariant implies. *)

(* Every variable keeps its type; in particular no semaphore is ever released twice. *)
THEOREM TypeCorrect == Spec => []TypeOK
  <1>1. IInv => TypeOK
    BY DEF IInv
  <1> QED BY <1>1, InductiveInvariant, PTL

(* The outstanding mails are the one being served followed by the queued ones. *)
LEMMA OutstandingMails ==
  ASSUME IInv
  PROVE  /\ Len(serving) \in Nat /\ Len(mq_gsm) \in Nat
         /\ Len(Outstanding) = Len(serving) + Len(mq_gsm)
         /\ \A i \in 1..Len(Outstanding) :
               /\ i \in 1..Len(serving) => Outstanding[i] = serving[i]
               /\ i \notin 1..Len(serving) =>
                     i - Len(serving) \in 1..Len(mq_gsm) /\ Outstanding[i] = mq_gsm[i - Len(serving)]
         /\ Len(serving) <= 1
  <1>1. serving \in Seq(Mail) /\ mq_gsm \in Seq(Mail) /\ OneServed
    BY DEF IInv, TypeOK
  <1>2. Len(serving) \in Nat /\ Len(mq_gsm) \in Nat
    BY <1>1, LenProperties
  <1>3. Len(serving) <= 1
    BY <1>1 DEF OneServed
  <1> QED BY <1>1, <1>2, <1>3, ConcatProperties DEF Outstanding

(* The statements about outstanding mails, from those about the served and the queued ones. *)
LEMMA IInvNoDanglingMail == IInv => NoDanglingMail
  <1> SUFFICES ASSUME IInv PROVE NoDanglingMail
    OBVIOUS
  <1>1. MailsAwaited
    BY DEF IInv
  <1>2. ASSUME NEW i \in 1..Len(Outstanding) PROVE Waiting(Outstanding[i].client)
    <2>1. CASE i \in 1..Len(serving)
      BY <1>1, <2>1, OutstandingMails DEF MailsAwaited
    <2>2. CASE i \notin 1..Len(serving)
      BY <1>1, <2>2, OutstandingMails DEF MailsAwaited
    <2> QED BY <2>1, <2>2
  <1>3. ASSUME NEW i \in 1..Len(Outstanding), NEW j \in 1..Len(Outstanding),
               Outstanding[i].client = Outstanding[j].client
        PROVE  i = j
    <2>1. CASE i \in 1..Len(serving) /\ j \in 1..Len(serving)
      BY <2>1, OutstandingMails
    <2>2. CASE i \in 1..Len(serving) /\ j \notin 1..Len(serving)
      BY <1>1, <1>3, <2>2, OutstandingMails DEF MailsAwaited
    <2>3. CASE i \notin 1..Len(serving) /\ j \in 1..Len(serving)
      BY <1>1, <1>3, <2>3, OutstandingMails DEF MailsAwaited
    <2>4. CASE i \notin 1..Len(serving) /\ j \notin 1..Len(serving)
      <3> DEFINE k == i - Len(serving)
                 l == j - Len(serving)
      <3>0. /\ k \in 1..Len(mq_gsm) /\ Outstanding[i] = mq_gsm[k]
            /\ l \in 1..Len(mq_gsm) /\ Outstanding[j] = mq_gsm[l]
        BY <2>4, OutstandingMails
      <3>2. k \in 1..Len(mq_gsm) /\ l \in 1..Len(mq_gsm) /\ mq_gsm[k].client = mq_gsm[l].client => k = l
        <4> HIDE DEF k, l
        <4> QED BY <1>1 DEF MailsAwaited
      <3>1. i - Len(serving) = j - Len(serving)
        BY <1>3, <3>0, <3>2
      <3> QED BY <3>1, OutstandingMails
    <2> QED BY <2>1, <2>2, <2>3, <2>4
  <1> QED BY <1>2, <1>3 DEF NoDanglingMail, Waiting

(***************************************************************************)
(* gsm.c never writes through a stale pointer of a mail: while a mail is   *)
(* queued or served its sender sits on an existing, unreleased semaphore.  *)
(***************************************************************************)
THEOREM MailsNeverDangle == Spec => []NoDanglingMail
  BY InductiveInvariant, IInvNoDanglingMail, PTL

(***************************************************************************)
(* Nobody waits for an answer that nobody owes, although the picture       *)
(* upload does not look at the result of rt_mq_send.                       *)
(***************************************************************************)
THEOREM RequestsNeverLost == Spec => []NoLostRequest
  <1>1. IInv => NoLostRequest
    <2> SUFFICES ASSUME IInv, NEW c \in Client, pc[c] = "wait_sem", sem[c] # 1
                 PROVE  HasMail(c)
      BY DEF NoLostRequest
    <2>1. Waiting(c)
      BY DEF IInv, TypeOK, WaitsOnSem, Waiting
    <2>2. \/ \E i \in 1..Len(serving) : serving[i].client = c
          \/ \E i \in 1..Len(mq_gsm) : mq_gsm[i].client = c
      BY <2>1 DEF IInv, WaitersMailed
    <2>3. CASE \E i \in 1..Len(serving) : serving[i].client = c
      <3>1. PICK i \in 1..Len(serving) : serving[i].client = c
        BY <2>3
      <3>2. i \in 1..Len(Outstanding) /\ Outstanding[i] = serving[i]
        BY OutstandingMails
      <3> QED BY <3>1, <3>2 DEF HasMail
    <2>4. CASE \E i \in 1..Len(mq_gsm) : mq_gsm[i].client = c
      <3>1. PICK i \in 1..Len(mq_gsm) : mq_gsm[i].client = c
        BY <2>4
      <3>2. i + Len(serving) \in 1..Len(Outstanding) /\ i + Len(serving) \notin 1..Len(serving)
        BY OutstandingMails
      <3>3. Outstanding[i + Len(serving)] = mq_gsm[i]
        BY <3>2, OutstandingMails
      <3> QED BY <3>1, <3>2, <3>3 DEF HasMail
    <2> QED BY <2>2, <2>3, <2>4
  <1> QED BY <1>1, InductiveInvariant, PTL

(* A mail of a locking client is outstanding only while the client owns the mutex. *)
LEMMA IInvSequenceOwned == IInv => SequenceOwned
  <1> SUFFICES ASSUME IInv, NEW i \in 1..Len(Outstanding), Outstanding[i].client \in Locking
               PROVE  owner["gsm"] = Outstanding[i].client
    BY DEF SequenceOwned
  <1>1. pc[Outstanding[i].client] = "wait_sem"
    BY IInvNoDanglingMail DEF NoDanglingMail
  <1> QED BY <1>1 DEF IInv, SessionOwned, Inside

(* The gsm thread never sees the command sequences of two threads interleaved. *)
THEOREM SequencesNeverInterleave == Spec => []SequenceOwned
  BY InductiveInvariant, IInvSequenceOwned, PTL

(* The two mutexes are always taken in the same order. *)
THEOREM LocksOrdered == Spec => []LockOrder
  <1>1. IInv => LockOrder
    <2> SUFFICES ASSUME IInv PROVE LockOrder
      OBVIOUS
    <2>1. owner["pic"] \in Client => owner["gsm"] = owner["pic"]
      BY Kinds DEF IInv, PicOwner, SessionOwned, Inside
    <2>2. \A c \in Client : pc[c] = "wait_pic" => owner["gsm"] = c
      BY Kinds DEF IInv, KindOfWaiter, SessionOwned, Inside
    <2>3. \A t \in Photo : owner["gsm"] # t /\ pc[t] # "wait_gsm"
      BY Kinds DEF IInv, KindOfWaiter, GsmOwner
    <2> QED BY <2>1, <2>2, <2>3 DEF LockOrder
  <1> QED BY <1>1, InductiveInvariant, PTL

(* Of the locking clients only the owner of the mutex has a mail, of the others one each. *)
THEOREM QueueNeverFull == Spec => []QueueBound
  <1>1. IInv => QueueBound
    <2> SUFFICES ASSUME IInv PROVE QueueBound
      OBVIOUS
    <2> DEFINE f == [i \in 1..Len(Outstanding) |-> Outstanding[i].client]
               T == Shell \cup {owner["gsm"]}
    <2>1. Outstanding \in Seq(Mail) /\ Len(Outstanding) \in Nat
      <3>1. serving \in Seq(Mail) /\ mq_gsm \in Seq(Mail)
        BY DEF IInv, TypeOK
      <3> QED BY <3>1, ConcatProperties, LenProperties DEF Outstanding
    <2>2. \A i \in 1..Len(Outstanding) : Outstanding[i].client \in T
      BY <2>1, MailClients, IInvSequenceOwned, Kinds DEF SequenceOwned
    <2>3. \A i, j \in 1..Len(Outstanding) : f[i] = f[j] => i = j
      BY IInvNoDanglingMail DEF NoDanglingMail
    <2>4. f \in [1..Len(Outstanding) -> T]
      BY <2>2
    <2>5. /\ IsFiniteSet(Shell) /\ IsFiniteSet(T) /\ Cardinality(Shell) \in Nat
          /\ Cardinality(T) <= Cardinality(Shell) + 1
      <3>1. IsFiniteSet(Shell) /\ Cardinality(Shell) \in Nat
        BY KindsAssumption, FS_CardinalityType
      <3>2. /\ IsFiniteSet(T)
            /\ Cardinality(T) = IF owner["gsm"] \in Shell THEN Cardinality(Shell) ELSE Cardinality(Shell) + 1
        BY <3>1, FS_AddElement
      <3> QED BY <3>1, <3>2
    <2> HIDE DEF f, T
    <2>6. f \in Injection(1..Len(Outstanding), T)
      BY <2>3, <2>4, Fun_IsInj
    <2>7. Cardinality(1..Len(Outstanding)) <= Cardinality(T)
      BY <2>5, <2>6, FS_Injection
    <2>8. Cardinality(1..Len(Outstanding)) = Len(Outstanding)
      <3>1. Cardinality(1..Len(Outstanding)) =
              IF 1 > Len(Outstanding) THEN 0 ELSE Len(Outstanding) - 1 + 1
        BY <2>1, FS_Interval
      <3> QED BY <2>1, <3>1
    <2>9. Cardinality(T) \in Nat
      BY <2>5, FS_CardinalityType
    <2> QED BY <2>1, <2>5, <2>7, <2>8, <2>9 DEF QueueBound
  <1> QED BY <1>1, InductiveInvariant, PTL

-----------------------------------------------------------------------------
(* The mail interface implements the abstract service. *)

(* The state of a client's request, as the refinement mapping sees it. *)
Req(c) == IF pc[c] # "wait_sem" THEN "none" ELSE IF sem[c] > 0 THEN "answered" ELSE "pending"

ReqMap == [c \in Client |-> Req(c)]

(* Steps that change neither a session nor a request. *)
LEMMA ServiceStutters ==
  ASSUME owner'["gsm"] = owner["gsm"], \A c \in Client : Req(c)' = Req(c)
  PROVE  UNCHANGED Service!vars
  <1>1. ReqMap' = ReqMap
    BY DEF ReqMap
  <1> QED BY <1>1 DEF Service!vars, ReqMap, Req

(* Steps that change the request of one client. *)
LEMMA ServiceRequestStep ==
  ASSUME NEW c \in Client, owner'["gsm"] = owner["gsm"],
         \A d \in Client : d # c => Req(d)' = Req(d),
         \/ Req(c) = "none" /\ Req(c)' = "pending" /\ (owner["gsm"] = c \/ c \in Shell)
         \/ Req(c) = "pending" /\ Req(c)' = "answered"
         \/ Req(c) = "answered" /\ Req(c)' = "none"
  PROVE  Service!Next
  <1>1. ReqMap' = [ReqMap EXCEPT ![c] = Req(c)']
    BY DEF ReqMap
  <1>2. ReqMap[c] = Req(c) /\ c \in Service!Client
    BY DEF ReqMap, Service!Client, Client
  <1>3. CASE Req(c) = "none" /\ Req(c)' = "pending" /\ (owner["gsm"] = c \/ c \in Shell)
    <2>1. Service!Request(c)
      BY <1>1, <1>2, <1>3 DEF Service!Request, ReqMap, Req
    <2> QED BY <1>2, <2>1 DEF Service!Next
  <1>4. CASE Req(c) = "pending" /\ Req(c)' = "answered"
    <2>1. Service!Answer(c)
      BY <1>1, <1>2, <1>4 DEF Service!Answer, ReqMap, Req
    <2> QED BY <1>2, <2>1 DEF Service!Next
  <1>5. CASE Req(c) = "answered" /\ Req(c)' = "none"
    <2>1. Service!Consume(c)
      BY <1>1, <1>2, <1>5 DEF Service!Consume, ReqMap, Req
    <2> QED BY <1>2, <2>1 DEF Service!Next
  <1> QED BY <1>3, <1>4, <1>5

(* Steps that open or close a session. *)
LEMMA ServiceSessionStep ==
  ASSUME NEW c \in Locking, \A d \in Client : Req(d)' = Req(d),
         \/ owner["gsm"] = NULL /\ owner'["gsm"] = c
         \/ owner["gsm"] = c /\ Req(c) = "none" /\ owner'["gsm"] \in Locking \cup {NULL}
  PROVE  Service!Next
  <1>1. ReqMap' = ReqMap /\ ReqMap[c] = Req(c)
    BY Kinds DEF ReqMap
  <1>2. CASE owner["gsm"] = NULL /\ owner'["gsm"] = c
    <2>1. Service!Open(c)
      BY <1>1, <1>2 DEF Service!Open, ReqMap, Req
    <2> QED BY <2>1 DEF Service!Next
  <1>3. CASE owner["gsm"] = c /\ Req(c) = "none" /\ owner'["gsm"] \in Locking \cup {NULL}
    <2>1. Service!Close(c)
      BY <1>1, <1>3 DEF Service!Close, ReqMap, Req
    <2> QED BY <2>1 DEF Service!Next
  <1> QED BY <1>2, <1>3

(* Taking or releasing pic_file_mutex leaves the session mutex alone. *)
LEMMA PicLeavesSession ==
  ASSUME TypeOK, NEW t,
         rt_mutex_take("pic", t, "wait_pic", "pic") \/ rt_mutex_release("pic")
  PROVE  owner'["gsm"] = owner["gsm"]
  <1>1. owner \in [Mutex -> Thread \cup {NULL}]
    BY DEF TypeOK
  <1>2. \E x : owner' = [owner EXCEPT !["pic"] = x] \/ owner' = owner
    BY DEF rt_mutex_take, rt_mutex_release
  <1> QED BY <1>1, <1>2, Kinds

(* A thread that moves outside the wait for an answer changes no request. *)
LEMMA MoverHasNoRequest ==
  ASSUME TypeOK, NEW t \in Thread, NEW x, pc' = [pc EXCEPT ![t] = x],
         pc[t] # "wait_sem", x # "wait_sem", \A d \in Client : d # t => sem'[d] = sem[d]
  PROVE  \A d \in Client : Req(d)' = Req(d)
  <1>1. pc \in [Thread -> ClientPC]
    BY DEF TypeOK
  <1> QED BY <1>1, Kinds DEF Req

(* A client posts a mail. *)
LEMMA PostIsRequest ==
  ASSUME TypeOK, LockInv, NEW c \in Client, pc[c] \in {"session", "pic"},
         pc' = [pc EXCEPT ![c] = "wait_sem"], owner' = owner, sem'[c] = 0,
         \A d \in Client : d # c => sem'[d] = sem[d]
  PROVE  Service!Next
  <1>1. pc \in [Thread -> ClientPC] /\ c \in Thread
    BY Kinds DEF TypeOK
  <1>2. Req(c) = "none" /\ Req(c)' = "pending" /\ \A d \in Client : d # c => Req(d)' = Req(d)
    BY <1>1, Kinds DEF Req
  <1>3. owner["gsm"] = c \/ c \in Shell
    BY Kinds DEF LockInv, SessionOwned, Inside
  <1> QED BY <1>2, <1>3, ServiceRequestStep

(* Every step of the implementation is a step of the service or a stutter. *)
LEMMA ServiceStep == IInv /\ IInv' /\ [Next]_vars => [Service!Next]_(Service!vars)
  <1> SUFFICES ASSUME IInv, IInv', [Next]_vars
               PROVE  Service!Next \/ UNCHANGED Service!vars
    OBVIOUS
  <1>0. TypeOK /\ LockInv /\ MailInv /\ GsmOwner' /\ TypeOK'
    BY Parts DEF IInv
  <1>1. ASSUME NEW c \in Client, Begin(c) PROVE Service!Next \/ UNCHANGED Service!vars
    <2>1. /\ c \in Locking /\ c \in Thread /\ pc[c] = "idle" /\ sem' = sem
          /\ owner \in [Mutex -> Thread \cup {NULL}]
      BY <1>0, <1>1, Kinds DEF Begin, clientVars, TypeOK
    <2>2. PICK x \in {"wait_gsm", "session"} : pc' = [pc EXCEPT ![c] = x]
      BY <1>1 DEF Begin, rt_mutex_take
    <2>3. \A d \in Client : Req(d)' = Req(d)
      BY <1>0, <2>1, <2>2, MoverHasNoRequest
    <2>4. owner' = owner \/ (owner["gsm"] = NULL /\ owner'["gsm"] = c)
      BY <1>1, <2>1, Kinds DEF Begin, rt_mutex_take
    <2> QED BY <2>1, <2>3, <2>4, ServiceStutters, ServiceSessionStep
  <1>2. ASSUME NEW c \in Client, ShellBegin(c) PROVE UNCHANGED Service!vars
    <2>1. /\ c \in Thread /\ pc[c] = "idle" /\ pc' = [pc EXCEPT ![c] = "session"]
          /\ sem' = sem /\ owner' = owner
      BY <1>2, Kinds DEF ShellBegin, clientVars, mutexVars
    <2>2. \A d \in Client : Req(d)' = Req(d)
      BY <1>0, <2>1, MoverHasNoRequest
    <2> QED BY <2>1, <2>2, ServiceStutters
  <1>3. ASSUME NEW c \in Client,
               \/ SendCmd(c)
               \/ \E expects, urgent \in BOOLEAN : SendFrame(c, expects, urgent)
        PROVE  Service!Next \/ UNCHANGED Service!vars
    <2>1. /\ c \in Thread /\ pc[c] \in {"session", "pic"} /\ owner' = owner
          /\ \A d \in Client : d # c => sem'[d] = sem[d]
      BY <1>0, <1>3, Kinds, ZenonT(40) DEF SendCmd, SendFrame, mutexVars, TypeOK
    <2>2. pc' = pc \/ (pc' = [pc EXCEPT ![c] = "wait_sem"] /\ sem'[c] = 0)
      BY <1>0, <1>3 DEF SendCmd, SendFrame, TypeOK
    <2>3. CASE pc' = pc
      <3>1. pc' = [pc EXCEPT ![c] = pc[c]]
        BY <1>0, <2>1, <2>3 DEF TypeOK
      <3>2. \A d \in Client : Req(d)' = Req(d)
        BY <1>0, <2>1, <3>1, MoverHasNoRequest
      <3> QED BY <2>1, <3>2, ServiceStutters
    <2>4. CASE pc' = [pc EXCEPT ![c] = "wait_sem"] /\ sem'[c] = 0
      BY <1>0, <2>1, <2>4, PostIsRequest
    <2> QED BY <2>2, <2>3, <2>4
  <1>4. ASSUME NEW c \in Client, NEW expects \in BOOLEAN, SendPage(c, expects)
        PROVE  Service!Next
    <2>1. /\ c \in Thread /\ pc[c] = "pic" /\ owner' = owner
          /\ pc' = [pc EXCEPT ![c] = "wait_sem"]
          /\ sem' = [sem EXCEPT ![c] = IF mails[c] = 0 THEN 0 ELSE sem[c]]
          /\ c \in Gprs /\ mails[c] \in Nat
      BY <1>0, <1>4, Kinds DEF SendPage, mutexVars, TypeOK
    <2>2. mails[c] # 0 => sem[c] = 0
      BY <2>1 DEF IInv, UploadSem
    <2>3. sem'[c] = 0 /\ \A d \in Client : d # c => sem'[d] = sem[d]
      BY <1>0, <2>1, <2>2 DEF TypeOK
    <2> QED BY <1>0, <2>1, <2>3, PostIsRequest
  <1>5. ASSUME NEW c \in Client, TakePic(c) \/ EndUpload(c) \/ MmsReleasePic(c)
        PROVE  UNCHANGED Service!vars
    <2>1. /\ c \in Thread /\ pc[c] # "wait_sem"
          /\ rt_mutex_take("pic", c, "wait_pic", "pic") \/ rt_mutex_release("pic")
      BY <1>5, Kinds DEF TakePic, EndUpload, MmsReleasePic
    <2>2. PICK x \in {"wait_pic", "pic", "session"} : pc' = [pc EXCEPT ![c] = x]
      BY <1>5 DEF TakePic, EndUpload, MmsReleasePic, rt_mutex_take
    <2>3. \A d \in Client : d # c => sem'[d] = sem[d]
      BY <1>0, <1>5 DEF TakePic, EndUpload, MmsReleasePic, TypeOK, clientVars
    <2>4. \A d \in Client : Req(d)' = Req(d)
      BY <1>0, <2>1, <2>2, <2>3, MoverHasNoRequest
    <2> QED BY <1>0, <2>1, <2>4, PicLeavesSession, ServiceStutters
  <1>6. ASSUME NEW c \in Client, TakeResult(c) PROVE Service!Next
    <2>1. /\ c \in Thread /\ pc[c] = "wait_sem" /\ sem[c] > 0 /\ owner' = owner
          /\ pc' = [pc EXCEPT ![c] = IF owner["pic"] = c THEN "pic" ELSE "session"]
          /\ \A d \in Client : d # c => sem'[d] = sem[d]
      BY <1>0, <1>6, Kinds DEF TakeResult, mutexVars, TypeOK
    <2>2. /\ Req(c) = "answered" /\ Req(c)' = "none"
          /\ \A d \in Client : d # c => Req(d)' = Req(d)
      BY <1>0, <2>1, Kinds DEF Req, TypeOK
    <2> QED BY <2>1, <2>2, ServiceRequestStep
  <1>7. ASSUME NEW c \in Client, Finish(c) \/ FinishGprs(c) \/ Disable(c)
        PROVE  Service!Next \/ UNCHANGED Service!vars
    <2>1. /\ c \in Thread /\ pc[c] \in {"session", "disable"} /\ sem' = sem
          /\ owner' = owner \/ (c \in Locking /\ rt_mutex_release("gsm"))
      BY <1>7, Kinds DEF Finish, FinishGprs, Disable, mutexVars
    <2>2. PICK x \in {"idle", "disable"} : pc' = [pc EXCEPT ![c] = x]
      BY <1>7 DEF Finish, FinishGprs, Disable
    <2>3. \A d \in Client : Req(d)' = Req(d)
      BY <1>0, <2>1, <2>2, MoverHasNoRequest
    <2>4. CASE owner' = owner
      BY <2>3, <2>4, ServiceStutters
    <2>5. CASE c \in Locking /\ rt_mutex_release("gsm")
      <3>1. owner["gsm"] = c /\ Req(c) = "none"
        BY <1>0, <2>1, <2>5 DEF LockInv, SessionOwned, Inside, Req
      <3>2. owner'["gsm"] \in Locking \cup {NULL}
        BY <1>0 DEF GsmOwner
      <3> QED BY <2>3, <2>5, <3>1, <3>2, ServiceSessionStep
    <2> QED BY <2>1, <2>4, <2>5
  <1>8. ASSUME NEW t \in Photo, PhotoBegin(t) \/ PhotoEnd(t) PROVE UNCHANGED Service!vars
    <2>1. /\ t \in Thread /\ pc[t] # "wait_sem" /\ sem' = sem
          /\ rt_mutex_take("pic", t, "wait_pic", "pic") \/ rt_mutex_release("pic")
      BY <1>8, Kinds DEF PhotoBegin, PhotoEnd, clientVars
    <2>2. PICK x \in {"wait_pic", "pic", "idle"} : pc' = [pc EXCEPT ![t] = x]
      BY <1>8 DEF PhotoBegin, PhotoEnd, rt_mutex_take
    <2>3. \A d \in Client : Req(d)' = Req(d)
      BY <1>0, <2>1, <2>2, MoverHasNoRequest
    <2> QED BY <1>0, <2>1, <2>3, PicLeavesSession, ServiceStutters
  <1>9. ASSUME NEW t \in Thread, Resume(t) PROVE UNCHANGED Service!vars
    <2>1. pc[t] # "wait_sem" /\ sem' = sem /\ owner' = owner
      BY <1>9 DEF Resume, clientVars, mutexVars
    <2>2. PICK x \in {"session", "pic"} : pc' = [pc EXCEPT ![t] = x]
      BY <1>9 DEF Resume
    <2>3. \A d \in Client : Req(d)' = Req(d)
      BY <1>0, <2>1, <2>2, MoverHasNoRequest
    <2> QED BY <2>1, <2>3, ServiceStutters
  <1>10. CASE GsmRelease
    <2>1. PICK c \in Client : Waiting(c) /\ sem' = [sem EXCEPT ![c] = 1]
      BY <1>0, <1>10, MailReleased
    <2>2. owner' = owner /\ pc' = pc
      BY <1>10 DEF GsmRelease, mutexVars
    <2>3. /\ Req(c) = "pending" /\ Req(c)' = "answered"
          /\ \A d \in Client : d # c => Req(d)' = Req(d)
      BY <1>0, <2>1, <2>2 DEF Req, Waiting, TypeOK
    <2> QED BY <2>2, <2>3, ServiceRequestStep
  <1>11. CASE \/ \E c \in Client : Loop(c)
              \/ GsmStart \/ GsmResetSuccess \/ GsmResetFailure \/ GsmPoll \/ GsmRecv
              \/ GsmIdle \/ GsmSwitch \/ GsmExecute \/ ModemDown \/ UNCHANGED vars
    <2>1. owner' = owner /\ pc' = pc /\ sem' = sem
      BY <1>11 DEF Loop, GsmStart, GsmResetSuccess, GsmResetFailure, GsmPoll, GsmRecv, GsmIdle, GsmSwitch,
         GsmExecute, ModemDown, vars, mutexVars, clientVars
    <2>2. \A d \in Client : Req(d)' = Req(d)
      BY <2>1 DEF Req
    <2> QED BY <2>1, <2>2, ServiceStutters
  <1>12. ASSUME NEW c \in Client, ClientStep(c) PROVE Service!Next \/ UNCHANGED Service!vars
    BY <1>1, <1>2, <1>3, <1>4, <1>5, <1>6, <1>7, <1>11, <1>12 DEF ClientStep
  <1> QED BY <1>8, <1>9, <1>10, <1>11, <1>12 DEF Next, GsmStep

(***************************************************************************)
(* The mail interface of gsm.c implements the abstract service: sessions   *)
(* never overlap, each request gets exactly one answer, and a session ends *)
(* only between requests.                                                  *)
(***************************************************************************)
THEOREM MailServiceImplemented == Spec => ImplementsService
  <1>1. Init => Service!Init
    <2> SUFFICES ASSUME Init PROVE Service!Init
      OBVIOUS
    <2>1. owner["gsm"] = NULL /\ \A c \in Client : pc[c] = "idle"
      BY Kinds DEF Init
    <2> QED BY <2>1 DEF Service!Init, Service!Client, Client
  <1> QED BY <1>1, ServiceStep, InductiveInvariant, PTL DEF Spec, ImplementsService, Service!Spec
=============================================================================
