---------------------------- MODULE MailService ----------------------------
(***************************************************************************)
(* What the GSM mail interface promises to the threads that use the modem. *)
(* A client opens a session, sends requests one at a time, and gets        *)
(* exactly one answer to each.  Sessions of the clients that follow the    *)
(* locking discipline never overlap, so nobody else's command gets between *)
(* the commands of, say, one MMS.  The console may send a request          *)
(* without a session.                                                      *)
(***************************************************************************)
CONSTANTS Locking,   \* clients that bracket their requests in a session
          Shell,     \* clients that do not (the finsh console)
          NULL       \* "nobody"

VARIABLES session,   \* the client whose session is open, or NULL
          req        \* per client: "none", "pending" or "answered"

vars == <<session, req>>

Client == Locking \cup Shell

Init ==
    /\ session = NULL
    /\ req = [c \in Client |-> "none"]

Open(c) ==
    /\ session = NULL
    /\ session' = c
    /\ UNCHANGED req

Request(c) ==
    /\ session = c \/ c \in Shell
    /\ req[c] = "none"
    /\ req' = [req EXCEPT ![c] = "pending"]
    /\ UNCHANGED session

Answer(c) ==
    /\ req[c] = "pending"
    /\ req' = [req EXCEPT ![c] = "answered"]
    /\ UNCHANGED session

Consume(c) ==
    /\ req[c] = "answered"
    /\ req' = [req EXCEPT ![c] = "none"]
    /\ UNCHANGED session

(***************************************************************************)
(* A session closes only between requests, and may pass straight to a      *)
(* client that was waiting for it.                                         *)
(***************************************************************************)
Close(c) ==
    /\ session = c
    /\ req[c] = "none"
    /\ session' \in Locking \cup {NULL}
    /\ UNCHANGED req

Next ==
    \/ \E c \in Locking : Open(c) \/ Close(c)
    \/ \E c \in Client : Request(c) \/ Answer(c) \/ Consume(c)

Spec == Init /\ [][Next]_vars

(* Every request that was made is answered, and the answer is taken. *)
FairSpec ==
    /\ Spec
    /\ \A c \in Client : WF_vars(Answer(c)) /\ WF_vars(Consume(c))
=============================================================================
