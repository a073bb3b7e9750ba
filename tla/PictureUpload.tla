--------------------------- MODULE PictureUpload ---------------------------
(***************************************************************************)
(* send_picture_data: the gprs thread sends a picture to the server in     *)
(* pages of 512 bytes.  Only the last page is answered, by the server's    *)
(* verdict on the whole picture, so that page is also sent after every     *)
(* tenth page to see whether the server is still there.  The 8-bit         *)
(* counters of pages to come and of the next page are stepped back to send *)
(* pages again; a verdict that names lost pages has them sent again.       *)
(*                                                                         *)
(* The modem may fail to take a page; a page it took may get lost, and so  *)
(* may an answer.  Late answers are included: a verdict may be older than  *)
(* the pages the server has got since.                                     *)
(***************************************************************************)
EXTENDS Integers, Sequences, FiniteSets

CONSTANTS Pages,       \* pages of the picture
          Wrap,        \* values of a counter (256)
          CheckEvery,  \* pages between two checks (10)
          LastMax,     \* failed checks in a row (10)
          ErrorMax,    \* pages not taken by the modem (3)
          ResendMax,   \* answers that are no verdict (3)
          RoundMax,    \* rounds of lost pages (10)
          GiveUpMax,   \* last pages not taken at the end of a round (3)
          Faults,      \* bound on the faults of modem and network
          OddAnswers,  \* bound on the answers other than a truthful verdict
          Garbage,     \* the bytes that are read where no page number was stored
          ListMax      \* bound on the length of a list made of them

(* Pictures whose pages the counters can hold: up to 255 of them. *)
ASSUME PagesAssumption == Wrap \in Nat \ {0} /\ Pages \in 1..Wrap - 1
ASSUME LimitsAssumption ==
    /\ CheckEvery \in Nat \ {0} /\ LastMax \in Nat /\ ErrorMax \in Nat \ {0}
    /\ ResendMax \in Nat /\ RoundMax \in Nat /\ GiveUpMax \in Nat \ {0}
    /\ Faults \in Nat /\ OddAnswers \in Nat

(* Checks that fail do not step back further than to the check before (both are 10). *)
ASSUME ChecksAssumption == LastMax <= CheckEvery

Byte == 0..Wrap - 1

ASSUME GarbageAssumption ==
    Garbage \subseteq Byte /\ ListMax \in Byte /\ (ListMax > 0 => Garbage # {})

(* The other limits leave as many attempts as that of refused pages. *)
ASSUME TriesAssumption ==
    ErrorMax <= LastMax + 1 /\ ErrorMax <= 2 * ResendMax + 1 /\ ErrorMax <= RoundMax + 2

Last == Pages - 1
PageNumber == 0..Last

(***************************************************************************)
(* The counter of the pages to come has room for all the pages it may be   *)
(* stepped back.  A picture of the camera is meant to have at most 70000   *)
(* bytes (photo_get_size), which are 137 pages, and 137 + 6 + 3 * 10 <     *)
(* 256; but a size refused after a timeout is used all the same (photo.c   *)
(* compares the error flags with ==), and with 230 pages the counter could *)
(* wrap to 0 and end the loop too early.                                   *)
(***************************************************************************)
HasRoom == Pages + (Wrap % CheckEvery) + ErrorMax * CheckEvery < Wrap

(***************************************************************************)
(* gprs_recv_frame as far as it matters: is it a frame with a verdict      *)
(* (0x8F), a command of the server or neither; the verdict; the list of    *)
(* lost pages.  The last two lie in a union with the data of all other     *)
(* commands.                                                               *)
(***************************************************************************)
Kind == {"none", "verdict", "command"}
Verdict == {"ok", "imperfect", "unusual", "stop", "unknown"}
Frame == [kind : Kind, result : Verdict, lost : Seq(Byte)]

(* Other bytes, read as a list. *)
GarbageLists == UNION {[1..n -> Garbage] : n \in 0..ListMax}

VARIABLES
    pc,
    page_sum, cur_page, page_error, send_last_cnt, resend_num, rsend_cnt,
    error, index,    \* inside a round: failed last pages, position in the list
    last_page,       \* has_response: this iteration's page is the last one
    frame,           \* gprs_recv_frame
    told,            \* the frame holds a verdict of the server on this picture
    send_result,
    taken,           \* pages the modem took
    received,        \* pages the server has got
    faults, odd,     \* faults and odd answers so far
    excused,         \* success was read from no verdict, or follows from giving up
    misled           \* a failure or a list of lost pages was read from no verdict

counterVars == <<page_sum, cur_page, page_error, send_last_cnt, resend_num, rsend_cnt, error, index>>
networkVars == <<taken, received, faults, odd>>
frameVars == <<frame, told>>
historyVars == <<excused, misled>>
vars == <<pc, counterVars, last_page, frameVars, send_result, networkVars, historyVars>>

(***************************************************************************)
(* The frame is not initialised: whatever lies on the stack, an old frame  *)
(* of an earlier upload for instance, is read if the first answer is       *)
(* missing.                                                                *)
(***************************************************************************)
Init ==
    /\ pc = "page"
    /\ page_sum = Pages /\ cur_page = 0
    /\ page_error = 0 /\ send_last_cnt = 0 /\ resend_num = 0 /\ rsend_cnt = 0
    /\ error = 0 /\ index = 0
    /\ last_page = FALSE
    /\ frame \in [kind : Kind, result : Verdict, lost : GarbageLists]
    /\ told = FALSE
    /\ send_result = 1
    /\ taken = {} /\ received = {} /\ faults = 0 /\ odd = 0
    /\ excused = FALSE /\ misled = FALSE

Up(n) == (n + 1) % Wrap

(* mutant: the counter goes below zero *)
MutDown(n) == n - 1

Down(n) == (n + Wrap - 1) % Wrap

-----------------------------------------------------------------------------
(* The gsm thread, the network and the server *)

(* A page that needs no answer is written to the modem. *)
Taken(p) ==
    /\ taken' = taken \cup {p}
    /\ send_result' = 1
    /\ UNCHANGED <<frameVars, odd>>
    /\ \/ received' = received \cup {p} /\ UNCHANGED faults
       \/ faults < Faults /\ faults' = faults + 1 /\ UNCHANGED received
Refused ==
    /\ faults < Faults /\ faults' = faults + 1
    /\ send_result' = -1
    /\ UNCHANGED <<taken, received, odd, frameVars>>

(* The pages of a set as a list, in increasing order *)
Listings(S) ==
    {l \in [1..Cardinality(S) -> S] : /\ \A p \in S : \E i \in DOMAIN l : l[i] = p
                                     /\ \A i, j \in DOMAIN l : i < j => l[i] < l[j]}

(* The server's verdict when the pages of a set are missing; it has the last one. *)
VerdictsOn(missing) ==
    [kind : {"verdict"}, result : {IF missing = {} THEN "ok" ELSE "imperfect"},
     lost : Listings(missing)]
Missing(got) == PageNumber \ got

(***************************************************************************)
(* Something else comes: a command, whose data take the place of the       *)
(* verdict and of the list as far as they reach, an answer in pieces, or a *)
(* verdict that the server gives up.                                       *)
(***************************************************************************)
OddFrames == [kind : Kind, result : Verdict, lost : GarbageLists \cup {frame.lost}]

(***************************************************************************)
(* The last page is written, and an answer comes within ten seconds: the   *)
(* verdict, one of some time before, or something else ...                 *)
(***************************************************************************)
Answered(p) ==
    /\ taken' = taken \cup {p}
    /\ received' = received \cup {p}
    /\ send_result' = 1
    /\ \/ /\ frame' \in VerdictsOn(Missing(received')) /\ told' = TRUE
          /\ UNCHANGED <<faults, odd>>
       \/ /\ \E S \in SUBSET ((PageNumber \cap received) \ {Last}) :
                frame' \in VerdictsOn(Missing(received') \cup S)
          /\ told' = TRUE
          /\ faults < Faults /\ faults' = faults + 1
          /\ UNCHANGED odd
       \/ /\ frame' \in OddFrames /\ told' = FALSE
          /\ odd < OddAnswers /\ odd' = odd + 1
          /\ UNCHANGED faults

(* ... or none does. *)
Unanswered(p) ==
    /\ faults < Faults /\ faults' = faults + 1
    /\ send_result' = -1
    /\ \/ taken' = taken \cup {p} /\ received' \in {received, received \cup {p}}
       \/ UNCHANGED <<taken, received>>
    /\ UNCHANGED <<odd, frameVars>>

-----------------------------------------------------------------------------
(* send_picture_data *)

(* What follows a page: the check after every tenth, the verdict after the last. *)
AfterCheck == IF last_page' THEN "verdict" ELSE "next"
AfterPage == IF cur_page' % CheckEvery = 0 THEN "check" ELSE AfterCheck

(* while(page_sum--): the next page is sent; the modem takes it ... *)
PageSent ==
    /\ pc = "page" /\ page_sum > 0
    /\ last_page' = (page_sum = 1)
    /\ IF last_page' THEN Answered(Last) ELSE Taken(cur_page)
    /\ page_sum' = page_sum - 1
    /\ cur_page' = Up(cur_page)
    /\ pc' = AfterPage
    /\ rsend_cnt' = 0
    /\ UNCHANGED <<page_error, send_last_cnt, resend_num, error, index, historyVars>>

(* mutant: one failure less is allowed *)
MutErrorSooner ==
    /\ pc = "page" /\ page_sum > 0
    /\ last_page' = (page_sum = 1)
    /\ IF last_page' THEN Unanswered(Last) ELSE Refused
    /\ page_error' = page_error + 1
    /\ rsend_cnt' = 0
    /\ UNCHANGED <<page_sum, cur_page, send_last_cnt, resend_num, error, index, historyVars>>
    /\ pc' = IF page_error' + 1 >= ErrorMax THEN "failed" ELSE AfterPage

(* ... or it does not. *)
PageFailed ==
    /\ pc = "page" /\ page_sum > 0
    /\ last_page' = (page_sum = 1)
    /\ IF last_page' THEN Unanswered(Last) ELSE Refused
    /\ page_error' = page_error + 1
    /\ rsend_cnt' = 0
    /\ UNCHANGED <<send_last_cnt, resend_num, error, index, historyVars>>
    /\ \/ /\ page_error' >= ErrorMax
          /\ page_sum' = page_sum - 1 /\ cur_page' = Up(cur_page)
          /\ pc' = "failed"
       \/ /\ page_error' < ErrorMax
          /\ UNCHANGED <<page_sum, cur_page>>
          /\ pc' = AfterPage

Finished ==
    /\ pc = "page" /\ page_sum = 0
    /\ pc' = "finished"
    /\ UNCHANGED <<counterVars, last_page, frameVars, send_result, networkVars, historyVars>>

(* CHECK_SERVER_SEND: each failure takes both counters a page back. *)
CheckAnswered ==
    /\ pc = "check"
    /\ Answered(Last)
    /\ send_last_cnt' = 0
    /\ UNCHANGED <<page_sum, cur_page, page_error, resend_num, rsend_cnt, error, index,
                   last_page, historyVars>>
    /\ pc' = AfterCheck

(* mutants: only the pages to come are stepped back; one check more is allowed *)
MutOneCounter ==
    /\ pc = "check"
    /\ Unanswered(Last)
    /\ \/ /\ send_last_cnt < LastMax
          /\ page_sum' = Up(page_sum)
          /\ send_last_cnt' = send_last_cnt + 1
          /\ UNCHANGED <<pc, cur_page>>
       \/ /\ send_last_cnt >= LastMax
          /\ pc' = "failed"
          /\ UNCHANGED <<page_sum, cur_page, send_last_cnt>>
    /\ UNCHANGED <<page_error, resend_num, rsend_cnt, error, index, last_page, historyVars>>
MutOneCheckMore ==
    /\ pc = "check"
    /\ Unanswered(Last)
    /\ \/ /\ send_last_cnt <= LastMax
          /\ page_sum' = Up(page_sum) /\ cur_page' = Down(cur_page)
          /\ send_last_cnt' = send_last_cnt + 1
          /\ UNCHANGED pc
       \/ /\ send_last_cnt > LastMax
          /\ pc' = "failed"
          /\ UNCHANGED <<page_sum, cur_page, send_last_cnt>>
    /\ UNCHANGED <<page_error, resend_num, rsend_cnt, error, index, last_page, historyVars>>

CheckFailed ==
    /\ pc = "check"
    /\ Unanswered(Last)
    /\ \/ /\ send_last_cnt < LastMax
          /\ page_sum' = Up(page_sum) /\ cur_page' = Down(cur_page)
          /\ send_last_cnt' = send_last_cnt + 1
          /\ UNCHANGED pc
       \/ /\ send_last_cnt >= LastMax
          /\ pc' = "failed"
          /\ UNCHANGED <<page_sum, cur_page, send_last_cnt>>
    /\ UNCHANGED <<page_error, resend_num, rsend_cnt, error, index, last_page, historyVars>>

(* mutant: an incomplete picture passes for a complete one *)
MutSays(f) ==
    IF f.kind = "command" THEN 1
    ELSE IF f.kind = "none" THEN -1
    ELSE CASE f.result \in {"ok", "imperfect"} -> 1
           [] f.result = "unusual" -> -3
           [] f.result = "stop" -> -4
           [] f.result = "unknown" -> -1

(* recv_gprs_frame's result *)
Says(f) ==
    IF f.kind = "command" THEN 1
    ELSE IF f.kind = "none" THEN -1
    ELSE CASE f.result = "ok" -> 1
           [] f.result = "imperfect" -> -2
           [] f.result = "unusual" -> -3
           [] f.result = "stop" -> -4
           [] f.result = "unknown" -> -1

(* RSEND_LOST_PAGE *)
VerdictRead ==
    /\ pc = "verdict"
    /\ \/ /\ Says(frame) = 1
          /\ pc' = "next" /\ send_result' = 1
          /\ excused' = (excused \/ ~told)
          /\ UNCHANGED <<index, error, misled>>
       \/ /\ Says(frame) = -2
          /\ pc' = "resend" /\ index' = 0 /\ error' = 0
          /\ misled' = (misled \/ ~told)
          /\ UNCHANGED <<send_result, excused>>
       \/ /\ Says(frame) \in {-3, -4}
          /\ pc' = "failed"
          /\ misled' = (misled \/ ~told)
          /\ UNCHANGED <<index, error, send_result, excused>>
    /\ UNCHANGED <<page_sum, cur_page, page_error, send_last_cnt, resend_num, rsend_cnt,
                   last_page, frameVars, networkVars>>

(* The default branch: the last page twice more, here and in the next iteration. *)
NoVerdict ==
    /\ pc = "verdict" /\ Says(frame) = -1
    /\ page_sum' = Up(page_sum) /\ cur_page' = Down(cur_page)
    /\ resend_num' = resend_num + 1
    /\ pc' = IF resend_num' > ResendMax THEN "failed" ELSE "next"
    /\ Answered(Last) \/ Unanswered(Last)
    /\ UNCHANGED <<page_error, send_last_cnt, rsend_cnt, error, index, last_page, historyVars>>

(* data[cur_page]: one of the list, or what lies behind it *)
Listed(i, p) == IF i < Len(frame.lost) THEN p = frame.lost[i + 1] ELSE p \in Garbage

(* mutant: a page that was taken is sent again *)
MutIndexStuck ==
    /\ pc = "resend" /\ index # Len(frame.lost)
    /\ \E p \in Byte :
         /\ Listed(index, p)
         /\ \/ p < Last /\ Taken(p) /\ UNCHANGED <<index, pc>>
            \/ p >= Last /\ Answered(p) /\ UNCHANGED <<index, pc>>
            \/ (IF p < Last THEN Refused ELSE Unanswered(p)) /\ pc' = "look" /\ index' = Up(index)
    /\ misled' = (misled \/ ~told)
    /\ UNCHANGED <<page_sum, cur_page, page_error, send_last_cnt, resend_num, rsend_cnt, error,
                   last_page, excused>>

(***************************************************************************)
(* The lost pages one by one; after a failure or every tenth of them the   *)
(* last page.  A page from the last one on waits for an answer itself,     *)
(* which replaces the list that is being worked through.                   *)
(***************************************************************************)
LostPageResent ==
    /\ pc = "resend" /\ index # Len(frame.lost)
    /\ index' = Up(index)
    /\ \E p \in Byte :
         /\ Listed(index, p)
         /\ \/ /\ IF p < Last THEN Taken(p) ELSE Answered(p)
               /\ pc' = IF index' % CheckEvery = 0 THEN "look" ELSE "resend"
            \/ /\ IF p < Last THEN Refused ELSE Unanswered(p)
               /\ pc' = "look"
    /\ misled' = (misled \/ ~told)
    /\ UNCHANGED <<page_sum, cur_page, page_error, send_last_cnt, resend_num, rsend_cnt, error,
                   last_page, excused>>

(* Its answer replaces the list, which is then begun anew. *)
LostPagesLookedAt ==
    /\ pc = "look"
    /\ pc' = "resend"
    /\ \/ Answered(Last) /\ index' = 0
       \/ Unanswered(Last) /\ UNCHANGED index
    /\ UNCHANGED <<page_sum, cur_page, page_error, send_last_cnt, resend_num, rsend_cnt, error,
                   last_page, historyVars>>

(* At the end of the list the frame is looked at once more ... *)
ListEnds ==
    /\ pc = "resend" /\ index = Len(frame.lost)
    /\ \/ /\ Says(frame) = 1
          /\ pc' = "next" /\ send_result' = 1
          /\ excused' = (excused \/ ~told)
       \/ /\ Says(frame) # 1
          /\ pc' = "last"
          /\ UNCHANGED <<send_result, excused>>
    /\ index' = 0
    /\ UNCHANGED <<page_sum, cur_page, page_error, send_last_cnt, resend_num, rsend_cnt, error,
                   last_page, frameVars, networkVars, misled>>

(***************************************************************************)
(* ... and LASTPAGELOOP asks for a new verdict (the server has got the     *)
(* last page by now); three failures count as success.                     *)
(***************************************************************************)
NewVerdict ==
    /\ pc = "last"
    /\ Answered(Last)
    /\ rsend_cnt' = rsend_cnt + 1
    /\ \/ rsend_cnt < RoundMax /\ pc' = "verdict" /\ UNCHANGED excused
       \/ rsend_cnt >= RoundMax /\ pc' = "next" /\ excused' = TRUE
    /\ UNCHANGED <<page_sum, cur_page, page_error, send_last_cnt, resend_num, error, index,
                   last_page, misled>>

NoNewVerdict ==
    /\ pc = "last"
    /\ faults < Faults /\ faults' = faults + 1
    /\ error' = error + 1
    /\ send_result' = IF error' < GiveUpMax THEN -1 ELSE 1
    /\ excused' = (excused \/ error' >= GiveUpMax)
    /\ pc' = IF error' < GiveUpMax THEN "last" ELSE "next"
    /\ UNCHANGED <<page_sum, cur_page, page_error, send_last_cnt, resend_num, rsend_cnt, index,
                   last_page, frameVars, taken, received, odd, misled>>

(* The end of an iteration: the verdict in the frame is zeroed, its command is not. *)
Zeroed ==
    /\ pc = "next"
    /\ frame' = [frame EXCEPT !.result = "ok", !.lost = <<>>]
    /\ pc' = "page"
    /\ UNCHANGED <<counterVars, last_page, told, send_result, networkVars, historyVars>>

-----------------------------------------------------------------------------
Step ==
    \/ PageSent \/ PageFailed \/ Finished
    \/ CheckAnswered \/ CheckFailed
    \/ VerdictRead \/ NoVerdict
    \/ LostPageResent \/ LostPagesLookedAt \/ ListEnds
    \/ NewVerdict \/ NoNewVerdict
    \/ Zeroed

Returned == pc \in {"finished", "failed"} /\ UNCHANGED vars

Next == Step \/ Returned

Spec == Init /\ [][Next]_vars

(* The threads run on, and gsm answers every mail (GsmMail). *)
FairSpec == Spec /\ WF_vars(Step)

-----------------------------------------------------------------------------
(* Properties *)

TypeOK ==
    /\ pc \in {"page", "check", "verdict", "resend", "look", "last", "next", "finished", "failed"}
    /\ page_sum \in Byte /\ cur_page \in Byte
    /\ page_error \in 0..ErrorMax
    /\ send_last_cnt \in 0..LastMax
    /\ resend_num \in 0..ResendMax + 1
    /\ rsend_cnt \in 0..RoundMax + 1
    /\ error \in 0..GiveUpMax
    /\ frame \in Frame
    /\ index \in Byte
    /\ last_page \in BOOLEAN /\ told \in BOOLEAN /\ excused \in BOOLEAN /\ misled \in BOOLEAN
    /\ send_result \in {1, -1}
    /\ taken \subseteq Byte /\ received \subseteq taken

(***************************************************************************)
(* However often the two 8-bit counters are stepped back, and whichever of *)
(* them wraps, the pages sent and the pages to come add up to the picture. *)
(***************************************************************************)
CountersAgree == (cur_page + page_sum) % Wrap = Pages

(***************************************************************************)
(* A page behind the end of the picture is sent only after a page that the *)
(* modem refused, an answer that was no verdict, or by a list of lost      *)
(* pages that is none: failed checks alone never step back further than to *)
(* the first page, and no page is invented after an honest verdict.        *)
(***************************************************************************)
InPicture == taken \subseteq PageNumber \/ page_error > 0 \/ resend_num > 0 \/ misled

(***************************************************************************)
(* If the counter has room, the loop ends only after the modem has taken   *)
(* every page, and success is reported only if the server has the whole    *)
(* picture, unless it was read from a frame without a verdict of the       *)
(* server or follows from giving up; an old verdict, zeroed or repeated,   *)
(* never makes for success.                                                *)
(***************************************************************************)
SuccessBacked ==
    HasRoom /\ pc = "finished"
        => /\ PageNumber \subseteq taken
           /\ send_result = 1 /\ ~excused => PageNumber \subseteq received

(***************************************************************************)
(* Two faults (one less than ErrorMax and GiveUpMax) are made good,        *)
(* whichever pages, answers, checks and resent pages they hit, if the      *)
(* counter has room and nothing is taken for a verdict that is none.       *)
(***************************************************************************)
Few == HasRoom /\ faults < ErrorMax /\ faults < GiveUpMax /\ odd = 0 /\ ~misled
FaultsTolerated ==
    Few /\ pc \in {"finished", "failed"}
        => pc = "finished" /\ send_result = 1 /\ PageNumber \subseteq received

-----------------------------------------------------------------------------
(* What makes these inductive *)

Deciding == {"verdict", "resend", "look", "last"}
Resending == {"resend", "look", "last"}

(* The counters are within their limits where they are counted up. *)
Limits ==
    /\ pc \notin {"resend", "look"} => index = 0
    /\ pc # "failed" => page_error < ErrorMax /\ resend_num <= ResendMax
    /\ pc \notin {"check", "failed"} => send_last_cnt = 0
    /\ pc \in Deciding => rsend_cnt <= RoundMax
    /\ pc = "check" => rsend_cnt = 0
    /\ pc \in Resending => error < GiveUpMax

(* Checks begin after a tenth page and step back at most to the one before it. *)
Unwrapped ==
    page_error = 0 /\ resend_num = 0 =>
        /\ cur_page + page_sum = Pages
        /\ pc = "check" => cur_page + send_last_cnt >= CheckEvery
        /\ misled \/ taken \subseteq PageNumber

(***************************************************************************)
(* The counter of the pages to come has room for what a check may yet step *)
(* back: checks lie CheckEvery pages apart, but for the wrap of cur_page,  *)
(* and each refused page may begin a further one.                          *)
(***************************************************************************)
Room(e) == Pages + (Wrap % CheckEvery) + (e + 1) * CheckEvery
Again == IF page_error = 0 THEN 0 ELSE 1
RoomLeft ==
    HasRoom /\ pc # "failed" =>
        /\ page_sum <= Room(page_error)
        /\ pc = "check" => page_sum + (LastMax - send_last_cnt) <= Room(page_error)
        /\ last_page /\ pc = "check" => page_sum <= send_last_cnt + Again
        /\ last_page /\ pc \in Deciding => page_sum <= LastMax + Again

(* A verdict is read after the last page only, and the loop ends behind it. *)
LastOnly ==
    /\ pc \in Deciding => last_page
    /\ HasRoom /\ pc = "check" /\ ~last_page => page_sum > 0
    /\ pc = "finished" => page_sum = 0

(* A list of the server is not read beyond its end. *)
WithinList == pc \in {"resend", "look"} /\ ~misled => index <= Len(frame.lost)

Before(p) == p + page_sum < Pages
AllSent == HasRoom /\ pc # "failed" => \A p \in PageNumber : Before(p) => p \in taken

(* Behind the last page, an ok in the frame is no zeroed one. *)
Complete == PageNumber \subseteq received
OkIsTrue ==
    HasRoom /\ page_sum = 0 =>
        /\ pc \in Deciding \cup {"check"} /\ told /\ frame.result = "ok" => Complete
        /\ pc \in {"next", "page", "finished"} /\ send_result = 1 /\ ~excused => Complete

(* A verdict names all pages that are missing, and, the last one having come, no others. *)
AllNamed ==
    told =>
        /\ frame.kind = "verdict" /\ frame.result \in {"ok", "imperfect"}
        /\ frame.result = "imperfect" =>
               \A p \in Missing(received) : \E i \in DOMAIN frame.lost : frame.lost[i] = p
        /\ misled \/ \A i \in DOMAIN frame.lost : frame.lost[i] \in 0..Last - 1

(* Every attempt that is counted was a fault. *)
FaultsCounted ==
    /\ faults \in Nat /\ odd \in Nat
    /\ page_error <= faults /\ send_last_cnt <= faults /\ error <= faults
    /\ HasRoom /\ faults = 0 => \A p \in PageNumber : Before(p) => p \in received
    /\ HasRoom /\ faults = 0 /\ last_page /\ pc \in Deciding \cup {"check"} => page_sum = 0

(* Without odd answers the frame is no verdict only as long as no answer came ... *)
NoneYet ==
    odd = 0 /\ ~told =>
        /\ misled \/ (page_error + resend_num <= faults /\ resend_num <= page_error)
        /\ last_page /\ pc \in {"check", "verdict"} /\ ~misled => resend_num < page_error

(* ... and otherwise one: *)
VerdictsOnly ==
    odd = 0 /\ ~misled =>
        /\ HasRoom /\ page_sum = 0 /\ pc \in Deciding \cup {"check"} => told
        /\ pc \in Resending => told

(***************************************************************************)
(* each round of lost pages was caused by a fault before it, and a page    *)
(* that was resent in this round is missing still by another one only.     *)
(***************************************************************************)
RoundsCost ==
    HasRoom /\ odd = 0 /\ ~misled =>
        /\ last_page /\ pc \in {"check", "verdict"} /\ told /\ frame.result = "imperfect" => rsend_cnt < faults
        /\ pc \in Resending => rsend_cnt < faults
        /\ pc \in {"resend", "look"} /\ faults < rsend_cnt + 2 => \A i \in 1..index : frame.lost[i] \in received
        /\ pc = "last" /\ faults < rsend_cnt + 2 => Complete

FewAreNoHarm ==
    Few => /\ pc # "failed"
           /\ pc \in {"next", "page", "finished"} /\ page_sum = 0 => send_result = 1 /\ Complete

(* What holds in every state and is kept by every step *)
UploadInv ==
    /\ TypeOK /\ CountersAgree /\ Limits /\ Unwrapped /\ WithinList
    /\ RoomLeft /\ LastOnly /\ AllSent /\ OkIsTrue
    /\ AllNamed /\ FaultsCounted /\ NoneYet /\ VerdictsOnly /\ RoundsCost /\ FewAreNoHarm

(* The upload ends, if the faults do. *)
Terminates == <>(pc \in {"finished", "failed"})
=============================================================================
