----------------------------- MODULE AipUpdate -----------------------------
(***************************************************************************)
(* The remote update.  The server's command 0x99 stores an address and     *)
(* mails the aip thread, which loads the image through the modem into a    *)
(* file, copies the file into the serial flash, and programs the           *)
(* processor's own flash from there.  An image too large for the modem's   *)
(* memory is loaded range by range, each range chunk by chunk.             *)
(*                                                                         *)
(* The modem answers 400 to a range that reaches past the end of the       *)
(* image, which is how get_aip learns that the end is near.  Commands and  *)
(* file and flash operations may fail, and the modem may give other        *)
(* answers than the true one.                                              *)
(***************************************************************************)
EXTENDS Integers, Sequences

CONSTANTS Sizes,    \* sizes an image may have
          OldSizes, \* sizes the file an earlier life left may have, 0 for none
          Commands, \* update commands of the server
          Area,     \* size of the two flashes
          Range,    \* AIP_BREAKPOINT_SIZE
          Chunk,    \* SIZE_OF_PROCESS
          Block,    \* FILE_WRITE_FLASH_BUFFER_SIZE
          Memory,   \* what the modem can hold
          Faults,   \* bound on failed commands and operations
          OddAnswers \* bound on answers that are not the true one

ASSUME SizesAssumption ==
    /\ Area \in Nat /\ Sizes \subseteq 1..Area /\ Sizes # {}
    /\ OldSizes \subseteq 0..Area
    /\ Chunk \in Nat \ {0} /\ Block \in Nat \ {0}
    /\ Range \in Nat /\ Range >= 2 /\ Memory \in Nat /\ Memory >= Range
ASSUME BoundsAssumption == Commands \in Nat /\ Faults \in Nat /\ OddAnswers \in Nat

VARIABLES
    pc,
    size,             \* of the image each command asks for
    url,              \* the last command: aip_bin_http_address
    mails,            \* in aip_mq
    wanted,           \* the command whose address the modem was given
    start, end, aip_complete,
    range,            \* the modem's BREAK and BREAKEND; BREAKEND 0 is the end of the image
    answer,           \* what the modem holds: first byte and length
    aip_size,         \* left of it to read
    file, pos,        \* the file, and where its next byte is written
    kept,             \* in this download the old file could not be removed
    page,             \* blocks copied
    staged, internal, \* the serial flash and the processor's
    gap,              \* in this download a read or write failed
    refused,          \* in this download a range inside the image was refused
    damaged,          \* a failed copy
    faults, odd

serverVars == <<size, url, mails>>
rangeVars == <<start, end, aip_complete, range>>
fileVars == <<file, pos, kept>>
flashVars == <<page, staged, internal, damaged>>
vars == <<pc, serverVars, wanted, rangeVars, answer, aip_size, fileVars, flashVars,
          gap, refused, faults, odd>>

Image(c) == [i \in 1..size[c] |-> <<c, i>>]
Erased == <<0, 0>>
Garbage == <<0, 1>>
Old == <<0, 2>>
Byte == (1..Commands) \X (1..Area) \cup {Erased, Garbage, Old}

Init ==
    /\ pc = "idle"
    /\ size \in [1..Commands -> Sizes]
    /\ url = 0 /\ mails = 0 /\ wanted = 0
    /\ start = 0 /\ end = 0 /\ aip_complete = FALSE
    /\ range = <<>> /\ answer = <<0, 0>> /\ aip_size = 0
    /\ \E n \in OldSizes : file = [i \in 1..n |-> Old]
    /\ pos = 0 /\ kept = FALSE /\ page = 0
    /\ staged = [i \in 1..Area |-> Old] /\ internal = [i \in 1..Area |-> Old]
    /\ gap = FALSE /\ refused = FALSE /\ damaged = FALSE
    /\ faults = 0 /\ odd = 0

Fault == faults < Faults /\ faults' = faults + 1
Lesser(a, b) == IF a < b THEN a ELSE b
Greater(a, b) == IF a < b THEN b ELSE a

-----------------------------------------------------------------------------
(* The server's command: process_gprs_set_http and send_aip_mail *)
SetHttp ==
    /\ pc # "reset"
    /\ url < Commands
    /\ url' = url + 1
    /\ mails' = mails + 1
    /\ UNCHANGED <<pc, size, wanted, rangeVars, answer, aip_size, fileVars, flashVars, gap, refused,
                   faults, odd>>

(***************************************************************************)
(* unlink and open.  A file that cannot be removed, or what the card has   *)
(* kept of it, is opened as it is and written from its beginning: nothing  *)
(* truncates it.                                                           *)
(***************************************************************************)
OpenFile ==
    /\ pos' = 0
    /\ \/ file' = <<>> /\ kept' = FALSE /\ pc' = "setup" /\ UNCHANGED faults
       \/ file' = <<>> /\ kept' = FALSE /\ pc' = "idle" /\ Fault
       \/ /\ \E n \in DOMAIN file : file' = SubSeq(file, 1, n)
          /\ kept' = TRUE
          /\ pc' \in {"setup", "idle"}
          /\ Fault

(* A mail is received, and the file opened. *)
Receive ==
    /\ pc = "idle" /\ mails > 0
    /\ mails' = mails - 1
    /\ OpenFile
    /\ gap' = FALSE /\ refused' = FALSE
    /\ aip_complete' = FALSE /\ range' = <<>>
    /\ UNCHANGED <<size, url, wanted, start, end, answer, aip_size, flashVars, odd>>

(* The bearer and HTTP commands up to the address, which all have to succeed *)
SetUp ==
    /\ pc = "setup"
    /\ \/ /\ pc' = "get"
          /\ wanted' = url
          /\ start' = 0 /\ end' = Range - 1
          /\ UNCHANGED faults
       \/ Fault /\ pc' = "idle" /\ UNCHANGED <<wanted, start, end>>
    /\ UNCHANGED <<serverVars, aip_complete, range, answer, aip_size, fileVars, flashVars, gap, refused, odd>>

-----------------------------------------------------------------------------
(* AT_HTTPACTION_GET as the modem and the server answer it *)

From == IF range = <<>> THEN 0 ELSE range[1]
To == IF range = <<>> \/ range[2] = 0 THEN size[wanted] - 1 ELSE range[2]

TrueAnswer ==
    IF From >= size[wanted] \/ To >= size[wanted] THEN "bad_request"
    ELSE IF To - From + 1 > Memory THEN "no_memory"
    ELSE IF range = <<>> THEN "ok" ELSE "partial_content"

Answers(a) ==
    \/ a = TrueAnswer /\ UNCHANGED <<odd, refused>>
    \/ /\ a \in {"bad_request", "no_memory", "other"} \ {TrueAnswer}
       /\ odd < OddAnswers /\ odd' = odd + 1
       /\ refused' = (refused \/ a = "bad_request")

(* AT_HTTPPARA_BREAK and AT_HTTPPARA_BREAKEND, then to rescan; a failure ends the download. *)
SetRange(b, e) ==
    \/ range' = <<b, e>> /\ pc' = "get" /\ UNCHANGED faults
    \/ Fault /\ pc' = "idle" /\ UNCHANGED range

(* 200 or 206: the answer is read from its beginning. *)
Loaded ==
    /\ pc = "get"
    /\ \E a \in {"ok", "partial_content"} :
        /\ Answers(a)
        /\ aip_complete' = (aip_complete \/ a = "ok")
    /\ answer' = <<From, To - From + 1>>
    /\ aip_size' = To - From + 1
    /\ pc' = "read"
    /\ UNCHANGED <<serverVars, wanted, start, end, range, fileVars, flashVars, gap, faults>>

(* 602: the range is asked for. *)
NoMemory ==
    /\ pc = "get"
    /\ Answers("no_memory")
    /\ SetRange(start, end)
    /\ UNCHANGED <<serverVars, wanted, start, end, aip_complete, answer, aip_size, fileVars, flashVars, gap>>

(* mutant: the end of the refused range is kept *)
MutSameEnd ==
    /\ pc = "get"
    /\ Answers("bad_request")
    /\ aip_complete' = TRUE
    /\ SetRange(start, end)
    /\ UNCHANGED <<serverVars, wanted, start, end, answer, aip_size, fileVars, flashVars, gap>>

(* 400: all the rest is asked for. *)
BadRequest ==
    /\ pc = "get"
    /\ Answers("bad_request")
    /\ aip_complete' = TRUE
    /\ SetRange(start, 0)
    /\ UNCHANGED <<serverVars, wanted, start, end, answer, aip_size, fileVars, flashVars, gap>>

(* Any other answer, or none *)
GetFails ==
    /\ pc = "get"
    /\ \/ Answers("other") /\ UNCHANGED faults
       \/ Fault /\ UNCHANGED <<odd, refused>>
    /\ pc' = "idle"
    /\ UNCHANGED <<serverVars, wanted, rangeVars, answer, aip_size, fileVars, flashVars, gap>>

(* AT_HTTPREAD: its position is what has been read of the answer. *)
ReadStart == answer[1] + answer[2] - aip_size

(* write: from pos on, over what is there *)
Overwrite(f, p, data) ==
    [i \in 1..Greater(Len(f), p + Len(data)) |-> IF i \in p + 1..p + Len(data) THEN data[i - p] ELSE f[i]]

WriteFile(data) == file' = Overwrite(file, pos, data) /\ pos' = pos + Len(data)

(* mutant: a whole chunk is counted whatever was read *)
MutWholeChunk ==
    /\ pc = "read" /\ aip_size > 0
    /\ \E n \in 1..Lesser(Chunk, aip_size) :
        /\ aip_size' = aip_size - Chunk
        /\ WriteFile(SubSeq(Image(wanted), ReadStart + 1, ReadStart + n))
    /\ UNCHANGED <<pc, kept, serverVars, wanted, rangeVars, answer, flashVars, gap, refused, faults, odd>>

(* A chunk is read, or less of it, and written, or not. *)
ReadChunk ==
    /\ pc = "read" /\ aip_size > 0
    /\ \E n \in 1..Lesser(Chunk, aip_size) :
        /\ aip_size' = aip_size - n
        /\ \/ /\ WriteFile(SubSeq(Image(wanted), ReadStart + 1, ReadStart + n))
              /\ UNCHANGED <<gap, faults>>
           \/ Fault /\ gap' = TRUE /\ UNCHANGED <<file, pos>>
    /\ UNCHANGED <<pc, kept, serverVars, wanted, rangeVars, answer, flashVars, refused, odd>>

(* What the modem still holds is given up. *)
ReadFails ==
    /\ pc = "read" /\ aip_size > 0
    /\ Fault
    /\ gap' = TRUE
    /\ aip_size' = 0
    /\ UNCHANGED <<pc, serverVars, wanted, rangeVars, answer, fileVars, flashVars, refused, odd>>

(* close: if it fails, which is only printed, the card may keep less than was written. *)
CloseFile ==
    \/ UNCHANGED <<file, pos, gap, faults>>
    \/ /\ Fault
       /\ gap' = TRUE
       /\ \E n \in 0..pos : file' = SubSeq(file, 1, n) /\ pos' = n

(* mutants: the last range is not asked for; the ranges overlap *)
MutNoRest ==
    /\ pc = "read" /\ aip_size <= 0
    /\ \/ /\ aip_complete \/ end + Range >= size[wanted]
          /\ pc' = "stage" /\ page' = 0
          /\ CloseFile
          /\ UNCHANGED <<start, end, range>>
       \/ /\ ~aip_complete /\ end + Range < size[wanted]
          /\ start' = end + 1
          /\ end' = end + Range - 1
          /\ SetRange(start', end')
          /\ UNCHANGED <<file, pos, gap, page>>
    /\ UNCHANGED <<serverVars, wanted, aip_complete, answer, aip_size, kept, staged, internal, damaged,
                   refused, odd>>
MutOverlap ==
    /\ pc = "read" /\ aip_size <= 0
    /\ \/ /\ aip_complete
          /\ pc' = "stage" /\ page' = 0
          /\ CloseFile
          /\ UNCHANGED <<start, end, range>>
       \/ /\ ~aip_complete
          /\ start' = end
          /\ end' = end + Range - 1
          /\ SetRange(start', end')
          /\ UNCHANGED <<file, pos, gap, page>>
    /\ UNCHANGED <<serverVars, wanted, aip_complete, answer, aip_size, kept, staged, internal, damaged,
                   refused, odd>>

(***************************************************************************)
(* The answer is read: the download is complete, or the next range is      *)
(* asked for.  From the second one on a range is a byte shorter.           *)
(***************************************************************************)
RangeRead ==
    /\ pc = "read" /\ aip_size <= 0
    /\ \/ /\ aip_complete
          /\ pc' = "stage" /\ page' = 0
          /\ CloseFile
          /\ UNCHANGED <<start, end, range>>
       \/ /\ ~aip_complete
          /\ start' = end + 1
          /\ end' = end + Range - 1
          /\ SetRange(start', end')
          /\ UNCHANGED <<file, pos, gap, page>>
    /\ UNCHANGED <<serverVars, wanted, aip_complete, answer, aip_size, kept, staged, internal, damaged,
                   refused, odd>>

-----------------------------------------------------------------------------
(* file_write_flash_addr *)

WriteAddr == page * Block

(* SST25_W_BLOCK: the sector is erased, then written (in pairs of bytes; the odd one is left out). *)
Written(data) ==
    [i \in 1..Area |->
        IF i \in WriteAddr + 1..WriteAddr + Len(data) THEN data[i - WriteAddr]
        ELSE IF i \in WriteAddr + 1..WriteAddr + Block THEN Erased ELSE staged[i]]

(* A block that cannot be read ends the loop, but not the copying: the rest is next. *)
CopyBlock ==
    /\ pc = "stage" /\ page < Len(file) \div Block
    /\ \/ /\ staged' = Written(SubSeq(file, WriteAddr + 1, WriteAddr + Block))
          /\ page' = page + 1
          /\ UNCHANGED <<pc, damaged, faults>>
       \/ /\ Fault
          /\ damaged' = TRUE
          /\ pc' = "surplus"
          /\ UNCHANGED <<staged, page>>
    /\ UNCHANGED <<serverVars, wanted, rangeVars, answer, aip_size, fileVars, internal, gap, refused, odd>>

(***************************************************************************)
(* The surplus; if it cannot be read, -1 is taken for the number of bytes  *)
(* to write.  The result is 0 in any case, except when the file or the     *)
(* memory for the block was not there to begin with.                       *)
(***************************************************************************)
CopySurplus ==
    /\ \/ pc = "stage" /\ page = Len(file) \div Block
       \/ pc = "surplus"
    /\ LET surplus == Len(file) % Block
       IN  \/ /\ surplus = 0
              /\ pc' = "program"
              /\ UNCHANGED <<staged, damaged, faults>>
           \/ /\ surplus > 0
              /\ pc' = "program"
              /\ \/ /\ staged' = Written(SubSeq(file, WriteAddr + 1, WriteAddr + surplus))
                    /\ UNCHANGED <<damaged, faults>>
                 \/ /\ Fault
                    /\ damaged' = TRUE
                    /\ staged' = [i \in 1..Area |-> IF i > WriteAddr THEN Garbage ELSE staged[i]]
    /\ UNCHANGED <<serverVars, wanted, rangeVars, answer, aip_size, fileVars, page, internal, gap, refused, odd>>

CopyRefused ==
    /\ pc = "stage" /\ page = 0
    /\ Fault
    /\ pc' = "idle"
    /\ UNCHANGED <<serverVars, wanted, rangeVars, answer, aip_size, fileVars, flashVars, gap, refused, odd>>

(* firm_update: everything is erased and programmed; the first error ends it; then reset. *)
firm_update ==
    /\ pc = "program"
    /\ pc' = "reset"
    /\ \/ internal' = staged /\ UNCHANGED <<damaged, faults>>
       \/ /\ Fault
          /\ damaged' = TRUE
          /\ \E n \in 0..Area - 1, rest \in {internal, [i \in 1..Area |-> Erased]} :
                internal' = [i \in 1..Area |->
                    IF i > n THEN rest[i] ELSE IF rest = internal THEN Erased ELSE staged[i]]
    /\ UNCHANGED <<serverVars, wanted, rangeVars, answer, aip_size, fileVars, page, staged, gap, refused, odd>>

-----------------------------------------------------------------------------
Thread ==
    \/ Receive \/ SetUp
    \/ Loaded \/ NoMemory \/ BadRequest \/ GetFails
    \/ ReadChunk \/ ReadFails \/ RangeRead
    \/ CopyBlock \/ CopySurplus \/ CopyRefused \/ firm_update

(* All mails dealt with, or the processor reset: what follows is another life. *)
Rest ==
    /\ \/ pc = "idle" /\ mails = 0 /\ url = Commands
       \/ pc = "reset"
    /\ UNCHANGED vars

Next == SetHttp \/ Thread \/ Rest

Spec == Init /\ [][Next]_vars

(* The aip thread runs on, and gsm answers every mail (GsmMail). *)
FairSpec == Spec /\ WF_vars(Thread)

-----------------------------------------------------------------------------
(* Properties *)

TypeOK ==
    /\ pc \in {"idle", "setup", "get", "read", "stage", "surplus", "program", "reset"}
    /\ url \in 0..Commands /\ wanted \in 0..url /\ mails \in 0..url
    /\ start \in 0..Area /\ end \in 0..Area + Range
    /\ range = <<>> \/ range \in (0..Area) \X (0..Area + Range)
    /\ answer \in (0..Area) \X (0..Area) /\ answer[1] + answer[2] <= Area
    /\ aip_size \in 0..answer[2]
    /\ file \in Seq(Byte) /\ Len(file) <= Area /\ pos \in 0..Len(file)
    /\ staged \in [1..Area -> Byte] /\ internal \in [1..Area -> Byte]
    /\ page \in 0..Area
    /\ aip_complete \in BOOLEAN /\ kept \in BOOLEAN /\ gap \in BOOLEAN /\ refused \in BOOLEAN /\ damaged \in BOOLEAN

(***************************************************************************)
(* What a download has written is of one image, whatever an earlier one    *)
(* left and a command that comes meanwhile asks for: the file holds        *)
(* another image only behind it, and only when the old file could not be   *)
(* removed.  The ranges follow each other without a gap or an overlap,     *)
(* though their length changes: unless a read or write failed, what was    *)
(* written is a beginning of the image, whatever the modem answers and     *)
(* however short its reads.                                                *)
(***************************************************************************)
RangesJoin ==
    /\ pc # "idle" => \A i \in DOMAIN file : file[i][1] = wanted \/ (kept /\ i > pos)
    /\ pos > 0 /\ ~gap => SubSeq(file, 1, pos) = SubSeq(Image(wanted), 1, pos)

(***************************************************************************)
(* The processor restarts with the whole image unless a read, a write or   *)
(* a copy failed, or a range inside the image was refused: every other     *)
(* failure leaves the program alone, also one in the middle of a sequence  *)
(* of ranges, and an old file that could not be removed lies only behind   *)
(* the image.                                                              *)
(***************************************************************************)
WholeImage ==
    pc = "reset" /\ ~gap /\ ~refused /\ ~damaged
        => SubSeq(internal, 1, size[wanted]) = Image(wanted)

(***************************************************************************)
(* What is asked for begins behind what was loaded: one whole image, the   *)
(* range from start to end, or all the rest, which is asked for only when  *)
(* the range reaches past the image, or seems to.                          *)
(***************************************************************************)
Asking ==
    /\ pc \in {"get", "read", "stage", "surplus", "program", "reset"} => wanted \in 1..Commands
    /\ pc = "setup" => url > 0 /\ pos = 0 /\ range = <<>> /\ ~aip_complete
    /\ pc \in {"get", "read"} => start <= end /\ end > 0
    /\ pc = "get" =>
        /\ pos <= start /\ (~gap => pos = start)
        /\ \/ range = <<>> /\ start = 0 /\ ~aip_complete
           \/ range = <<start, end>>
           \/ range = <<start, 0>> /\ aip_complete
        /\ aip_complete /\ ~refused => end >= size[wanted]

(* What the modem holds ends where the next range begins, or with the image. *)
Reading ==
    pc = "read" =>
        /\ pos <= ReadStart /\ (~gap => pos = ReadStart)
        /\ answer[1] + answer[2] <= size[wanted]
        /\ ~aip_complete => answer[1] + answer[2] = end + 1
        /\ aip_complete /\ ~refused => answer[1] + answer[2] = size[wanted]

(* Byte by byte, what was written is of one image, and a beginning of it. *)
FileJoins ==
    /\ pos > 0 => wanted \in 1..Commands
    /\ \A i \in 1..pos : file[i][1] = wanted
    /\ pos > 0 /\ ~gap =>
        /\ pos <= size[wanted]
        /\ \A i \in 1..pos : file[i] = <<wanted, i>>
    /\ pc # "idle" /\ ~kept => Len(file) = pos

(* Block by block, what has been copied is the file, which begins with the whole image. *)
CopyAgrees ==
    /\ pc \in {"stage", "surplus"} => page <= Len(file) \div Block
    /\ pc = "surplus" => damaged
    /\ pc = "stage" /\ ~damaged => \A i \in 1..page * Block : staged[i] = file[i]
    /\ pc = "program" /\ ~damaged => \A i \in DOMAIN file : staged[i] = file[i]
    /\ pc = "reset" /\ ~damaged => \A i \in DOMAIN file : internal[i] = file[i]
    /\ pc \in {"stage", "surplus", "program", "reset"} /\ ~gap /\ ~refused => pos = size[wanted]

(* What holds in every state and is kept by every step *)
UpdateInv ==
    /\ TypeOK /\ size \in [1..Commands -> Sizes]
    /\ Asking /\ Reading /\ FileJoins /\ CopyAgrees

(***************************************************************************)
(* The aip thread ends every download, and with it the session, unless a   *)
(* range ends with the image, which takes an image of one such size: then  *)
(* the next range begins behind it, and 400 is answered and asked for      *)
(* again without end.                                                      *)
(***************************************************************************)
RangeEndsImage(n) == n >= Range /\ (n - 1) % (Range - 1) = 0
SessionEnds ==
    pc = "get" ~> \/ pc \in {"idle", "reset"}
                  \/ pc = "get" /\ start = size[wanted] /\ RangeEndsImage(size[wanted])
=============================================================================
