-------------------------- MODULE AipUpdateProofs --------------------------
(***************************************************************************)
(* Proofs about the remote update, for every size of image, flash, range,  *)
(* chunk, block and modem memory that SizesAssumption admits, and for any  *)
(* number of commands, failures and odd answers.                           *)
(*                                                                         *)
(* Every theorem follows from UpdateInv, which is inductive.  RangesJoin   *)
(* and WholeImage speak of the file and of the flash; what they need is    *)
(* where the next range begins (Asking), where the answer being read ends  *)
(* (Reading), and that the blocks copied so far are the file's             *)
(* (CopyAgrees).                                                           *)
(***************************************************************************)
EXTENDS AipUpdate, TLAPS

(* Blocks: as many whole ones as fit, and the surplus *)
LEMMA Blocks ==
    ASSUME NEW n \in Nat
    PROVE  /\ n \div Block \in Nat /\ n % Block \in 0..Block - 1
           /\ n = (n \div Block) * Block + (n % Block)
           /\ n \div Block <= n
           /\ \A p \in Nat : p < n \div Block => p * Block + Block <= n
           /\ \A p \in Nat : p <= n \div Block => p * Block + (n % Block) <= n
<1>1. Block \in Nat /\ Block > 0
    BY SizesAssumption
<1>2. /\ n \div Block \in Nat /\ n % Block \in 0..Block - 1
      /\ n = (n \div Block) * Block + (n % Block)
  <2>1. n \div Block \in Nat
      BY <1>1
  <2>2. n % Block \in 0..Block - 1
      BY <1>1
  <2>3. n = Block * (n \div Block) + (n % Block)
      BY <1>1
  <2> QED
      BY <1>1, <2>1, <2>2, <2>3
<1>3. \A p \in Nat : p <= n \div Block => p * Block <= (n \div Block) * Block
    BY <1>1, <1>2
<1>4. \A p \in Nat : p < n \div Block => p * Block + Block <= n
  <2> TAKE p \in Nat
  <2> HAVE p < n \div Block
  <2>1. p + 1 \in Nat /\ p + 1 <= n \div Block
      BY <1>2
  <2>2. (p + 1) * Block <= (n \div Block) * Block
      BY <1>3, <2>1
  <2>3. (p + 1) * Block = p * Block + Block
      BY <1>1
  <2> QED
      BY <1>1, <1>2, <2>2, <2>3
<1>5. n \div Block <= (n \div Block) * Block
    BY <1>1, <1>2
<1> QED
    BY <1>1, <1>2, <1>3, <1>4, <1>5

(* The part of a sequence that is copied *)
LEMMA Part ==
    ASSUME NEW S, NEW s \in Seq(S), NEW a \in Nat, NEW k \in Nat, a + k <= Len(s)
    PROVE  /\ SubSeq(s, a + 1, a + k) \in Seq(S) /\ Len(SubSeq(s, a + 1, a + k)) = k
           /\ \A i \in 1..k : SubSeq(s, a + 1, a + k)[i] = s[a + i] /\ s[a + i] \in S
<1>1. /\ SubSeq(s, a + 1, a + k) \in Seq(S) /\ Len(SubSeq(s, a + 1, a + k)) = k
    OBVIOUS
<1>2. ASSUME NEW i \in 1..k
      PROVE  SubSeq(s, a + 1, a + k)[i] = s[a + i] /\ s[a + i] \in S
  <2>1. i \in 1..Len(SubSeq(s, a + 1, a + k)) /\ a + i \in 1..Len(s)
      BY <1>1, <1>2
  <2>2. SubSeq(s, a + 1, a + k)[i] = s[i + (a + 1) - 1]
      BY <2>1
  <2>3. i + (a + 1) - 1 = a + i
      BY <1>2
  <2> QED
      BY <2>1, <2>2, <2>3
<1> QED
    BY <1>1, <1>2

(* The image is a sequence of bytes. *)
LEMMA ImageType ==
    ASSUME size \in [1..Commands -> Sizes], NEW c \in 1..Commands
    PROVE  /\ Image(c) \in Seq(Byte) /\ Len(Image(c)) = size[c] /\ size[c] \in 1..Area
           /\ \A i \in 1..size[c] : Image(c)[i] = <<c, i>>
<1>1. size[c] \in 1..Area /\ Area \in Nat
    BY SizesAssumption
<1>2. \A i \in 1..size[c] : <<c, i>> \in Byte
    BY <1>1 DEF Byte
<1> QED
    BY <1>1, <1>2 DEF Image

(* A function on 1..n is a sequence of length n. *)
LEMMA FunctionIsSeq ==
    ASSUME NEW n \in Nat, NEW w \in [1..n -> Byte]
    PROVE  w \in Seq(Byte) /\ Len(w) = n
    OBVIOUS

(* What a file holds after a write *)
LEMMA Overwritten ==
    ASSUME NEW s \in Seq(Byte), NEW t \in Seq(Byte), NEW p \in 0..Len(s)
    PROVE  /\ Overwrite(s, p, t) \in Seq(Byte) /\ Len(Overwrite(s, p, t)) = Greater(Len(s), p + Len(t))
           /\ \A i \in 1..p : Overwrite(s, p, t)[i] = s[i]
           /\ \A i \in p + 1..p + Len(t) : Overwrite(s, p, t)[i] = t[i - p]
<1> DEFINE n == Greater(Len(s), p + Len(t))
           w == Overwrite(s, p, t)
<1>1. Len(s) \in Nat /\ Len(t) \in Nat /\ p \in Nat /\ p <= Len(s)
    OBVIOUS
<1>2. n \in Nat /\ n >= Len(s) /\ n >= p + Len(t) /\ (n = Len(s) \/ n = p + Len(t))
    BY <1>1 DEF Greater
<1> w = [i \in 1..n |-> IF i \in p + 1..p + Len(t) THEN t[i - p] ELSE s[i]]
    BY DEF Overwrite
<1> HIDE DEF n, w
<1>3. ASSUME NEW i \in 1..n
      PROVE  (IF i \in p + 1..p + Len(t) THEN t[i - p] ELSE s[i]) \in Byte
  <2>1. CASE i \in p + 1..p + Len(t)
    <3>1. i - p \in 1..Len(t)
        BY <1>1, <2>1
    <3> QED
        BY <2>1, <3>1
  <2>2. CASE i \notin p + 1..p + Len(t)
    <3>1. i \in 1..Len(s)
        BY <1>1, <1>2, <2>2
    <3> QED
        BY <2>2, <3>1
  <2> QED
      BY <2>1, <2>2
<1>4. w \in [1..n -> Byte]
    BY <1>3
<1>5. w \in Seq(Byte) /\ Len(w) = n
    BY <1>2, <1>4, FunctionIsSeq, Zenon
<1>6. \A i \in 1..p : i \in 1..n /\ i \notin p + 1..p + Len(t)
    BY <1>1, <1>2
<1>7. \A i \in p + 1..p + Len(t) : i \in 1..n
    BY <1>1, <1>2
<1>8. (\A i \in 1..p : w[i] = s[i]) /\ \A i \in p + 1..p + Len(t) : w[i] = t[i - p]
    BY <1>6, <1>7
<1> QED
    BY <1>5, <1>8 DEF n, w

(* A beginning of the file *)
LEMMA Beginning ==
    ASSUME NEW s \in Seq(Byte), NEW n \in 0..Len(s)
    PROVE  /\ SubSeq(s, 1, n) \in Seq(Byte) /\ Len(SubSeq(s, 1, n)) = n
           /\ \A i \in 1..n : SubSeq(s, 1, n)[i] = s[i]
<1>1. SubSeq(s, 1, n) \in Seq(Byte) /\ Len(SubSeq(s, 1, n)) = n
    OBVIOUS
<1>2. ASSUME NEW i \in 1..n PROVE SubSeq(s, 1, n)[i] = s[i]
  <2>1. i \in 1..Len(SubSeq(s, 1, n)) /\ i + 1 - 1 = i
      BY <1>1
  <2> QED
      BY <2>1
<1> QED
    BY <1>1, <1>2

-----------------------------------------------------------------------------
LEMMA InitKeeps == Init => UpdateInv
<1> SUFFICES ASSUME Init PROVE UpdateInv
    OBVIOUS
<1>1. Old \in Byte /\ Commands \in Nat /\ Area \in Nat /\ Range \in Nat
    BY SizesAssumption, BoundsAssumption DEF Byte
<1>2. staged \in [1..Area -> Byte] /\ internal \in [1..Area -> Byte]
    BY <1>1 DEF Init
<1>3. TypeOK
  <2>1. /\ url \in 0..Commands /\ wanted \in 0..url /\ mails \in 0..url
        /\ start \in 0..Area /\ end \in 0..Area + Range /\ page \in 0..Area
      BY <1>1 DEF Init
  <2>2. answer \in (0..Area) \X (0..Area) /\ answer[1] + answer[2] <= Area /\ aip_size \in 0..answer[2]
      BY <1>1 DEF Init
  <2>3. file \in Seq(Byte) /\ Len(file) <= Area /\ pos \in 0..Len(file) /\ range = <<>>
    <3>1. PICK n \in OldSizes : file = [i \in 1..n |-> Old]
        BY DEF Init
    <3>2. n \in 0..Area
        BY SizesAssumption
    <3>3. file \in Seq(Byte) /\ Len(file) = n
        BY <1>1, <3>1, <3>2
    <3>4. pos = 0 /\ range = <<>>
        BY DEF Init
    <3> QED
        BY <1>1, <3>2, <3>3, <3>4
  <2> QED
      BY <1>2, <2>1, <2>2, <2>3 DEF Init, TypeOK
<1> QED
    BY <1>3 DEF Init, UpdateInv, Asking, Reading, FileJoins, CopyAgrees

(* A step that only leaves the download: nothing but pc, the bounds, and perhaps odd answers *)
LEMMA LeavesKeeps ==
    ASSUME UpdateInv, pc' = "idle", refused' \in BOOLEAN,
           UNCHANGED <<serverVars, wanted, start, end, range, answer, aip_size, fileVars, flashVars, gap>>,
           aip_complete' \in BOOLEAN
    PROVE  UpdateInv'
<1>1. TypeOK'
    BY DEF UpdateInv, TypeOK, serverVars, fileVars, flashVars
<1> QED
    BY <1>1 DEF UpdateInv, Asking, Reading, FileJoins, CopyAgrees, serverVars, fileVars, flashVars

LEMMA SetHttpKeeps == ASSUME UpdateInv, SetHttp PROVE UpdateInv'
<1>1. UNCHANGED <<pc, size, wanted, start, end, aip_complete, range, answer, aip_size, file, pos, kept,
                  page, staged, internal, damaged, gap, refused>>
    BY DEF SetHttp, rangeVars, fileVars, flashVars
<1>2. url' = url + 1 /\ mails' = mails + 1 /\ url < Commands /\ Commands \in Nat
    BY BoundsAssumption DEF SetHttp
<1>3. url' \in 0..Commands /\ wanted' \in 0..url' /\ mails' \in 0..url' /\ url' > 0
    BY <1>1, <1>2 DEF UpdateInv, TypeOK
<1>4. TypeOK'
    BY <1>1, <1>3 DEF UpdateInv, TypeOK
<1> QED
    BY <1>1, <1>3, <1>4 DEF UpdateInv, Asking, Reading, ReadStart, FileJoins, CopyAgrees

LEMMA ReceiveKeeps == ASSUME UpdateInv, Receive PROVE UpdateInv'
<1>1. UNCHANGED <<size, url, wanted, start, end, answer, aip_size, page, staged, internal, damaged>>
    BY DEF Receive, flashVars
<1>2. /\ pc = "idle" /\ mails > 0 /\ mails' = mails - 1 /\ pos' = 0 /\ gap' = FALSE /\ refused' = FALSE
      /\ aip_complete' = FALSE /\ range' = <<>> /\ pc' \in {"setup", "idle"}
    BY DEF Receive, OpenFile
<1>3. mails' \in 0..url' /\ url' > 0
    BY <1>1, <1>2, BoundsAssumption DEF UpdateInv, TypeOK
<1>4. /\ file' \in Seq(Byte) /\ Len(file') \in Nat /\ Len(file') <= Area /\ kept' \in BOOLEAN
      /\ ~kept' => Len(file') = 0
  <2>1. CASE file' = <<>> /\ kept' = FALSE
    <3>1. file' \in Seq(Byte) /\ Len(file') = 0
        BY <2>1
    <3>2. kept' \in BOOLEAN
        BY <2>1, Zenon
    <3> QED
        BY <3>1, <3>2, SizesAssumption
  <2>2. CASE kept' = TRUE /\ \E n \in DOMAIN file : file' = SubSeq(file, 1, n)
    <3>1. PICK n \in DOMAIN file : file' = SubSeq(file, 1, n)
        BY <2>2
    <3>2. file \in Seq(Byte) /\ Len(file) \in Nat /\ Len(file) <= Area /\ Area \in Nat
        BY SizesAssumption DEF UpdateInv, TypeOK
    <3>3. n \in 0..Len(file)
        BY <3>2
    <3>4. file' \in Seq(Byte) /\ Len(file') = n
        BY <3>1, <3>2, <3>3, Beginning
    <3> QED
        BY <2>2, <3>2, <3>3, <3>4
  <2> QED
      BY <2>1, <2>2 DEF Receive, OpenFile
<1>5. TypeOK'
  <2>1. pos' \in 0..Len(file')
      BY <1>2, <1>4
  <2> QED
      BY <1>1, <1>2, <1>3, <1>4, <2>1 DEF UpdateInv, TypeOK
<1>6. FileJoins'
    BY <1>2, <1>4 DEF FileJoins
<1> QED
    BY <1>1, <1>2, <1>3, <1>5, <1>6 DEF UpdateInv, Asking, Reading, CopyAgrees

LEMMA SetUpKeeps == ASSUME UpdateInv, SetUp PROVE UpdateInv'
<1>1. UNCHANGED <<size, url, mails, aip_complete, range, answer, aip_size, file, pos, kept,
                  page, staged, internal, damaged, gap, refused>>
    BY DEF SetUp, serverVars, fileVars, flashVars
<1>2. CASE pc' = "get" /\ wanted' = url /\ start' = 0 /\ end' = Range - 1
  <2>1. url > 0 /\ pos = 0 /\ range = <<>> /\ ~aip_complete
      BY DEF SetUp, UpdateInv, Asking
  <2>2. wanted' \in 1..Commands /\ wanted' \in 0..url' /\ start' \in 0..Area /\ end' \in 0..Area + Range
        /\ end' > 0 /\ start' <= end'
      BY <1>1, <1>2, <2>1, SizesAssumption, BoundsAssumption DEF UpdateInv, TypeOK
  <2>3. TypeOK'
      BY <1>1, <1>2, <2>2 DEF UpdateInv, TypeOK
  <2>4. FileJoins'
    <3>1. pc = "setup"
        BY DEF SetUp
    <3> QED
        BY <1>1, <2>1, <3>1 DEF UpdateInv, FileJoins
  <2> QED
      BY <1>1, <1>2, <2>1, <2>2, <2>3, <2>4 DEF UpdateInv, Asking, Reading, CopyAgrees
<1>3. CASE pc' = "idle" /\ UNCHANGED <<wanted, start, end>>
  <2>1. refused' \in BOOLEAN /\ aip_complete' \in BOOLEAN
      BY <1>1 DEF UpdateInv, TypeOK
  <2> QED
      BY <1>1, <1>3, <2>1, LeavesKeeps DEF serverVars, fileVars, flashVars
<1> QED
    BY <1>2, <1>3 DEF SetUp

-----------------------------------------------------------------------------
(* AT_HTTPACTION_GET *)

(* The range asked for, as the modem takes it *)
LEMMA AskedFor ==
    ASSUME UpdateInv, pc = "get"
    PROVE  /\ wanted \in 1..Commands /\ size[wanted] \in 1..Area
           /\ From = start /\ start \in 0..Area /\ end \in 0..Area + Range /\ start <= end
           /\ \/ range = <<>> /\ To = size[wanted] - 1 /\ ~aip_complete
              \/ range = <<start, end>> /\ range # <<>> /\ To = end
              \/ range = <<start, 0>> /\ range # <<>> /\ aip_complete /\ To = size[wanted] - 1
<1>1. wanted \in 1..Commands /\ size[wanted] \in 1..Area
  <2>1. wanted \in 1..Commands
      BY DEF UpdateInv, Asking
  <2> QED
      BY <2>1, ImageType DEF UpdateInv
<1>2. start \in 0..Area /\ end \in 0..Area + Range /\ start <= end /\ end > 0
    BY DEF UpdateInv, TypeOK, Asking
<1>3. \A x, y : <<x, y>> # <<>>
    OBVIOUS
<1>4. CASE range = <<>> /\ start = 0 /\ ~aip_complete
    BY <1>1, <1>2, <1>4 DEF From, To
<1>5. CASE range = <<start, end>>
    BY <1>1, <1>2, <1>3, <1>5, SizesAssumption DEF From, To
<1>6. CASE range = <<start, 0>> /\ aip_complete
    BY <1>1, <1>2, <1>3, <1>6 DEF From, To
<1> QED
    BY <1>4, <1>5, <1>6 DEF UpdateInv, Asking

(* Only a range that reaches past the image is refused, or the refusal is noted. *)
LEMMA RefusalNoted ==
    ASSUME UpdateInv, pc = "get", Answers("bad_request")
    PROVE  /\ refused' \in BOOLEAN
           /\ ~refused' => end >= size[wanted]
<1>1. refused \in BOOLEAN
    BY DEF UpdateInv, TypeOK
<1>2. CASE TrueAnswer = "bad_request" /\ UNCHANGED refused
  <2>1. From >= size[wanted] \/ To >= size[wanted]
      BY <1>2 DEF TrueAnswer
  <2> QED
      BY <1>1, <1>2, <2>1, AskedFor, SizesAssumption
<1>3. CASE refused' = (refused \/ "bad_request" = "bad_request")
    BY <1>3
<1> QED
    BY <1>2, <1>3 DEF Answers

LEMMA LoadedKeeps == ASSUME UpdateInv, Loaded PROVE UpdateInv'
<1>1. UNCHANGED <<size, url, mails, wanted, start, end, range, file, pos, kept, page, staged, internal, damaged, gap>>
    BY DEF Loaded, serverVars, fileVars, flashVars
<1>2. pc = "get" /\ pc' = "read" /\ answer' = <<From, To - From + 1>> /\ aip_size' = To - From + 1
    BY DEF Loaded
<1>3. PICK a \in {"ok", "partial_content"} : a = TrueAnswer /\ UNCHANGED refused /\ aip_complete' = (aip_complete \/ a = "ok")
    BY DEF Loaded, Answers
<1>4. /\ From < size[wanted] /\ To < size[wanted]
      /\ a = "ok" <=> range = <<>>
  <2>1. ~(From >= size[wanted] \/ To >= size[wanted]) /\ (a = "ok" <=> range = <<>>)
      BY <1>3 DEF TrueAnswer
  <2>2. From \in Int /\ To \in Int /\ size[wanted] \in Int
      BY <1>2, AskedFor, SizesAssumption
  <2> QED
      BY <2>1, <2>2
<1>5. /\ wanted \in 1..Commands /\ size[wanted] \in 1..Area
      /\ From = start /\ start \in 0..Area /\ end \in 0..Area + Range /\ start <= end /\ Area \in Nat
      /\ \/ range = <<>> /\ To = size[wanted] - 1 /\ ~aip_complete
         \/ range = <<start, end>> /\ range # <<>> /\ To = end
         \/ range = <<start, 0>> /\ range # <<>> /\ aip_complete /\ To = size[wanted] - 1
    BY <1>2, AskedFor, SizesAssumption
<1>6. To \in 0..Area - 1 /\ From <= To /\ From \in 0..Area /\ To - From + 1 \in 0..Area
      /\ From + (To - From + 1) = To + 1 /\ To + 1 <= Area
  <2>1. To \in Int /\ From \in Int /\ From <= To
    <3>1. CASE To = size[wanted] - 1
        BY <1>4, <1>5, <3>1
    <3>2. CASE To = end
        BY <1>5, <3>2
    <3> QED
        BY <1>5, <3>1, <3>2
  <2> QED
      BY <1>4, <1>5, <2>1
<1>7. answer' \in (0..Area) \X (0..Area) /\ answer'[1] = From /\ answer'[2] = To - From + 1
    BY <1>2, <1>6
<1>8. aip_complete' \in BOOLEAN
    BY <1>3 DEF UpdateInv, TypeOK
<1>9. TypeOK'
  <2>1. aip_size' \in 0..answer'[2] /\ answer'[1] + answer'[2] <= Area
      BY <1>2, <1>6, <1>7
  <2> QED
      BY <1>1, <1>2, <1>3, <1>7, <1>8, <2>1 DEF UpdateInv, TypeOK
<1>10. Reading'
  <2>1. ReadStart' = start
      BY <1>2, <1>5, <1>6, <1>7 DEF ReadStart
  <2>2. pos' <= ReadStart' /\ (~gap' => pos' = ReadStart')
      BY <1>1, <1>2, <2>1 DEF UpdateInv, Asking
  <2>3. answer'[1] + answer'[2] = To + 1 /\ To + 1 <= size[wanted]
      BY <1>4, <1>5, <1>6, <1>7
  <2>4. ~aip_complete' => To = end
      BY <1>3, <1>4, <1>5
  <2>5. aip_complete' /\ ~refused' => To + 1 = size[wanted]
    <3>1. range = <<start, end>> /\ range # <<>> /\ aip_complete' => aip_complete
        BY <1>3, <1>4
    <3>2. range = <<start, end>> /\ range # <<>> /\ aip_complete /\ ~refused => end >= size[wanted]
        BY <1>2 DEF UpdateInv, Asking
    <3> QED
        BY <1>3, <1>4, <1>5, <3>1, <3>2
  <2> QED
      BY <1>1, <2>2, <2>3, <2>4, <2>5 DEF Reading
<1>11. Asking'
    BY <1>1, <1>2 DEF UpdateInv, Asking
<1> QED
    BY <1>1, <1>2, <1>9, <1>10, <1>11 DEF UpdateInv, FileJoins, CopyAgrees

(* A range is asked for, or the download is given up. *)
LEMMA SetRangeKeeps ==
    ASSUME UpdateInv, pc # "idle", NEW STATE b, NEW STATE e, SetRange(b, e), refused' \in BOOLEAN, aip_complete' \in BOOLEAN,
           start' \in 0..Area, end' \in 0..Area + Range, start' <= end', end' > 0, wanted \in 1..Commands,
           b = start', e = end' \/ (e = 0 /\ aip_complete'),
           pos <= start', ~gap => pos = start',
           aip_complete' /\ ~refused' => end' >= size[wanted],
           UNCHANGED <<serverVars, wanted, answer, aip_size, fileVars, flashVars, gap>>
    PROVE  UpdateInv'
<1>1. UNCHANGED <<size, url, mails, wanted, answer, aip_size, file, pos, kept, page, staged, internal, damaged, gap>>
    BY DEF serverVars, fileVars, flashVars
<1>2. CASE range' = <<b, e>> /\ pc' = "get"
  <2>1. b \in 0..Area /\ e \in 0..Area + Range
      BY SizesAssumption
  <2>2. range' \in (0..Area) \X (0..Area + Range)
      BY <1>2, <2>1
  <2>3. TypeOK'
      BY <1>1, <1>2, <2>2 DEF UpdateInv, TypeOK
  <2>4. Asking'
    <3>1. range' = <<start', end'>> \/ (range' = <<start', 0>> /\ aip_complete')
        BY <1>2
    <3> QED
        BY <1>1, <1>2, <3>1 DEF Asking
  <2> QED
      BY <1>1, <1>2, <2>3, <2>4 DEF UpdateInv, Reading, FileJoins, CopyAgrees
<1>3. CASE pc' = "idle" /\ UNCHANGED range
  <2>1. TypeOK'
      BY <1>1, <1>3 DEF UpdateInv, TypeOK
  <2> QED
      BY <1>1, <1>3, <2>1 DEF UpdateInv, Asking, Reading, FileJoins, CopyAgrees
<1> QED
    BY <1>2, <1>3 DEF SetRange

LEMMA NoMemoryKeeps == ASSUME UpdateInv, NoMemory PROVE UpdateInv'
<1>1. UNCHANGED <<serverVars, wanted, start, end, aip_complete, answer, aip_size, fileVars, flashVars, gap>>
    BY DEF NoMemory
<1>2. pc = "get" /\ SetRange(start, end)
    BY DEF NoMemory
<1>3. refused' = refused
    BY DEF NoMemory, Answers, UpdateInv, TypeOK
<1>4. /\ start' \in 0..Area /\ end' \in 0..Area + Range /\ start' <= end' /\ end' > 0 /\ wanted \in 1..Commands
      /\ pos <= start' /\ (~gap => pos = start')
      /\ (aip_complete' /\ ~refused' => end' >= size[wanted])
      /\ refused' \in BOOLEAN /\ aip_complete' \in BOOLEAN
    BY <1>1, <1>2, <1>3 DEF UpdateInv, TypeOK, Asking
<1> QED
    BY <1>1, <1>2, <1>4, SetRangeKeeps

LEMMA BadRequestKeeps == ASSUME UpdateInv, BadRequest PROVE UpdateInv'
<1>1. UNCHANGED <<serverVars, wanted, start, end, answer, aip_size, fileVars, flashVars, gap>>
    BY DEF BadRequest
<1>2. pc = "get" /\ SetRange(start, 0) /\ aip_complete' = TRUE
    BY DEF BadRequest
<1>3. refused' \in BOOLEAN /\ (~refused' => end >= size[wanted])
    BY RefusalNoted DEF BadRequest
<1>4. /\ start' \in 0..Area /\ end' \in 0..Area + Range /\ start' <= end' /\ end' > 0 /\ wanted \in 1..Commands
      /\ pos <= start' /\ (~gap => pos = start')
    BY <1>1, <1>2 DEF UpdateInv, TypeOK, Asking
<1> QED
    BY <1>1, <1>2, <1>3, <1>4, SetRangeKeeps

LEMMA GetFailsKeeps == ASSUME UpdateInv, GetFails PROVE UpdateInv'
<1>1. UNCHANGED <<serverVars, wanted, start, end, aip_complete, range, answer, aip_size, fileVars, flashVars, gap>>
      /\ pc' = "idle"
    BY DEF GetFails, rangeVars
<1>2. refused' = refused
    BY DEF GetFails, Answers, UpdateInv, TypeOK
<1>3. refused' \in BOOLEAN /\ aip_complete' \in BOOLEAN
    BY <1>1, <1>2 DEF UpdateInv, TypeOK
<1> QED
    BY <1>1, <1>3, LeavesKeeps

-----------------------------------------------------------------------------
(* AT_HTTPREAD *)

LEMMA ReadChunkKeeps == ASSUME UpdateInv, ReadChunk PROVE UpdateInv'
<1>1. UNCHANGED <<pc, size, url, mails, wanted, start, end, aip_complete, range, answer, kept,
                  page, staged, internal, damaged, refused>>
    BY DEF ReadChunk, serverVars, rangeVars, flashVars
<1>2. PICK n \in 1..Lesser(Chunk, aip_size) :
        /\ aip_size' = aip_size - n
        /\ \/ WriteFile(SubSeq(Image(wanted), ReadStart + 1, ReadStart + n)) /\ UNCHANGED gap
           \/ gap' = TRUE /\ UNCHANGED <<file, pos>>
    BY DEF ReadChunk
<1>3. pc = "read" /\ wanted \in 1..Commands /\ size[wanted] \in 1..Area /\ Area \in Nat
  <2>1. pc = "read" /\ wanted \in 1..Commands
      BY DEF ReadChunk, UpdateInv, Asking
  <2> QED
      BY <2>1, ImageType, SizesAssumption DEF UpdateInv
<1>4. /\ answer[1] \in 0..Area /\ answer[2] \in 0..Area /\ aip_size \in 0..answer[2] /\ aip_size \in Nat
      /\ answer[1] + answer[2] <= size[wanted]
    BY <1>3 DEF UpdateInv, TypeOK, Reading
<1>5. n \in Nat /\ n >= 1 /\ n <= aip_size
    BY <1>4, SizesAssumption DEF Lesser
<1>6. /\ aip_size' \in 0..answer'[2] /\ ReadStart \in Nat /\ ReadStart' = ReadStart + n
      /\ ReadStart + n <= size[wanted]
  <2>1. answer' = answer /\ aip_size' = aip_size - n /\ size[wanted] \in Nat /\ answer[1] \in Nat /\ answer[2] \in Nat
      BY <1>1, <1>2, <1>3, <1>4
  <2>2. aip_size' \in 0..answer'[2]
      BY <1>4, <1>5, <2>1
  <2>3. ReadStart' = answer[1] + (answer[2] - (aip_size - n)) /\ ReadStart = answer[1] + (answer[2] - aip_size)
      BY <2>1 DEF ReadStart
  <2>4. aip_size \in Nat /\ aip_size <= answer[2] /\ answer[1] + answer[2] <= size[wanted]
      BY <1>4
  <2>5. ReadStart \in Nat
      BY <2>1, <2>3, <2>4
  <2>6. ReadStart' = ReadStart + n /\ ReadStart + n <= size[wanted]
      BY <1>5, <2>1, <2>3, <2>4
  <2> QED
      BY <2>2, <2>5, <2>6
<1>7. /\ file \in Seq(Byte) /\ Len(file) \in Nat /\ Len(file) <= Area /\ pos \in 0..Len(file) /\ pos \in Nat
      /\ pos <= ReadStart /\ (~gap => pos = ReadStart) /\ (~kept => Len(file) = pos)
    BY <1>3 DEF UpdateInv, TypeOK, Reading, FileJoins
<1>8. CASE WriteFile(SubSeq(Image(wanted), ReadStart + 1, ReadStart + n)) /\ UNCHANGED gap
  <2> DEFINE part == SubSeq(Image(wanted), ReadStart + 1, ReadStart + n)
  <2>1. /\ Image(wanted) \in Seq(Byte) /\ Len(Image(wanted)) = size[wanted]
        /\ \A i \in 1..size[wanted] : Image(wanted)[i] = <<wanted, i>>
      BY <1>3, ImageType DEF UpdateInv
  <2>2. /\ part \in Seq(Byte) /\ Len(part) = n
        /\ \A i \in 1..n : part[i] = Image(wanted)[ReadStart + i]
      BY <1>5, <1>6, <2>1, Part, SMTT(40)
  <2>3. \A i \in 1..n : part[i] = <<wanted, ReadStart + i>>
    <3>1. \A i \in 1..n : ReadStart + i \in 1..size[wanted]
        BY <1>3, <1>5, <1>6
    <3> QED
        BY <2>1, <2>2, <3>1
  <2> HIDE DEF part
  <2> DEFINE len == Greater(Len(file), pos + n)
  <2>4. pos' = pos + n /\ file' = Overwrite(file, pos, part)
    <3>1. WriteFile(part)
        BY <1>8 DEF part
    <3> QED
        BY <2>2, <3>1 DEF WriteFile
  <2>5. len \in Nat /\ len <= Area /\ len >= pos + n /\ (pos = Len(file) => len = pos + n)
    <3>1. pos + n <= Area
        BY <1>3, <1>5, <1>6, <1>7
    <3> QED
        BY <1>5, <1>7, <3>1 DEF Greater
  <2>6. /\ file' \in Seq(Byte) /\ Len(file') = len
        /\ \A i \in 1..pos : file'[i] = file[i]
        /\ \A i \in pos + 1..pos + n : file'[i] = part[i - pos]
    <3>1. /\ file' \in Seq(Byte) /\ Len(file') = Greater(Len(file), pos + Len(part))
          /\ \A i \in 1..pos : file'[i] = file[i]
          /\ \A i \in pos + 1..pos + Len(part) : file'[i] = part[i - pos]
        BY <1>7, <2>2, <2>4, Overwritten
    <3> QED
        BY <2>2, <3>1
  <2> HIDE DEF len
  <2>7. \A i \in pos + 1..pos + n : file'[i] = <<wanted, ReadStart + (i - pos)>>
    <3>1. \A i \in pos + 1..pos + n : i - pos \in 1..n
        BY <1>5, <1>7
    <3> QED
        BY <2>3, <2>6, <3>1
  <2>8. /\ \A i \in 1..pos' : i \in 1..pos \/ i \in pos + 1..pos + n
        /\ pos' \in 0..Len(file') /\ pos' > 0
      BY <1>5, <1>7, <2>4, <2>5, <2>6
  <2>9. pos' <= ReadStart' /\ (~gap' => pos' = ReadStart')
    <3>1. pos + n <= ReadStart + n /\ (pos = ReadStart => pos + n = ReadStart + n)
        BY <1>5, <1>6, <1>7
    <3>2. ~gap' => pos = ReadStart
        BY <1>7, <1>8
    <3> QED
        BY <1>6, <2>4, <3>1, <3>2
  <2>10. Len(file') <= Area
      BY <2>5, <2>6
  <2>11. TypeOK'
      BY <1>1, <1>6, <1>8, <2>6, <2>8, <2>10 DEF UpdateInv, TypeOK
  <2>12. Reading'
      BY <1>1, <2>9 DEF UpdateInv, Reading
  <2>13. FileJoins'
    <3>1. \A i \in 1..pos' : file'[i][1] = wanted
      <4> TAKE i \in 1..pos'
      <4>1. CASE i \in 1..pos
        <5>1. file[i][1] = wanted /\ file'[i] = file[i]
            BY <2>6, <4>1 DEF UpdateInv, FileJoins
        <5> QED
            BY <5>1
      <4>2. CASE i \in pos + 1..pos + n
          BY <2>7, <4>2
      <4> QED
          BY <2>8, <4>1, <4>2
    <3>2. ASSUME ~gap' PROVE pos' <= size[wanted] /\ \A i \in 1..pos' : file'[i] = <<wanted, i>>
      <4>1. ~gap /\ pos = ReadStart
          BY <1>7, <1>8, <3>2
      <4>2. pos' <= size[wanted]
          BY <1>6, <2>4, <4>1
      <4>3. ASSUME NEW i \in 1..pos' PROVE file'[i] = <<wanted, i>>
        <5>1. CASE i \in 1..pos
          <6>1. file[i] = <<wanted, i>> /\ file'[i] = file[i]
            <7>1. pos > 0
                BY <1>7, <5>1
            <7> QED
                BY <2>6, <4>1, <5>1, <7>1 DEF UpdateInv, FileJoins
          <6> QED
              BY <6>1
        <5>2. CASE i \in pos + 1..pos + n
          <6>1. ReadStart + (i - pos) = i
              BY <1>5, <1>7, <4>1, <5>2
          <6> QED
              BY <2>7, <5>2, <6>1
        <5> QED
            BY <2>8, <5>1, <5>2
      <4> QED
          BY <4>2, <4>3
    <3>3. ~kept => Len(file') = pos'
        BY <1>7, <2>4, <2>5, <2>6
    <3> QED
        BY <1>1, <1>3, <3>1, <3>2, <3>3 DEF FileJoins
  <2> QED
      BY <1>1, <1>3, <2>11, <2>12, <2>13 DEF UpdateInv, Asking, CopyAgrees
<1>9. CASE gap' = TRUE /\ UNCHANGED <<file, pos>>
  <2>1. TypeOK'
      BY <1>1, <1>6, <1>9 DEF UpdateInv, TypeOK
  <2>2. Reading'
    <3>1. pos' <= ReadStart'
        BY <1>5, <1>6, <1>7, <1>9
    <3> QED
        BY <1>1, <1>9, <3>1 DEF UpdateInv, Reading
  <2> QED
      BY <1>1, <1>3, <1>9, <2>1, <2>2 DEF UpdateInv, Asking, FileJoins, CopyAgrees
<1> QED
    BY <1>2, <1>8, <1>9

LEMMA ReadFailsKeeps == ASSUME UpdateInv, ReadFails PROVE UpdateInv'
<1>1. UNCHANGED <<pc, size, url, mails, wanted, start, end, aip_complete, range, answer, file, pos, kept,
                  page, staged, internal, damaged, refused>>
    BY DEF ReadFails, serverVars, rangeVars, fileVars, flashVars
<1>2. pc = "read" /\ gap' = TRUE /\ aip_size' = 0
    BY DEF ReadFails
<1>3. /\ answer[1] \in Nat /\ answer[2] \in Nat /\ aip_size \in Nat /\ pos \in Nat
      /\ pos <= answer[1] + answer[2] - aip_size
    BY <1>2, SizesAssumption DEF UpdateInv, TypeOK, Reading, ReadStart
<1>4. TypeOK'
  <2>1. gap' \in BOOLEAN
      BY <1>2, Zenon
  <2>2. aip_size' = 0
      BY <1>2
  <2> QED
      BY <1>1, <1>3, <2>1, <2>2 DEF UpdateInv, TypeOK
<1>5. Reading'
  <2>1. pos' <= ReadStart'
      BY <1>1, <1>2, <1>3 DEF ReadStart
  <2> QED
      BY <1>1, <1>2, <2>1 DEF UpdateInv, Reading
<1> QED
    BY <1>1, <1>2, <1>4, <1>5 DEF UpdateInv, Asking, FileJoins, CopyAgrees

LEMMA RangeReadKeeps == ASSUME UpdateInv, RangeRead PROVE UpdateInv'
<1>1. UNCHANGED <<size, url, mails, wanted, aip_complete, answer, aip_size, kept, staged, internal, damaged,
                  refused>>
    BY DEF RangeRead, serverVars
<1>2. pc = "read" /\ aip_size = 0 /\ wanted \in 1..Commands /\ size[wanted] \in 1..Area
      /\ Area \in Nat /\ Range \in Nat /\ Range >= 2
  <2>1. pc = "read" /\ aip_size \in Nat /\ aip_size <= 0 /\ wanted \in 1..Commands
      BY SizesAssumption DEF RangeRead, UpdateInv, TypeOK, Asking
  <2> QED
      BY <2>1, ImageType, SizesAssumption DEF UpdateInv
<1>3. /\ answer[1] + answer[2] \in Nat /\ ReadStart = answer[1] + answer[2] /\ ReadStart <= size[wanted]
      /\ file \in Seq(Byte) /\ Len(file) \in Nat /\ Len(file) <= Area /\ pos \in 0..Len(file)
      /\ pos <= ReadStart /\ (~gap => pos = ReadStart)
      /\ (~aip_complete => ReadStart = end + 1)
      /\ (aip_complete /\ ~refused => ReadStart = size[wanted])
  <2>1. /\ answer[1] \in Nat /\ answer[2] \in Nat
        /\ file \in Seq(Byte) /\ Len(file) \in Nat /\ Len(file) <= Area /\ pos \in 0..Len(file)
      BY <1>2 DEF UpdateInv, TypeOK
  <2>2. ReadStart = answer[1] + answer[2]
      BY <1>2, <2>1 DEF ReadStart
  <2> QED
      BY <1>2, <2>1, <2>2 DEF UpdateInv, Reading
<1>4. CASE aip_complete /\ pc' = "stage" /\ page' = 0 /\ CloseFile /\ UNCHANGED <<start, end, range>>
  <2>1. /\ file' \in Seq(Byte) /\ Len(file') \in Nat /\ Len(file') <= Area /\ pos' \in 0..Len(file')
        /\ gap' \in BOOLEAN /\ (~gap' => pos' = ReadStart) /\ FileJoins'
    <3>1. CASE UNCHANGED <<file, pos, gap>>
        BY <1>1, <1>2, <1>3, <3>1 DEF UpdateInv, TypeOK, FileJoins
    <3>2. CASE gap' = TRUE /\ \E n \in 0..pos : file' = SubSeq(file, 1, n) /\ pos' = n
      <4>1. PICK n \in 0..pos : file' = SubSeq(file, 1, n) /\ pos' = n
          BY <3>2
      <4>2. n \in 0..Len(file) /\ n <= Area /\ n \in Nat
          BY <1>2, <1>3
      <4>3. file' \in Seq(Byte) /\ Len(file') = n /\ \A i \in 1..n : file'[i] = file[i]
          BY <1>3, <4>1, <4>2, Beginning
      <4>4. \A i \in 1..n : i \in 1..pos
          BY <1>3, <4>2
      <4>5. \A i \in 1..n : file'[i][1] = wanted
        <5> TAKE i \in 1..n
        <5>1. file'[i] = file[i] /\ file[i][1] = wanted
            BY <4>3, <4>4 DEF UpdateInv, FileJoins
        <5> QED
            BY <5>1
      <4>6. FileJoins'
          BY <1>1, <1>2, <3>2, <4>1, <4>3, <4>5 DEF FileJoins
      <4> QED
          BY <3>2, <4>1, <4>2, <4>3, <4>6
    <3> QED
        BY <1>4, <3>1, <3>2 DEF CloseFile
  <2>2. TypeOK'
      BY <1>1, <1>2, <1>4, <2>1 DEF UpdateInv, TypeOK
  <2>3. page' <= Len(file') \div Block /\ \A i \in 1..page' * Block : FALSE
    <3>1. Len(file') \div Block \in Nat /\ Block \in Nat
        BY <2>1, Blocks, SizesAssumption
    <3>2. 0 * Block = 0
        BY <3>1
    <3> QED
        BY <1>4, <3>1, <3>2
  <2>4. CopyAgrees'
      BY <1>1, <1>3, <1>4, <2>1, <2>3 DEF CopyAgrees
  <2> QED
      BY <1>1, <1>2, <1>4, <2>1, <2>2, <2>4 DEF UpdateInv, Asking, Reading
<1>5. CASE /\ ~aip_complete /\ start' = end + 1 /\ end' = end + Range - 1 /\ SetRange(start', end')
           /\ UNCHANGED <<file, pos, gap, page>>
  <2>1. start' = ReadStart /\ start' \in 0..Area /\ end \in Nat /\ end' \in 0..Area + Range /\ start' <= end' /\ end' > 0
      BY <1>2, <1>3, <1>5 DEF UpdateInv, TypeOK
  <2>2. refused' \in BOOLEAN /\ aip_complete' \in BOOLEAN /\ ~aip_complete'
      BY <1>1, <1>5 DEF UpdateInv, TypeOK
  <2>3. CASE range' = <<start', end'>> /\ pc' = "get"
    <3>1. range' \in (0..Area) \X (0..Area + Range)
        BY <2>1, <2>3
    <3>2. TypeOK'
        BY <1>1, <1>5, <2>1, <2>3, <3>1 DEF UpdateInv, TypeOK
    <3>3. Asking'
        BY <1>1, <1>2, <1>3, <1>5, <2>1, <2>2, <2>3 DEF Asking
    <3> QED
        BY <1>1, <1>2, <1>5, <2>3, <3>2, <3>3 DEF UpdateInv, Reading, FileJoins, CopyAgrees
  <2>4. CASE pc' = "idle" /\ UNCHANGED range
    <3>1. TypeOK'
        BY <1>1, <1>5, <2>1, <2>4 DEF UpdateInv, TypeOK
    <3> QED
        BY <1>1, <1>2, <1>5, <2>4, <3>1 DEF UpdateInv, Asking, Reading, FileJoins, CopyAgrees
  <2> QED
      BY <1>5, <2>3, <2>4 DEF SetRange
<1> QED
    BY <1>4, <1>5 DEF RangeRead

-----------------------------------------------------------------------------
(* file_write_flash_addr and firm_update *)

(* What stands in the serial flash after a block or the surplus of the file was written to it *)
LEMMA WrittenIs ==
    ASSUME UpdateInv, page \in Nat, NEW k \in Nat, k <= Block, WriteAddr + k <= Len(file)
    PROVE  LET w == Written(SubSeq(file, WriteAddr + 1, WriteAddr + k))
           IN  /\ w \in [1..Area -> Byte]
               /\ \A i \in 1..WriteAddr : w[i] = staged[i]
               /\ \A i \in WriteAddr + 1..WriteAddr + k : w[i] = file[i]
<1> DEFINE data == SubSeq(file, WriteAddr + 1, WriteAddr + k)
<1>1. /\ WriteAddr \in Nat /\ Area \in Nat /\ Block \in Nat
      /\ file \in Seq(Byte) /\ Len(file) \in Nat /\ Len(file) <= Area /\ staged \in [1..Area -> Byte]
  <2>1. Block \in Nat /\ Area \in Nat
      BY SizesAssumption
  <2>2. page * Block \in Nat
      BY <2>1
  <2> QED
      BY <2>1, <2>2 DEF UpdateInv, TypeOK, WriteAddr
<1>2. /\ data \in Seq(Byte) /\ Len(data) = k
      /\ \A i \in 1..k : data[i] = file[WriteAddr + i] /\ file[WriteAddr + i] \in Byte
    BY <1>1, Part
<1> HIDE DEF data
<1>3. \A i \in WriteAddr + 1..WriteAddr + k : data[i - WriteAddr] = file[i] /\ file[i] \in Byte
  <2> TAKE i \in WriteAddr + 1..WriteAddr + k
  <2>1. i - WriteAddr \in 1..k /\ WriteAddr + (i - WriteAddr) = i
      BY <1>1
  <2> QED
      BY <1>2, <2>1
<1>4. Written(data) = [i \in 1..Area |->
                          IF i \in WriteAddr + 1..WriteAddr + k THEN data[i - WriteAddr]
                          ELSE IF i \in WriteAddr + 1..WriteAddr + Block THEN Erased ELSE staged[i]]
    BY <1>2 DEF Written
<1>5. Erased \in Byte
    BY DEF Byte
<1>6. Written(data) \in [1..Area -> Byte]
  <2>1. ASSUME NEW i \in 1..Area
        PROVE  (IF i \in WriteAddr + 1..WriteAddr + k THEN data[i - WriteAddr]
                ELSE IF i \in WriteAddr + 1..WriteAddr + Block THEN Erased ELSE staged[i]) \in Byte
    <3>1. i \in WriteAddr + 1..WriteAddr + k => data[i - WriteAddr] \in Byte
        BY <1>3
    <3>2. staged[i] \in Byte
        BY <1>1
    <3> QED
        BY <1>5, <3>1, <3>2
  <2> QED
      BY <1>4, <2>1
<1>7. \A i \in 1..WriteAddr : Written(data)[i] = staged[i]
  <2> TAKE i \in 1..WriteAddr
  <2>1. /\ i \in 1..Area /\ i \notin WriteAddr + 1..WriteAddr + k /\ i \notin WriteAddr + 1..WriteAddr + Block
      BY <1>1
  <2> QED
      BY <1>4, <2>1
<1>8. \A i \in WriteAddr + 1..WriteAddr + k : Written(data)[i] = file[i]
  <2> TAKE i \in WriteAddr + 1..WriteAddr + k
  <2>1. i \in 1..Area
      BY <1>1
  <2> QED
      BY <1>3, <1>4, <2>1
<1> QED
    BY <1>6, <1>7, <1>8 DEF data

LEMMA CopyBlockKeeps == ASSUME UpdateInv, CopyBlock PROVE UpdateInv'
<1>1. UNCHANGED <<size, url, mails, wanted, start, end, aip_complete, range, answer, aip_size, file, pos, kept, internal,
                  gap, refused>>
    BY DEF CopyBlock, serverVars, rangeVars, fileVars
<1>2. pc = "stage" /\ page < Len(file) \div Block
    BY DEF CopyBlock
<1>3. /\ Len(file) \in Nat /\ Len(file) <= Area /\ page \in Nat /\ Area \in Nat /\ Block \in Nat
      /\ DOMAIN file = 1..Len(file)
    BY SizesAssumption DEF UpdateInv, TypeOK
<1>4. Len(file) \div Block \in Nat /\ Len(file) \div Block <= Len(file) /\ WriteAddr + Block <= Len(file)
    BY <1>2, <1>3, Blocks DEF WriteAddr
<1>5. CASE staged' = Written(SubSeq(file, WriteAddr + 1, WriteAddr + Block)) /\ page' = page + 1
           /\ UNCHANGED <<pc, damaged>>
  <2>1. /\ staged' \in [1..Area -> Byte]
        /\ \A i \in 1..WriteAddr : staged'[i] = staged[i]
        /\ \A i \in WriteAddr + 1..WriteAddr + Block : staged'[i] = file[i]
      BY <1>3, <1>4, <1>5, WrittenIs
  <2>2. page' \in 0..Area /\ page' <= Len(file) \div Block
      BY <1>2, <1>3, <1>4, <1>5
  <2>3. TypeOK'
      BY <1>1, <1>5, <2>1, <2>2 DEF UpdateInv, TypeOK
  <2>4. ~damaged => \A i \in 1..page' * Block : staged'[i] = file[i]
    <3> SUFFICES ASSUME ~damaged, NEW i \in 1..page' * Block PROVE staged'[i] = file[i]
        OBVIOUS
    <3>1. page' * Block = WriteAddr + Block /\ WriteAddr \in Nat
      <4>1. (page + 1) * Block = page * Block + Block /\ page * Block \in Nat
          BY <1>3
      <4> QED
          BY <1>5, <4>1 DEF WriteAddr
    <3>2. i \in 1..WriteAddr \/ i \in WriteAddr + 1..WriteAddr + Block
        BY <1>3, <3>1
    <3>3. \A j \in 1..WriteAddr : staged[j] = file[j]
        BY <1>2 DEF UpdateInv, CopyAgrees, WriteAddr
    <3> QED
        BY <2>1, <3>2, <3>3
  <2>5. CopyAgrees'
      BY <1>1, <1>2, <1>5, <2>2, <2>4 DEF UpdateInv, CopyAgrees
  <2> QED
      BY <1>1, <1>2, <1>5, <2>3, <2>5 DEF UpdateInv, Asking, Reading, FileJoins
<1>6. CASE damaged' = TRUE /\ pc' = "surplus" /\ UNCHANGED <<staged, page>>
  <2>1. TypeOK'
      BY <1>1, <1>6 DEF UpdateInv, TypeOK
  <2>2. CopyAgrees'
      BY <1>1, <1>2, <1>6 DEF UpdateInv, CopyAgrees
  <2> QED
      BY <1>1, <1>2, <1>6, <2>1, <2>2 DEF UpdateInv, Asking, Reading, FileJoins
<1> QED
    BY <1>5, <1>6 DEF CopyBlock

LEMMA CopySurplusKeeps == ASSUME UpdateInv, CopySurplus PROVE UpdateInv'
<1> DEFINE surplus == Len(file) % Block
<1>1. UNCHANGED <<size, url, mails, wanted, start, end, aip_complete, range, answer, aip_size, file, pos, kept, internal, page,
                  gap, refused>>
    BY DEF CopySurplus, serverVars, rangeVars, fileVars
<1>2. /\ pc' = "program"
      /\ \/ pc = "stage" /\ page = Len(file) \div Block
         \/ pc = "surplus"
    BY DEF CopySurplus
<1>3. /\ Len(file) \in Nat /\ Len(file) <= Area /\ page \in Nat /\ Area \in Nat /\ Block \in Nat
      /\ DOMAIN file = 1..Len(file) /\ page <= Len(file) \div Block
  <2>1. file \in Seq(Byte) /\ Len(file) <= Area /\ page \in Nat
      BY SizesAssumption DEF UpdateInv, TypeOK
  <2>2. page <= Len(file) \div Block
      BY <1>2 DEF UpdateInv, CopyAgrees
  <2> QED
      BY <2>1, <2>2, SizesAssumption
<1>4. /\ surplus \in Nat /\ surplus <= Block /\ WriteAddr + surplus <= Len(file) /\ WriteAddr \in Nat
      /\ page = Len(file) \div Block => WriteAddr + surplus = Len(file)
  <2>1. page * Block \in Nat
      BY <1>3
  <2>2. /\ surplus \in 0..Block - 1 /\ Len(file) = (Len(file) \div Block) * Block + surplus
        /\ page * Block + surplus <= Len(file)
      BY <1>3, Blocks, ZenonT(40)
  <2> HIDE DEF surplus
  <2>3. /\ surplus \in Nat /\ surplus <= Block /\ WriteAddr + surplus <= Len(file) /\ WriteAddr \in Nat
    <3> Block \in Nat /\ surplus \in 0..Block - 1
        BY <1>3, <2>2, Zenon
    <3>1. surplus \in Nat /\ surplus <= Block
        OBVIOUS
    <3>2. WriteAddr = page * Block
        BY DEF WriteAddr
    <3> QED
        BY <2>1, <2>2, <3>1, <3>2
  <2>4. ASSUME page = Len(file) \div Block PROVE WriteAddr + surplus = Len(file)
    <3>1. WriteAddr = (Len(file) \div Block) * Block
        BY <2>4, Zenon DEF WriteAddr
    <3> QED
        BY <2>2, <3>1, Zenon
  <2> QED
      BY <2>3, <2>4
<1> HIDE DEF surplus
<1>5. pc = "stage" /\ ~damaged => \A i \in 1..WriteAddr : staged[i] = file[i]
    BY DEF UpdateInv, CopyAgrees, WriteAddr
<1>6. /\ staged' \in [1..Area -> Byte] /\ damaged' \in BOOLEAN
      /\ ~damaged' => \A i \in DOMAIN file : staged'[i] = file[i]
  <2>1. pc = "surplus" => damaged
      BY DEF UpdateInv, CopyAgrees
  <2>2. CASE surplus = 0 /\ UNCHANGED <<staged, damaged>>
    <3>1. page = Len(file) \div Block => WriteAddr = Len(file)
      <4>1. surplus = 0
          BY <2>2
      <4>2. WriteAddr \in Nat /\ WriteAddr + 0 = WriteAddr
          BY <1>4
      <4> QED
          BY <1>4, <4>1, <4>2
    <3> QED
        BY <1>2, <1>3, <1>5, <2>1, <2>2, <3>1 DEF UpdateInv, TypeOK
  <2>3. CASE staged' = Written(SubSeq(file, WriteAddr + 1, WriteAddr + surplus)) /\ UNCHANGED damaged
    <3>1. /\ staged' \in [1..Area -> Byte]
          /\ \A i \in 1..WriteAddr : staged'[i] = staged[i]
          /\ \A i \in WriteAddr + 1..WriteAddr + surplus : staged'[i] = file[i]
        BY <1>3, <1>4, <2>3, WrittenIs
    <3>2. ASSUME ~damaged', NEW i \in DOMAIN file PROVE staged'[i] = file[i]
      <4>1. pc = "stage" /\ page = Len(file) \div Block /\ ~damaged
          BY <1>2, <2>1, <2>3, <3>2
      <4>2. i \in 1..WriteAddr \/ i \in WriteAddr + 1..WriteAddr + surplus
          BY <1>3, <1>4, <3>2, <4>1
      <4> QED
          BY <1>5, <3>1, <4>1, <4>2
    <3> QED
        BY <2>3, <3>1, <3>2 DEF UpdateInv, TypeOK
  <2>4. CASE damaged' = TRUE /\ staged' = [i \in 1..Area |-> IF i > WriteAddr THEN Garbage ELSE staged[i]]
    <3>1. Garbage \in Byte /\ staged \in [1..Area -> Byte]
        BY DEF Byte, UpdateInv, TypeOK
    <3> QED
        BY <2>4, <3>1
  <2> QED
      BY <2>2, <2>3, <2>4 DEF CopySurplus, surplus
<1>7. TypeOK'
    BY <1>1, <1>2, <1>6 DEF UpdateInv, TypeOK
<1>8. CopyAgrees'
    BY <1>1, <1>2, <1>6 DEF UpdateInv, CopyAgrees
<1> QED
    BY <1>1, <1>2, <1>7, <1>8 DEF UpdateInv, Asking, Reading, FileJoins

LEMMA CopyRefusedKeeps == ASSUME UpdateInv, CopyRefused PROVE UpdateInv'
<1>1. refused' \in BOOLEAN /\ aip_complete' \in BOOLEAN
    BY DEF UpdateInv, TypeOK, CopyRefused, rangeVars
<1> QED
    BY <1>1, LeavesKeeps DEF CopyRefused, rangeVars

LEMMA FirmUpdateKeeps == ASSUME UpdateInv, firm_update PROVE UpdateInv'
<1>1. UNCHANGED <<size, url, mails, wanted, start, end, aip_complete, range, answer, aip_size, file, pos, kept, page, staged,
                  gap, refused>>
    BY DEF firm_update, serverVars, rangeVars, fileVars
<1>2. pc = "program" /\ pc' = "reset"
    BY DEF firm_update
<1>3. staged \in [1..Area -> Byte] /\ internal \in [1..Area -> Byte] /\ Erased \in Byte
    BY DEF UpdateInv, TypeOK, Byte
<1>4. CASE internal' = staged /\ UNCHANGED damaged
  <2>1. TypeOK'
      BY <1>1, <1>2, <1>3, <1>4 DEF UpdateInv, TypeOK
  <2>2. CopyAgrees'
      BY <1>1, <1>2, <1>4 DEF UpdateInv, CopyAgrees
  <2> QED
      BY <1>1, <1>2, <2>1, <2>2 DEF UpdateInv, Asking, Reading, FileJoins
<1>5. CASE damaged' = TRUE
           /\ \E n \in 0..Area - 1, rest \in {internal, [i \in 1..Area |-> Erased]} :
                internal' = [i \in 1..Area |->
                    IF i > n THEN rest[i] ELSE IF rest = internal THEN Erased ELSE staged[i]]
  <2>1. internal' \in [1..Area -> Byte]
    <3>1. PICK n \in 0..Area - 1, rest \in {internal, [i \in 1..Area |-> Erased]} :
                internal' = [i \in 1..Area |->
                    IF i > n THEN rest[i] ELSE IF rest = internal THEN Erased ELSE staged[i]]
        BY <1>5
    <3>2. rest \in [1..Area -> Byte]
        BY <1>3
    <3>3. \A i \in 1..Area : rest[i] \in Byte /\ staged[i] \in Byte
        BY <1>3, <3>2
    <3> QED
        BY <1>3, <3>1, <3>3
  <2>2. TypeOK'
      BY <1>1, <1>2, <1>5, <2>1 DEF UpdateInv, TypeOK
  <2>3. CopyAgrees'
      BY <1>1, <1>2, <1>5 DEF UpdateInv, CopyAgrees
  <2> QED
      BY <1>1, <1>2, <2>2, <2>3 DEF UpdateInv, Asking, Reading, FileJoins
<1> QED
    BY <1>4, <1>5 DEF firm_update

LEMMA StutterKeeps == ASSUME UpdateInv, UNCHANGED vars PROVE UpdateInv'
<1>1. UNCHANGED <<pc, size, url, mails, wanted, start, end, aip_complete, range, answer, aip_size, file, pos, kept,
                  page, staged, internal, damaged, gap, refused>>
    BY DEF vars, serverVars, rangeVars, fileVars, flashVars
<1>2. TypeOK'
    BY <1>1 DEF UpdateInv, TypeOK
<1> QED
    BY <1>1, <1>2 DEF UpdateInv, Asking, Reading, ReadStart, FileJoins, CopyAgrees

-----------------------------------------------------------------------------
(***************************************************************************)
(* UpdateInv holds in every state: between any two steps of get_aip,       *)
(* file_write_flash_addr and firm_update, whatever the modem answers, what *)
(* fails, and when further commands arrive (aip.c, file_update.c,          *)
(* firm_update.c).                                                         *)
(***************************************************************************)
THEOREM UpdateInvariant == Spec => []UpdateInv
<1>1. UpdateInv /\ [Next]_vars => UpdateInv'
  <2> SUFFICES ASSUME UpdateInv, [Next]_vars PROVE UpdateInv'
      OBVIOUS
  <2>1. CASE SetHttp
      BY <2>1, SetHttpKeeps
  <2>2. CASE Receive \/ SetUp
      BY <2>2, ReceiveKeeps, SetUpKeeps
  <2>3. CASE Loaded \/ NoMemory \/ BadRequest \/ GetFails
      BY <2>3, LoadedKeeps, NoMemoryKeeps, BadRequestKeeps, GetFailsKeeps
  <2>4. CASE ReadChunk \/ ReadFails \/ RangeRead
      BY <2>4, ReadChunkKeeps, ReadFailsKeeps, RangeReadKeeps
  <2>5. CASE CopyBlock \/ CopySurplus \/ CopyRefused \/ firm_update
      BY <2>5, CopyBlockKeeps, CopySurplusKeeps, CopyRefusedKeeps, FirmUpdateKeeps
  <2>6. CASE Rest \/ UNCHANGED vars
      BY <2>6, StutterKeeps DEF Rest
  <2> QED
      BY <2>1, <2>2, <2>3, <2>4, <2>5, <2>6 DEF Next, Thread
<1> QED
    BY InitKeeps, <1>1, PTL DEF Spec

(* The file never outgrows the flash, no range lies outside it, and everything keeps its type. *)
THEOREM UpdateTypes == Spec => []TypeOK
<1>1. UpdateInv => TypeOK
    BY DEF UpdateInv
<1> QED
    BY UpdateInvariant, <1>1, PTL

(***************************************************************************)
(* What get_aip writes into the file is of one image, whatever an old file *)
(* that could not be removed leaves behind it, and, unless a read or write *)
(* failed, a beginning of that image: its ranges follow each other without *)
(* gap or overlap, whatever their size and that of the chunks.             *)
(***************************************************************************)
THEOREM RangesAlwaysJoin == Spec => []RangesJoin
<1>1. UpdateInv => RangesJoin
  <2> SUFFICES ASSUME UpdateInv PROVE RangesJoin
      OBVIOUS
  <2>1. file \in Seq(Byte) /\ Len(file) \in Nat /\ DOMAIN file = 1..Len(file) /\ pos \in 0..Len(file) /\ pos \in Nat
      BY DEF UpdateInv, TypeOK
  <2>2. ASSUME pc # "idle", NEW i \in DOMAIN file PROVE file[i][1] = wanted \/ (kept /\ i > pos)
    <3>1. i \in 1..pos \/ i > pos
        BY <2>1
    <3>2. i > pos => kept
      <4>1. ~kept => Len(file) = pos
          BY <2>2 DEF UpdateInv, FileJoins
      <4>2. Len(file) = pos => ~(i > pos)
          BY <2>1
      <4> QED
          BY <4>1, <4>2, Zenon
    <3> QED
        BY <3>1, <3>2 DEF UpdateInv, FileJoins
  <2>3. ASSUME pos > 0, ~gap PROVE SubSeq(file, 1, pos) = SubSeq(Image(wanted), 1, pos)
    <3>1. /\ wanted \in 1..Commands /\ pos <= size[wanted]
          /\ \A i \in 1..pos : file[i] = <<wanted, i>>
        BY <2>3 DEF UpdateInv, FileJoins
    <3>2. /\ Image(wanted) \in Seq(Byte) /\ Len(Image(wanted)) = size[wanted] /\ size[wanted] \in 1..Area
          /\ \A i \in 1..size[wanted] : Image(wanted)[i] = <<wanted, i>>
        BY <3>1, ImageType DEF UpdateInv
    <3>3. pos \in 0..Len(Image(wanted)) /\ \A i \in 1..pos : i \in 1..size[wanted]
        BY <2>1, <3>1, <3>2, SizesAssumption
    <3> DEFINE part == SubSeq(Image(wanted), 1, pos)
               done == SubSeq(file, 1, pos)
    <3>4. part \in Seq(Byte) /\ Len(part) = pos /\ \A i \in 1..pos : part[i] = Image(wanted)[i]
        BY <3>2, <3>3, Beginning
    <3>5. done \in Seq(Byte) /\ Len(done) = pos /\ \A i \in 1..pos : done[i] = file[i]
        BY <2>1, Beginning
    <3> HIDE DEF part, done
    <3>6. \A i \in 1..pos : done[i] = part[i]
        BY <3>1, <3>2, <3>3, <3>4, <3>5
    <3>7. done = part
        BY <3>4, <3>5, <3>6
    <3> QED
        BY <3>7 DEF part, done
  <2> QED
      BY <2>2, <2>3 DEF RangesJoin
<1> QED
    BY UpdateInvariant, <1>1, PTL

(***************************************************************************)
(* firm_update restarts the processor with the whole image, unless a read, *)
(* a write or a copy failed or a range inside the image was refused; an    *)
(* old file that could not be removed does no harm.                        *)
(***************************************************************************)
THEOREM RestartsWithWholeImage == Spec => []WholeImage
<1>1. UpdateInv => WholeImage
  <2> SUFFICES ASSUME UpdateInv, pc = "reset", ~gap, ~refused, ~damaged
               PROVE  SubSeq(internal, 1, size[wanted]) = Image(wanted)
      BY DEF WholeImage
  <2>1. /\ wanted \in 1..Commands /\ pos = size[wanted] /\ file \in Seq(Byte) /\ pos \in 0..Len(file)
        /\ \A i \in DOMAIN file : internal[i] = file[i]
        /\ internal \in [1..Area -> Byte] /\ Area \in Nat
      BY SizesAssumption DEF UpdateInv, TypeOK, Asking, CopyAgrees
  <2>2. /\ Image(wanted) \in Seq(Byte) /\ Len(Image(wanted)) = size[wanted] /\ size[wanted] \in 1..Area
        /\ \A i \in 1..size[wanted] : Image(wanted)[i] = <<wanted, i>>
      BY <2>1, ImageType DEF UpdateInv
  <2>3. pos > 0 /\ \A i \in 1..size[wanted] : i \in DOMAIN file
      BY <2>1, <2>2
  <2>4. \A i \in 1..size[wanted] : internal[i] = <<wanted, i>>
      BY <2>1, <2>2, <2>3 DEF UpdateInv, FileJoins
  <2>5. internal \in Seq(Byte) /\ Len(internal) = Area
      BY <2>1
  <2> DEFINE part == SubSeq(internal, 0 + 1, 0 + size[wanted])
  <2>6. /\ part \in Seq(Byte) /\ Len(part) = size[wanted]
        /\ \A i \in 1..size[wanted] : part[i] = internal[0 + i]
      BY <2>2, <2>5, Part
  <2>7. part = SubSeq(internal, 1, size[wanted]) /\ \A i \in 1..size[wanted] : 0 + i = i
    <3>1. 0 + 1 = 1 /\ 0 + size[wanted] = size[wanted]
        BY <2>2
    <3> QED
        BY <2>2, <3>1
  <2> HIDE DEF part
  <2>8. \A i \in 1..size[wanted] : part[i] = Image(wanted)[i]
      BY <2>2, <2>4, <2>6, <2>7
  <2>9. part = Image(wanted)
      BY <2>2, <2>6, <2>8
  <2> QED
      BY <2>7, <2>9
<1> QED
    BY UpdateInvariant, <1>1, PTL
=============================================================================
