------------------------ MODULE PictureUploadProofs ------------------------
(***************************************************************************)
(* Proofs about the picture upload, for every number of pages and every    *)
(* limit that the assumptions admit, for any number of faults and odd      *)
(* answers, and for whatever bytes lie in the frame where no verdict was   *)
(* stored.                                                                 *)
(*                                                                         *)
(* Every theorem follows from UploadInv, which is inductive.  That the     *)
(* loop does not end too early rests on the counter of the pages to come   *)
(* never wrapping (RoomLeft), which takes HasRoom; that success is no old  *)
(* verdict rests on the frame being fresh behind the last page (OkIsTrue); *)
(* that an honest list stays within the picture on its being read to its   *)
(* end only (AllNamed, WithinList); that few faults are made good rests on *)
(* every attempt having cost one (FaultsCounted, NoneYet, RoundsCost).     *)
(***************************************************************************)
EXTENDS PictureUpload, FiniteSetTheorems, TLAPS

-----------------------------------------------------------------------------
(* Arithmetic *)

LEMMA Numbers ==
    /\ Wrap \in Nat /\ Pages \in Nat /\ 1 <= Pages /\ Pages < Wrap
    /\ Last \in Nat /\ Last + 1 = Pages /\ Last \in PageNumber /\ 0 \in PageNumber
    /\ PageNumber \subseteq Nat /\ PageNumber \subseteq Byte
    /\ \A n : n \in Byte <=> n \in Nat /\ n < Wrap
    /\ \A p \in Nat : p \in PageNumber <=> p < Pages
    BY PagesAssumption DEF Last, PageNumber, Byte

LEMMA Limited ==
    /\ CheckEvery \in Nat /\ CheckEvery > 0 /\ LastMax \in Nat /\ ErrorMax \in Nat /\ ErrorMax > 0
    /\ ResendMax \in Nat /\ RoundMax \in Nat /\ GiveUpMax \in Nat /\ GiveUpMax > 0
    /\ Faults \in Nat /\ OddAnswers \in Nat /\ LastMax <= CheckEvery
    BY LimitsAssumption, ChecksAssumption

LEMMA Ordered ==
    ASSUME NEW a \in Int, NEW b \in Int, NEW c \in Nat, c > 0, a * c < b * c
    PROVE  a < b
<1>1. CASE b <= a
  <2>1. a - b \in Nat
      BY <1>1
  <2>2. (a - b) * c \in Nat
      BY <2>1
  <2>3. (a - b) * c = a * c - b * c
      OBVIOUS
  <2> QED
      BY <2>2, <2>3
<1> QED
    BY <1>1

(* What is less than twice the divisor *)
LEMMA Remainder ==
    ASSUME NEW n \in Nat, n < Wrap + Wrap
    PROVE  n % Wrap = IF n < Wrap THEN n ELSE n - Wrap
<1> Wrap \in Nat /\ Wrap > 0
    BY Numbers
<1>1. CASE n < Wrap
    BY <1>1
<1>2. CASE ~(n < Wrap)
  <2>1. n \div Wrap \in Int
      OBVIOUS
  <2>2. n % Wrap \in 0..Wrap - 1
      OBVIOUS
  <2>3. n = Wrap * (n \div Wrap) + (n % Wrap)
      OBVIOUS
  <2>4. (n \div Wrap) * Wrap < 2 * Wrap /\ 0 * Wrap < (n \div Wrap) * Wrap
    <3>1. Wrap * (n \div Wrap) = (n \div Wrap) * Wrap
        BY <2>1
    <3> DEFINE m == (n \div Wrap) * Wrap
               r == n % Wrap
    <3>2. n = m + r /\ r \in 0..Wrap - 1 /\ m \in Int
        BY <2>1, <2>2, <2>3, <3>1
    <3> HIDE DEF m, r
    <3>3. m < 2 * Wrap /\ 0 * Wrap < m
        BY <1>2, <3>2
    <3> QED
        BY <3>3 DEF m
  <2>5. n \div Wrap < 2
      BY <2>1, <2>4, Ordered
  <2>6. 0 < n \div Wrap
      BY <2>1, <2>4, Ordered
  <2>7. n \div Wrap = 1
      BY <2>1, <2>5, <2>6
  <2>8. Wrap * 1 = Wrap
      OBVIOUS
  <2>9. n = Wrap + (n % Wrap)
      BY <2>3, <2>7, <2>8
  <2> QED
      BY <1>2, <2>2, <2>9
<1> QED
    BY <1>1, <1>2

(* The 8-bit counters *)
LEMMA UpIs ==
    ASSUME NEW n \in Byte
    PROVE  Up(n) = (IF n + 1 = Wrap THEN 0 ELSE n + 1) /\ Up(n) \in Byte
<1>1. n + 1 \in Nat /\ n + 1 < Wrap + Wrap /\ n + 1 <= Wrap
    BY Numbers
<1>2. Up(n) = IF n + 1 < Wrap THEN n + 1 ELSE (n + 1) - Wrap
    BY <1>1, Remainder, Zenon DEF Up
<1> QED
    BY <1>1, <1>2, Numbers

LEMMA DownIs ==
    ASSUME NEW n \in Byte
    PROVE  Down(n) = (IF n = 0 THEN Wrap - 1 ELSE n - 1) /\ Down(n) \in Byte
<1>1. n + Wrap - 1 \in Nat /\ n + Wrap - 1 < Wrap + Wrap
    BY Numbers
<1>2. Down(n) = IF n + Wrap - 1 < Wrap THEN n + Wrap - 1 ELSE (n + Wrap - 1) - Wrap
    BY <1>1, Remainder, Zenon DEF Down
<1> QED
    BY <1>2, Numbers

LEMMA AgreeIs ==
    ASSUME NEW n \in Byte, NEW m \in Byte
    PROVE  (n + m) % Wrap = Pages <=> n + m = Pages \/ n + m = Pages + Wrap
<1>1. n + m \in Nat /\ n + m < Wrap + Wrap
    BY Numbers
<1>2. (n + m) % Wrap = IF n + m < Wrap THEN n + m ELSE (n + m) - Wrap
    BY <1>1, Remainder, Zenon
<1> QED
    BY <1>1, <1>2, Numbers

(* A multiple of CheckEvery that is not 0 *)
LEMMA FirstCheck ==
    ASSUME NEW n \in Nat, n > 0, n % CheckEvery = 0
    PROVE  n >= CheckEvery
<1> CheckEvery \in Nat /\ CheckEvery > 0
    BY Limited
<1> DEFINE k == n \div CheckEvery
<1>1. k \in Int
    OBVIOUS
<1>2. n = CheckEvery * k + (n % CheckEvery)
    OBVIOUS
<1> HIDE DEF k
<1>3. n = k * CheckEvery
    BY <1>1, <1>2
<1>4. 0 * CheckEvery < k * CheckEvery
    BY <1>3
<1>5. 0 < k
    BY <1>1, <1>4, Ordered
<1>6. k - 1 \in Nat
    BY <1>1, <1>5
<1>7. (k - 1) * CheckEvery \in Nat
    BY <1>6
<1>8. k * CheckEvery = (k - 1) * CheckEvery + CheckEvery
    BY <1>1
<1> QED
    BY <1>3, <1>7, <1>8

(* Checks behind the wrap lie CheckEvery apart, too. *)
LEMMA ChecksApart ==
    ASSUME NEW d \in Nat, NEW e \in Nat, d <= Wrap, (Wrap - d) % CheckEvery = 0,
           d < (Wrap % CheckEvery) + (e + 1) * CheckEvery
    PROVE  d <= (Wrap % CheckEvery) + e * CheckEvery
<1> CheckEvery \in Nat /\ CheckEvery > 0 /\ Wrap \in Nat
    BY Limited, Numbers
<1> DEFINE k == Wrap \div CheckEvery
           j == (Wrap - d) \div CheckEvery
           r == Wrap % CheckEvery
<1>1. Wrap - d \in Int
    OBVIOUS
<1>2. k \in Int /\ j \in Int /\ r \in Int
    BY <1>1
<1>3. Wrap = CheckEvery * k + r
    OBVIOUS
<1>4. Wrap - d = CheckEvery * j + ((Wrap - d) % CheckEvery)
    BY <1>1
<1>5. Wrap - d = CheckEvery * j
    BY <1>2, <1>4
<1> HIDE DEF k, j, r
<1>6. d = (k - j) * CheckEvery + r
  <2>1. (k - j) * CheckEvery = CheckEvery * k - CheckEvery * j
      BY <1>2
  <2> QED
      BY <1>2, <1>3, <1>5, <2>1
<1>7. d < r + (e + 1) * CheckEvery
    BY DEF r
<1>8. (k - j) * CheckEvery < (e + 1) * CheckEvery
  <2>1. (k - j) * CheckEvery \in Int /\ (e + 1) * CheckEvery \in Int
      BY <1>2
  <2> QED
      BY <1>2, <1>6, <1>7, <2>1
<1>9. k - j < e + 1
  <2>1. k - j \in Int /\ e + 1 \in Int
      BY <1>2
  <2> QED
      BY <1>8, <2>1, Ordered
<1>10. (k - j) * CheckEvery <= e * CheckEvery
  <2>1. e - (k - j) \in Nat
      BY <1>2, <1>9
  <2>2. (e - (k - j)) * CheckEvery \in Nat
      BY <2>1
  <2>3. (e - (k - j)) * CheckEvery = e * CheckEvery - (k - j) * CheckEvery
      BY <1>2
  <2>4. e * CheckEvery \in Int /\ (k - j) * CheckEvery \in Int
      BY <1>2
  <2> QED
      BY <2>2, <2>3, <2>4
<1>11. d <= r + e * CheckEvery
  <2>1. e * CheckEvery \in Int /\ (k - j) * CheckEvery \in Int
      BY <1>2
  <2> QED
      BY <1>2, <1>6, <1>10, <2>1
<1> QED
    BY <1>11 DEF r

(* Room(e) grows by CheckEvery, and what there is while the upload runs lies below Wrap. *)
LEMMA Rooms ==
    /\ \A e \in Nat : /\ Room(e) \in Nat /\ Room(e + 1) = Room(e) + CheckEvery
                      /\ Room(e) >= Pages + CheckEvery
                      /\ e > 0 => Room(e) >= Pages + CheckEvery + CheckEvery
    /\ HasRoom => \A e \in Nat : e < ErrorMax => Room(e) < Wrap
<1> DEFINE r == Wrap % CheckEvery
<1>1. r \in Nat
    BY Limited, Numbers
<1>2. HasRoom => Pages + r + ErrorMax * CheckEvery < Wrap
    BY DEF HasRoom
<1>3. \A e : Room(e) = Pages + r + (e + 1) * CheckEvery
    BY DEF Room
<1> HIDE DEF r
<1> CheckEvery \in Nat /\ Pages \in Nat /\ ErrorMax \in Nat /\ Wrap \in Nat
    BY Limited, Numbers
<1>4. ASSUME NEW e \in Nat
      PROVE  /\ (e + 1) * CheckEvery \in Nat /\ e * CheckEvery \in Nat
             /\ (e + 1) * CheckEvery = e * CheckEvery + CheckEvery
             /\ ((e + 1) + 1) * CheckEvery = (e + 1) * CheckEvery + CheckEvery
    OBVIOUS
<1>5. ASSUME NEW e \in Nat
      PROVE  /\ Room(e) \in Nat /\ Room(e + 1) = Room(e) + CheckEvery /\ Room(e) >= Pages + CheckEvery
  <2>1. /\ Room(e) = Pages + r + (e + 1) * CheckEvery
        /\ Room(e + 1) = Pages + r + ((e + 1) + 1) * CheckEvery
      BY <1>3
  <2> DEFINE a == e * CheckEvery
             b == (e + 1) * CheckEvery
             c == ((e + 1) + 1) * CheckEvery
  <2>2. a \in Nat /\ b = a + CheckEvery /\ c = b + CheckEvery
      BY <1>4
  <2> HIDE DEF a, b, c
  <2>3. Room(e) = Pages + r + b /\ Room(e + 1) = Pages + r + c
      BY <2>1 DEF b, c
  <2> QED
      BY <1>1, <2>2, <2>3
<1>6. ASSUME NEW e \in Nat, e > 0 PROVE Room(e) >= Pages + CheckEvery + CheckEvery
  <2>1. e - 1 \in Nat /\ (e - 1) + 1 = e
      BY <1>6
  <2>2. Room(e) = Room(e - 1) + CheckEvery /\ Room(e - 1) >= Pages + CheckEvery /\ Room(e - 1) \in Nat
      BY <1>5, <2>1
  <2> QED
      BY <2>2
<1>7. ASSUME HasRoom, NEW e \in Nat, e < ErrorMax PROVE Room(e) < Wrap
  <2>1. ErrorMax - (e + 1) \in Nat
      BY <1>7
  <2>2. (ErrorMax - (e + 1)) * CheckEvery \in Nat
      BY <2>1
  <2>3. (ErrorMax - (e + 1)) * CheckEvery = ErrorMax * CheckEvery - (e + 1) * CheckEvery
      OBVIOUS
  <2>4. ErrorMax * CheckEvery \in Int /\ (e + 1) * CheckEvery \in Int
      OBVIOUS
  <2> QED
      BY <1>1, <1>2, <1>3, <1>7, <2>2, <2>3, <2>4
<1> QED
    BY <1>5, <1>6, <1>7

(* There is room for all failures of a check behind the wrap. *)
LEMMA RoomForCheck ==
    ASSUME NEW e \in Nat, NEW s \in Nat, NEW c \in Nat, s > Pages, c + s = Pages + Wrap,
           c % CheckEvery = 0, s < Room(e)
    PROVE  s + CheckEvery <= Room(e)
<1> DEFINE d == s - Pages
           r == Wrap % CheckEvery
           a == e * CheckEvery
           b == (e + 1) * CheckEvery
<1>1. d \in Nat /\ d <= Wrap /\ c = Wrap - d /\ s = Pages + d
    BY Numbers
<1>2. r \in Nat
    BY Limited, Numbers
<1>3. Room(e) = Pages + r + b
    BY DEF Room
<1>4. a \in Nat /\ b = a + CheckEvery
    BY Limited
<1>5. d < r + b
  <2> HIDE DEF d, r, a, b
  <2> QED
      BY <1>1, <1>2, <1>3, <1>4, Numbers, Limited
<1>6. (Wrap - d) % CheckEvery = 0
    BY <1>1
<1>7. d <= r + a
  <2> HIDE DEF d
  <2> QED
      BY <1>1, <1>5, <1>6, ChecksApart
<1> HIDE DEF d, r, a, b
<1> QED
    BY <1>1, <1>2, <1>3, <1>4, <1>7, Numbers, Limited

-----------------------------------------------------------------------------
(* Answers *)

LEMMA FrameIs ==
    ASSUME NEW f \in Frame
    PROVE  /\ f.kind \in Kind /\ f.result \in Verdict
           /\ f.lost \in Seq(Byte) /\ Len(f.lost) \in Nat /\ DOMAIN f.lost = 1..Len(f.lost)
           /\ \A i \in 1..Len(f.lost) : f.lost[i] \in Byte
<1>1. f.kind \in Kind /\ f.result \in Verdict /\ f.lost \in Seq(Byte)
    BY DEF Frame
<1> QED
    BY <1>1

(* Whatever bytes are read, they make up a frame. *)
LEMMA GarbageIs ==
    ASSUME NEW L, L \subseteq Seq(Byte), NEW f \in [kind : Kind, result : Verdict, lost : GarbageLists \cup L]
    PROVE  f \in Frame
<1>1. GarbageLists \subseteq Seq(Byte)
  <2> SUFFICES ASSUME NEW l \in GarbageLists PROVE l \in Seq(Byte)
      OBVIOUS
  <2>1. PICK n \in 0..ListMax : l \in [1..n -> Garbage]
      BY DEF GarbageLists
  <2>2. n \in Nat /\ Garbage \subseteq Byte
      BY GarbageAssumption, Numbers
  <2>3. l \in [1..n -> Byte]
      BY <2>1, <2>2
  <2> QED
      BY <2>2, <2>3
<1> QED
    BY <1>1 DEF Frame

LEMMA SaysIs ==
    ASSUME NEW f \in Frame
    PROVE  /\ Says(f) \in {1, -1, -2, -3, -4}
           /\ Says(f) = 1 <=> f.kind = "command" \/ (f.kind = "verdict" /\ f.result = "ok")
           /\ Says(f) = -2 <=> f.kind = "verdict" /\ f.result = "imperfect"
           /\ Says(f) \in {-3, -4} => f.result \in {"unusual", "stop"}
           /\ Says(f) = -1 => f.kind = "none" \/ f.result = "unknown"
<1>1. f.kind \in {"none", "verdict", "command"} /\ f.result \in {"ok", "imperfect", "unusual", "stop", "unknown"}
    BY FrameIs DEF Kind, Verdict
<1>2. CASE f.kind = "command"
    BY <1>2 DEF Says
<1>3. CASE f.kind = "none"
    BY <1>3 DEF Says
<1>4. CASE f.kind = "verdict" /\ f.result = "ok"
    BY <1>4 DEF Says
<1>5. CASE f.kind = "verdict" /\ f.result = "imperfect"
    BY <1>5 DEF Says
<1>6. CASE f.kind = "verdict" /\ f.result = "unusual"
    BY <1>6 DEF Says
<1>7. CASE f.kind = "verdict" /\ f.result = "stop"
    BY <1>7 DEF Says
<1>8. CASE f.kind = "verdict" /\ f.result = "unknown"
    BY <1>8 DEF Says
<1> QED
    BY <1>1, <1>2, <1>3, <1>4, <1>5, <1>6, <1>7, <1>8

(* A verdict names the pages of the set it is on. *)
LEMMA VerdictIs ==
    ASSUME NEW S \in SUBSET PageNumber, NEW f \in VerdictsOn(S)
    PROVE  /\ f \in Frame /\ f.kind = "verdict"
           /\ f.result = IF S = {} THEN "ok" ELSE "imperfect"
           /\ \A p \in S : \E i \in DOMAIN f.lost : f.lost[i] = p
           /\ Last \notin S => \A i \in DOMAIN f.lost : f.lost[i] \in 0..Last - 1
<1>1. /\ f.kind = "verdict" /\ f.result = (IF S = {} THEN "ok" ELSE "imperfect") /\ f.lost \in Listings(S)
      /\ f = [kind |-> f.kind, result |-> f.result, lost |-> f.lost]
    BY DEF VerdictsOn
<1>2. /\ f.lost \in [1..Cardinality(S) -> S]
      /\ \A p \in S : \E i \in DOMAIN f.lost : f.lost[i] = p
    BY <1>1 DEF Listings
<1>3. Cardinality(S) \in Nat
  <2>1. IsFiniteSet(PageNumber)
      BY FS_Interval, Numbers DEF PageNumber
  <2> QED
      BY <2>1, FS_Subset, FS_CardinalityType
<1>4. f.lost \in Seq(Byte)
  <2>1. f.lost \in [1..Cardinality(S) -> Byte]
      BY <1>2, Numbers
  <2> QED
      BY <1>3, <2>1
<1>5. f \in Frame
  <2>1. f.result \in Verdict /\ f.kind \in Kind
      BY <1>1 DEF Verdict, Kind
  <2> QED
      BY <1>1, <1>4, <2>1 DEF Frame
<1>6. ASSUME Last \notin S, NEW i \in DOMAIN f.lost PROVE f.lost[i] \in 0..Last - 1
  <2>1. f.lost[i] \in S
      BY <1>2, <1>6
  <2>2. f.lost[i] \in 0..Last /\ f.lost[i] # Last
      BY <1>6, <2>1 DEF PageNumber
  <2> QED
      BY <2>2, Numbers
<1> QED
    BY <1>1, <1>2, <1>5, <1>6

-----------------------------------------------------------------------------
(* The exchanges with the modem *)

LEMMA AnsweredIs ==
    ASSUME UploadInv, NEW p, Answered(p)
    PROVE  /\ taken' = taken \cup {p} /\ received' = received \cup {p} /\ send_result' = 1
           /\ frame' \in Frame /\ told' \in BOOLEAN
           /\ p = Last \/ misled' => AllNamed'
           /\ told' /\ frame'.result = "ok" => Complete'
           /\ faults' \in Nat /\ odd' \in Nat /\ faults <= faults'
           /\ odd' = 0 => odd = 0 /\ told'
           /\ told' /\ Complete' /\ faults' = faults => frame'.result = "ok"
<1>1. /\ taken' = taken \cup {p} /\ received' = received \cup {p} /\ send_result' = 1
    BY DEF Answered
<1>2. frame \in Frame /\ faults \in Nat /\ odd \in Nat
    BY DEF UploadInv, TypeOK, FaultsCounted
<1>3. /\ Missing(received') \subseteq PageNumber /\ (Missing(received') = {} <=> Complete')
      /\ p = Last => Last \notin Missing(received')
    BY <1>1 DEF Missing, Complete
<1>4. ASSUME NEW S \in SUBSET (PageNumber \ {Last}), frame' \in VerdictsOn(Missing(received') \cup S), told' = TRUE
      PROVE  /\ frame' \in Frame /\ told' \in BOOLEAN
             /\ p = Last \/ misled' => AllNamed'
             /\ frame'.result = IF Missing(received') \cup S = {} THEN "ok" ELSE "imperfect"
  <2>1. Missing(received') \cup S \in SUBSET PageNumber
      BY <1>3
  <2>2. /\ frame' \in Frame /\ frame'.kind = "verdict"
        /\ frame'.result = IF Missing(received') \cup S = {} THEN "ok" ELSE "imperfect"
        /\ \A q \in Missing(received') \cup S : \E i \in DOMAIN frame'.lost : frame'.lost[i] = q
        /\ Last \notin Missing(received') \cup S => \A i \in DOMAIN frame'.lost : frame'.lost[i] \in 0..Last - 1
      BY <1>4, <2>1, VerdictIs
  <2>3. p = Last => \A i \in DOMAIN frame'.lost : frame'.lost[i] \in 0..Last - 1
      BY <1>3, <2>2
  <2>4. frame'.result \in {"ok", "imperfect"}
      BY <2>2
  <2>5. p = Last \/ misled' => AllNamed'
      BY <2>2, <2>3, <2>4 DEF AllNamed, Missing, PageNumber, Last
  <2>6. told' \in BOOLEAN
      BY <1>4, Zenon
  <2> QED
      BY <2>2, <2>5, <2>6
<1>5. CASE frame' \in VerdictsOn(Missing(received')) /\ told' = TRUE /\ UNCHANGED <<faults, odd>>
  <2>1. Missing(received') \cup {} = Missing(received') /\ {} \in SUBSET (PageNumber \ {Last})
      OBVIOUS
  <2>2. frame' \in VerdictsOn(Missing(received') \cup {})
      BY <1>5, <2>1
  <2>3. /\ frame' \in Frame /\ told' \in BOOLEAN /\ (p = Last \/ misled' => AllNamed')
        /\ frame'.result = IF Missing(received') = {} THEN "ok" ELSE "imperfect"
      BY <1>4, <1>5, <2>1, <2>2
  <2>4. frame'.result = "ok" <=> Complete'
      BY <1>3, <2>3
  <2> QED
      BY <1>1, <1>2, <1>5, <2>3, <2>4
<1>6. CASE /\ \E S \in SUBSET ((PageNumber \cap received) \ {Last}) :
                  frame' \in VerdictsOn(Missing(received') \cup S)
           /\ told' = TRUE /\ faults' = faults + 1 /\ UNCHANGED odd
  <2>1. PICK S \in SUBSET ((PageNumber \cap received) \ {Last}) : frame' \in VerdictsOn(Missing(received') \cup S)
      BY <1>6
  <2>2. S \in SUBSET (PageNumber \ {Last})
      BY <2>1
  <2>3. /\ frame' \in Frame /\ told' \in BOOLEAN /\ (p = Last \/ misled' => AllNamed')
        /\ frame'.result = IF Missing(received') \cup S = {} THEN "ok" ELSE "imperfect"
      BY <1>4, <1>6, <2>1, <2>2
  <2>4. frame'.result = "ok" => Complete'
      BY <1>3, <2>3
  <2>5. faults' \in Nat /\ odd' \in Nat /\ faults <= faults' /\ faults' # faults /\ odd' = odd
      BY <1>2, <1>6
  <2> QED
      BY <1>1, <1>6, <2>3, <2>4, <2>5
<1>7. CASE frame' \in OddFrames /\ told' = FALSE /\ odd' = odd + 1 /\ UNCHANGED faults
  <2>1. odd' \in Nat /\ odd' # 0 /\ faults' \in Nat /\ faults <= faults'
      BY <1>2, <1>7
  <2>2. {frame.lost} \subseteq Seq(Byte)
      BY <1>2, FrameIs
  <2>3. frame' \in Frame
      BY <1>7, <2>2, GarbageIs DEF OddFrames
  <2>4. AllNamed' /\ told' \in BOOLEAN /\ ~told'
      BY <1>7, Zenon DEF AllNamed
  <2> QED
      BY <1>1, <2>1, <2>3, <2>4
<1> QED
    BY <1>5, <1>6, <1>7 DEF Answered

LEMMA UnansweredIs ==
    ASSUME UploadInv, NEW p, Unanswered(p)
    PROVE  /\ faults' = faults + 1 /\ faults' \in Nat /\ send_result' = -1 /\ UNCHANGED <<odd, frame, told>>
           /\ taken \subseteq taken' /\ taken' \subseteq taken \cup {p}
           /\ received \subseteq received' /\ received' \subseteq taken'
<1>1. faults \in Nat /\ received \subseteq taken
    BY DEF UploadInv, TypeOK, FaultsCounted
<1>2. /\ faults' = faults + 1 /\ send_result' = -1 /\ UNCHANGED <<odd, frame, told>>
    BY DEF Unanswered, frameVars
<1>3. CASE taken' = taken \cup {p} /\ received' \in {received, received \cup {p}}
    BY <1>1, <1>2, <1>3
<1>4. CASE UNCHANGED <<taken, received>>
    BY <1>1, <1>2, <1>4
<1> QED
    BY <1>3, <1>4 DEF Unanswered

LEMMA TakenIs ==
    ASSUME UploadInv, NEW p, Taken(p)
    PROVE  /\ taken' = taken \cup {p} /\ send_result' = 1 /\ UNCHANGED <<odd, frame, told>>
           /\ received \subseteq received' /\ received' \subseteq taken' /\ faults' \in Nat /\ faults <= faults'
           /\ faults' = faults => p \in received'
<1>1. faults \in Nat /\ received \subseteq taken
    BY DEF UploadInv, TypeOK, FaultsCounted
<1>2. /\ taken' = taken \cup {p} /\ send_result' = 1 /\ UNCHANGED <<odd, frame, told>>
    BY DEF Taken, frameVars
<1>3. CASE received' = received \cup {p} /\ UNCHANGED faults
    BY <1>1, <1>2, <1>3
<1>4. CASE faults' = faults + 1 /\ UNCHANGED received
    BY <1>1, <1>2, <1>4
<1> QED
    BY <1>3, <1>4 DEF Taken

LEMMA RefusedIs ==
    ASSUME UploadInv, Refused
    PROVE  /\ faults' = faults + 1 /\ faults' \in Nat /\ send_result' = -1
           /\ UNCHANGED <<taken, received, odd, frame, told>>
    BY DEF UploadInv, FaultsCounted, Refused, frameVars

-----------------------------------------------------------------------------
LEMMA InitKeeps == Init => UploadInv
<1> SUFFICES ASSUME Init PROVE UploadInv
    OBVIOUS
<1>1. frame \in Frame
  <2>1. GarbageLists \cup {} = GarbageLists /\ {} \subseteq Seq(Byte)
      OBVIOUS
  <2>2. frame \in [kind : Kind, result : Verdict, lost : GarbageLists \cup {}]
      BY <2>1 DEF Init
  <2> QED
      BY <2>1, <2>2, GarbageIs
<1>2. ~told /\ ~misled /\ told \in BOOLEAN /\ misled \in BOOLEAN /\ excused \in BOOLEAN /\ last_page \in BOOLEAN
    BY Zenon DEF Init
<1>3. TypeOK
  <2>1. page_sum \in Byte /\ cur_page \in Byte /\ index \in Byte
      BY Numbers DEF Init
  <2>2. /\ page_error \in 0..ErrorMax /\ send_last_cnt \in 0..LastMax /\ resend_num \in 0..ResendMax + 1
        /\ rsend_cnt \in 0..RoundMax + 1 /\ error \in 0..GiveUpMax
      BY Limited DEF Init
  <2> QED
      BY <1>1, <1>2, <2>1, <2>2 DEF Init, TypeOK
<1>4. CountersAgree /\ Unwrapped
  <2>1. cur_page + page_sum = Pages /\ cur_page \in Byte /\ page_sum \in Byte
      BY Numbers DEF Init
  <2> QED
      BY <2>1, AgreeIs DEF Init, CountersAgree, Unwrapped
<1>5. Limits /\ LastOnly /\ WithinList
    BY Limited DEF Init, Limits, LastOnly, WithinList, Deciding, Resending
<1>6. RoomLeft
  <2>1. Room(0) >= Pages + CheckEvery /\ Room(0) \in Nat
      BY Rooms
  <2> QED
      BY <2>1, Numbers, Limited DEF Init, RoomLeft, Deciding
<1>7. AllSent /\ FaultsCounted
  <2>1. \A p \in PageNumber : ~Before(p)
      BY Numbers DEF Before, Init
  <2> QED
      BY <2>1 DEF Init, AllSent, FaultsCounted
<1>8. OkIsTrue
    BY Numbers DEF Init, OkIsTrue
<1>9. AllNamed /\ NoneYet /\ VerdictsOnly /\ RoundsCost
    BY <1>2, Numbers DEF Init, AllNamed, NoneYet, VerdictsOnly, RoundsCost, Deciding, Resending
<1>10. FewAreNoHarm
    BY Numbers DEF Init, FewAreNoHarm
<1> QED
    BY <1>3, <1>4, <1>5, <1>6, <1>7, <1>8, <1>9, <1>10 DEF UploadInv

-----------------------------------------------------------------------------
(* The counters while the upload runs *)

LEMMA Sums ==
    ASSUME UploadInv, pc # "failed"
    PROVE  /\ page_sum \in Nat /\ cur_page \in Nat /\ page_sum < Wrap /\ cur_page < Wrap
           /\ page_error \in Nat /\ Room(page_error) \in Nat /\ Room(page_error) >= Pages + CheckEvery
           /\ HasRoom => page_sum <= Room(page_error) /\ Room(page_error) < Wrap
           /\ cur_page = IF page_sum <= Pages THEN Pages - page_sum ELSE (Pages + Wrap) - page_sum
<1>1. page_sum \in Byte /\ cur_page \in Byte /\ page_error \in Nat /\ page_error < ErrorMax
    BY Limited DEF UploadInv, TypeOK, Limits
<1>2. cur_page + page_sum = Pages \/ cur_page + page_sum = Pages + Wrap
    BY <1>1, AgreeIs DEF UploadInv, CountersAgree
<1>3. HasRoom => page_sum <= Room(page_error)
    BY DEF UploadInv, RoomLeft
<1>4. /\ Room(page_error) \in Nat /\ Room(page_error) >= Pages + CheckEvery
      /\ HasRoom => Room(page_error) < Wrap
    BY <1>1, Rooms
<1> QED
    BY <1>1, <1>2, <1>3, <1>4, Numbers

LEMMA StepsOn ==
    ASSUME UploadInv, pc # "failed", page_sum > 0, page_sum' = page_sum - 1, cur_page' = Up(cur_page)
    PROVE  /\ page_sum' \in Byte /\ cur_page' \in Byte /\ CountersAgree'
           /\ page_sum <= Pages => cur_page' = cur_page + 1
<1>1. page_sum' \in Byte /\ cur_page \in Byte
    BY Sums, Numbers
<1>2. cur_page' = (IF cur_page + 1 = Wrap THEN 0 ELSE cur_page + 1) /\ cur_page' \in Byte
    BY <1>1, UpIs
<1>3. cur_page' + page_sum' = Pages \/ cur_page' + page_sum' = Pages + Wrap
    BY <1>1, <1>2, Sums, Numbers
<1>4. CountersAgree'
    BY <1>1, <1>2, <1>3, AgreeIs DEF CountersAgree
<1>5. page_sum <= Pages => cur_page' = cur_page + 1
    BY <1>2, Sums, Numbers
<1> QED
    BY <1>1, <1>2, <1>4, <1>5

LEMMA StepsBack ==
    ASSUME UploadInv, pc # "failed", page_sum' = Up(page_sum), cur_page' = Down(cur_page)
    PROVE  /\ page_sum' \in Byte /\ cur_page' \in Byte /\ CountersAgree'
           /\ page_sum + 1 < Wrap => page_sum' = page_sum + 1
           /\ cur_page > 0 => cur_page' = cur_page - 1
<1>1. page_sum \in Byte /\ cur_page \in Byte
    BY Sums, Numbers
<1>2. page_sum' = (IF page_sum + 1 = Wrap THEN 0 ELSE page_sum + 1) /\ page_sum' \in Byte
    BY <1>1, UpIs
<1>3. cur_page' = (IF cur_page = 0 THEN Wrap - 1 ELSE cur_page - 1) /\ cur_page' \in Byte
    BY <1>1, DownIs
<1>4. cur_page' + page_sum' = Pages \/ cur_page' + page_sum' = Pages + Wrap
    BY <1>1, <1>2, <1>3, Sums, Numbers
<1>5. CountersAgree'
    BY <1>2, <1>3, <1>4, AgreeIs DEF CountersAgree
<1>6. /\ page_sum + 1 < Wrap => page_sum' = page_sum + 1
      /\ cur_page > 0 => cur_page' = cur_page - 1
    BY <1>1, <1>2, <1>3, Numbers
<1> QED
    BY <1>2, <1>3, <1>5, <1>6

(* What the server has got stays, and so does what a verdict names. *)
LEMMA NamedStill ==
    ASSUME UploadInv, frame' = frame, told' = told, misled => misled', received \subseteq received'
    PROVE  AllNamed'
<1>1. Missing(received') \subseteq Missing(received)
    BY DEF Missing
<1>2. AllNamed' <=> (told =>
        /\ frame.kind = "verdict" /\ frame.result \in {"ok", "imperfect"}
        /\ frame.result = "imperfect" =>
               \A p \in Missing(received') : \E i \in DOMAIN frame.lost : frame.lost[i] = p
        /\ misled' \/ \A i \in DOMAIN frame.lost : frame.lost[i] \in 0..Last - 1)
    BY DEF AllNamed, Missing, Last
<1> QED
    BY <1>1, <1>2 DEF UploadInv, AllNamed

-----------------------------------------------------------------------------
(* A page is sent *)

LEMMA PageSentKeeps == ASSUME UploadInv, PageSent PROVE UploadInv'
<1>1. /\ pc = "page" /\ page_sum > 0 /\ last_page' = (page_sum = 1)
      /\ page_sum' = page_sum - 1 /\ cur_page' = Up(cur_page) /\ rsend_cnt' = 0
      /\ UNCHANGED <<page_error, send_last_cnt, resend_num, error, index, excused, misled>>
    BY DEF PageSent, historyVars
<1>2. /\ pc' \in {"check", "verdict", "next"}
      /\ pc' = "check" => cur_page' % CheckEvery = 0
      /\ pc' = "verdict" => last_page'
      /\ pc' = "next" => ~last_page'
    BY DEF PageSent, AfterPage, AfterCheck
<1>3. index = 0 /\ send_last_cnt = 0 /\ last_page' \in BOOLEAN
    BY <1>1 DEF UploadInv, Limits
<1>4. page_sum' \in Nat /\ cur_page \in Nat /\ (last_page' <=> page_sum' = 0) /\ page_sum \in Nat
      /\ page_sum = page_sum' + 1
  <2>1. page_sum \in Nat /\ cur_page \in Nat
      BY <1>1, Sums
  <2>2. page_sum' \in Nat /\ page_sum = page_sum' + 1 /\ (page_sum = 1 <=> page_sum' = 0)
      BY <1>1, <2>1
  <2> QED
      BY <1>1, <2>1, <2>2, Zenon
<1>5. /\ last_page' => Answered(Last)
      /\ ~last_page' => Taken(cur_page)
    BY DEF PageSent
<1>6. /\ taken' = taken \cup {cur_page} /\ send_result' = 1 /\ frame' \in Frame /\ told' \in BOOLEAN
      /\ received \subseteq received' /\ received' \subseteq taken'
      /\ AllNamed' /\ faults' \in Nat /\ faults <= faults' /\ odd' \in Nat /\ (odd' = 0 => odd = 0)
      /\ faults' = faults => cur_page \in received'
  <2>1. CASE last_page'
    <3>1. cur_page = Last
        BY <1>1, <1>4, <2>1, Sums, Numbers
    <3>2. received \subseteq taken
        BY DEF UploadInv, TypeOK
    <3> QED
        BY <1>5, <2>1, <3>1, <3>2, AnsweredIs
  <2>2. CASE ~last_page'
    <3>1. frame \in Frame /\ odd \in Nat /\ told \in BOOLEAN
        BY DEF UploadInv, TypeOK, FaultsCounted
    <3>2. Taken(cur_page)
        BY <1>5, <2>2
    <3>3. /\ taken' = taken \cup {cur_page} /\ send_result' = 1 /\ odd' = odd /\ frame' = frame /\ told' = told
          /\ received \subseteq received' /\ received' \subseteq taken' /\ faults' \in Nat /\ faults <= faults'
          /\ faults' = faults => cur_page \in received'
        BY <3>2, TakenIs
    <3>4. AllNamed'
        BY <1>1, <3>3, NamedStill
    <3> QED
        BY <3>1, <3>3, <3>4
  <2> QED
      BY <1>3, <2>1, <2>2
<1>7. ~last_page' => frame' = frame /\ told' = told
    BY <1>5, TakenIs
<1>8. last_page' =>
        /\ told' /\ frame'.result = "ok" => Complete'
        /\ odd' = 0 => told'
        /\ told' /\ Complete' /\ faults' = faults => frame'.result = "ok"
    BY <1>5, AnsweredIs
<1>9. /\ page_sum' \in Byte /\ cur_page' \in Byte /\ CountersAgree'
      /\ page_sum <= Pages => cur_page' = cur_page + 1
    BY <1>1, StepsOn
<1>10. TypeOK'
  <2>1. taken' \subseteq Byte
      BY <1>6, Sums, <1>1, Numbers DEF UploadInv, TypeOK
  <2>3. rsend_cnt' \in 0..RoundMax + 1
      BY <1>1, Limited
  <2> QED
      BY <1>1, <1>2, <1>3, <1>6, <1>9, <2>1, <2>3 DEF UploadInv, TypeOK
<1>11. Limits' /\ WithinList'
    BY <1>1, <1>2, <1>3, Limited DEF UploadInv, Limits, WithinList, Deciding, Resending
<1>12. Unwrapped'
  <2> SUFFICES ASSUME page_error = 0, resend_num = 0
               PROVE  /\ cur_page' + page_sum' = Pages
                      /\ pc' = "check" => cur_page' + send_last_cnt' >= CheckEvery
                      /\ misled \/ taken' \subseteq PageNumber
      BY <1>1 DEF Unwrapped, PageNumber, Last
  <2>1. cur_page + page_sum = Pages /\ (misled \/ taken \subseteq PageNumber)
      BY DEF UploadInv, Unwrapped
  <2>2. cur_page' = cur_page + 1
      BY <1>1, <1>4, <1>9, <2>1, Numbers
  <2>3. cur_page' + page_sum' = Pages /\ cur_page \in PageNumber /\ cur_page' > 0
      BY <1>1, <1>4, <2>1, <2>2, Numbers
  <2>4. pc' = "check" => cur_page' >= CheckEvery
      BY <1>2, <1>4, <2>2, <2>3, FirstCheck
  <2> QED
      BY <1>1, <1>3, <1>4, <1>6, <2>1, <2>2, <2>3, <2>4, Limited
<1>13. RoomLeft'
  <2>1. page_error' = page_error /\ (HasRoom => page_sum' <= Room(page_error))
      BY <1>1, <1>4, Sums
  <2>2. HasRoom /\ pc' = "check" => page_sum' + LastMax <= Room(page_error)
    <3> HAVE HasRoom /\ pc' = "check"
    <3>1. CASE page_sum' <= Pages
        BY <1>1, <1>4, <3>1, Sums, Limited, Numbers
    <3>2. CASE page_sum' > Pages
      <4>1. cur_page' + page_sum' = Pages \/ cur_page' + page_sum' = Pages + Wrap
          BY <1>9, AgreeIs, Zenon DEF CountersAgree
      <4>2. cur_page' \in Nat /\ page_sum' \in Nat
          BY <1>9, Numbers
      <4>3. cur_page' + page_sum' = Pages + Wrap
        <5>1. \A m, n \in Nat : n > Pages => m + n # Pages
            BY Numbers
        <5> QED
            BY <3>2, <4>1, <4>2, <5>1, Zenon
      <4>4. page_sum' < Room(page_error) /\ page_error \in Nat /\ Room(page_error) \in Nat
          BY <1>1, <1>4, Sums
      <4>5. page_sum' + CheckEvery <= Room(page_error)
          BY <1>2, <3>2, <4>2, <4>3, <4>4, RoomForCheck
      <4> QED
          BY <4>2, <4>4, <4>5, Limited
    <3> QED
        BY <1>4, <3>1, <3>2, Numbers
  <2>3. page_sum' + (LastMax - send_last_cnt') = page_sum' + LastMax
      BY <1>1, <1>3, <1>4, Limited
  <2>4. last_page' => page_sum' = 0 /\ Again' \in Nat /\ send_last_cnt' = 0
      BY <1>1, <1>3, <1>4 DEF Again
  <2>5. Room(page_error)' = Room(page_error)
      BY <1>1 DEF Room
  <2>6. last_page' => page_sum' <= send_last_cnt' + Again' /\ page_sum' <= LastMax + Again'
      BY <2>4, Limited
  <2> QED
      BY <2>1, <2>2, <2>3, <2>5, <2>6 DEF RoomLeft, Deciding
<1>14. LastOnly'
    BY <1>2, <1>4 DEF LastOnly, Deciding
<1>15. \A p \in PageNumber : Before(p)' => Before(p) \/ p = cur_page
    BY <1>1, <1>4, Sums, Numbers DEF Before
<1>16. AllSent'
    BY <1>1, <1>6, <1>15 DEF UploadInv, AllSent, PageNumber, Last
<1>17. OkIsTrue'
    BY <1>2, <1>4, <1>8 DEF OkIsTrue, Deciding
<1>18. FaultsCounted'
  <2>1. /\ faults' \in Nat /\ odd' \in Nat
        /\ page_error' <= faults' /\ send_last_cnt' <= faults' /\ error' <= faults'
    <3>1. /\ page_error <= faults /\ send_last_cnt <= faults /\ error <= faults /\ faults \in Nat
          /\ page_error \in Nat /\ send_last_cnt \in Nat /\ error \in Nat
        BY Limited DEF UploadInv, FaultsCounted, TypeOK
    <3> QED
        BY <1>1, <1>6, <3>1
  <2>2. faults' = 0 => faults = 0
      BY <1>6 DEF UploadInv, FaultsCounted
  <2>3. HasRoom /\ faults' = 0 => \A p \in PageNumber : Before(p)' => p \in received'
      BY <1>6, <1>15, <2>2 DEF UploadInv, FaultsCounted
  <2> QED
      BY <1>4, <2>1, <2>3 DEF FaultsCounted, PageNumber, Last
<1>19. NoneYet'
  <2> SUFFICES ASSUME odd' = 0, ~told'
               PROVE  ~last_page' /\ (misled \/ (page_error + resend_num <= faults' /\ resend_num <= page_error))
      BY <1>1 DEF NoneYet
  <2>1. ~last_page' /\ ~told /\ odd = 0
      BY <1>6, <1>7, <1>8
  <2>2. misled \/ (page_error + resend_num <= faults /\ resend_num <= page_error)
      BY <2>1 DEF UploadInv, NoneYet
  <2>3. page_error \in Nat /\ resend_num \in Nat /\ faults \in Nat
      BY Limited DEF UploadInv, TypeOK, FaultsCounted
  <2> QED
      BY <1>6, <2>1, <2>2, <2>3
<1>20. VerdictsOnly'
    BY <1>2, <1>4, <1>8 DEF VerdictsOnly, Deciding, Resending
<1>21. RoundsCost'
  <2> SUFFICES ASSUME HasRoom, odd' = 0, last_page', frame'.result = "imperfect" PROVE 0 < faults'
      BY <1>1, <1>2 DEF RoundsCost, Resending
  <2>1. CASE faults' = 0
    <3>1. faults' = faults
        BY <1>6, <2>1 DEF UploadInv, FaultsCounted
    <3>2. \A p \in PageNumber : Before(p)'
        BY <1>4, Numbers DEF Before
    <3>3. Complete'
        BY <1>18, <2>1, <3>2 DEF FaultsCounted, Complete, PageNumber, Last
    <3> QED
        BY <1>8, <3>1, <3>3
  <2> QED
      BY <1>6, <2>1
<1>22. FewAreNoHarm'
    BY <1>2, <1>4 DEF FewAreNoHarm
<1> QED
    BY <1>6, <1>9, <1>10, <1>11, <1>12, <1>13, <1>14, <1>16, <1>17, <1>18, <1>19, <1>20, <1>21, <1>22 DEF UploadInv

LEMMA PageFailedKeeps == ASSUME UploadInv, PageFailed PROVE UploadInv'
<1>1. /\ pc = "page" /\ page_sum > 0 /\ last_page' = (page_sum = 1)
      /\ page_error' = page_error + 1 /\ rsend_cnt' = 0
      /\ UNCHANGED <<send_last_cnt, resend_num, error, index, excused, misled>>
    BY DEF PageFailed, historyVars
<1>2. Unanswered(Last) \/ Refused
    BY DEF PageFailed
<1>3. /\ faults' = faults + 1 /\ faults' \in Nat /\ faults' > 0 /\ send_result' = -1 /\ odd' = odd /\ frame' = frame /\ told' = told
      /\ taken \subseteq taken' /\ taken' \subseteq taken \cup {Last}
      /\ received \subseteq received' /\ received' \subseteq taken'
  <2>1. faults \in Nat /\ received \subseteq taken
      BY DEF UploadInv, TypeOK, FaultsCounted
  <2>2. CASE Unanswered(Last)
      BY <2>1, <2>2, UnansweredIs
  <2>3. CASE Refused
      BY <2>1, <2>3, RefusedIs
  <2> QED
      BY <1>2, <2>2, <2>3
<1>4. /\ index = 0 /\ send_last_cnt = 0 /\ last_page' \in BOOLEAN /\ page_error < ErrorMax /\ page_error \in Nat
      /\ resend_num \in Nat /\ resend_num <= ResendMax /\ faults \in Nat /\ odd \in Nat /\ error \in Nat
      /\ page_error <= faults /\ error <= faults /\ frame \in Frame
    BY <1>1, Limited DEF UploadInv, Limits, TypeOK, FaultsCounted
<1>5. page_sum \in Nat /\ cur_page \in Nat /\ (HasRoom => page_sum <= Room(page_error)) /\ Room(page_error) \in Nat
      /\ page_sum \in Byte /\ cur_page \in Byte
    BY <1>1, Sums, Numbers
<1>6. \/ page_error' >= ErrorMax /\ page_sum' = page_sum - 1 /\ cur_page' = Up(cur_page) /\ pc' = "failed"
      \/ /\ page_error' < ErrorMax /\ page_sum' = page_sum /\ cur_page' = cur_page
         /\ pc' \in {"check", "verdict", "next"} /\ (pc' = "verdict" => last_page')
    BY DEF PageFailed, AfterPage, AfterCheck
<1>7. page_sum' \in Byte /\ cur_page' \in Byte /\ CountersAgree'
  <2>1. CASE page_sum' = page_sum - 1 /\ cur_page' = Up(cur_page)
      BY <1>1, <2>1, StepsOn
  <2>2. CASE page_sum' = page_sum /\ cur_page' = cur_page
      BY <1>5, <2>2 DEF UploadInv, CountersAgree
  <2> QED
      BY <1>6, <2>1, <2>2
<1>8. TypeOK'
  <2>1. taken' \subseteq Byte
      BY <1>3, Numbers DEF UploadInv, TypeOK
  <2>3. rsend_cnt' \in 0..RoundMax + 1 /\ page_error' \in 0..ErrorMax
      BY <1>1, <1>4, Limited
  <2>4. pc' \in {"check", "verdict", "next", "failed"}
      BY <1>6
  <2> QED
      BY <1>1, <1>3, <1>4, <1>7, <2>1, <2>3, <2>4 DEF UploadInv, TypeOK
<1>9. Limits' /\ WithinList'
    BY <1>1, <1>4, <1>6, Limited DEF Limits, WithinList, Deciding, Resending
<1>10. Unwrapped'
    BY <1>1, <1>4 DEF Unwrapped
<1>11. RoomLeft'
  <2>1. Room(page_error + 1) = Room(page_error) + CheckEvery /\ Room(page_error)' = Room(page_error + 1)
      BY <1>1, <1>4, Rooms DEF Room
  <2>2. HasRoom => /\ page_sum <= Room(page_error + 1)
                   /\ page_sum + (LastMax - 0) <= Room(page_error + 1)
      BY <1>1, <1>5, <2>1, Limited
  <2>3. last_page' => page_sum <= 0 + 1 /\ page_sum <= LastMax + 1
    <3>1. last_page' => page_sum = 1
        BY <1>1, Zenon
    <3>2. 1 <= 0 + 1 /\ 1 <= LastMax + 1
        BY Limited
    <3> QED
        BY <3>1, <3>2, Zenon
  <2>4. pc' # "failed" => page_sum' = page_sum /\ Again' = 1 /\ send_last_cnt' = 0
      BY <1>1, <1>4, <1>6 DEF Again
  <2> QED
      BY <2>1, <2>2, <2>3, <2>4 DEF RoomLeft
<1>12. LastOnly'
    BY <1>1, <1>6 DEF LastOnly, Deciding
<1>13. AllSent'
  <2>1. pc' # "failed" => \A p \in PageNumber : Before(p)' <=> Before(p)
      BY <1>6 DEF Before
  <2>2. HasRoom => \A p \in PageNumber : Before(p) => p \in taken'
      BY <1>1, <1>3 DEF UploadInv, AllSent
  <2> QED
      BY <2>1, <2>2 DEF AllSent, PageNumber, Last
<1>14. OkIsTrue'
    BY <1>1, <1>6 DEF OkIsTrue, Deciding
<1>15. AllNamed'
    BY <1>1, <1>3, NamedStill
<1>16. FaultsCounted'
    BY <1>1, <1>3, <1>4 DEF FaultsCounted
<1>17. NoneYet'
  <2> SUFFICES ASSUME odd = 0, ~told, ~misled
               PROVE  (page_error + 1) + resend_num <= faults + 1 /\ resend_num < page_error + 1
    <3>1. resend_num < page_error + 1 => resend_num <= page_error + 1
        BY <1>4
    <3> QED
        BY <1>1, <1>3, <3>1 DEF NoneYet
  <2>1. page_error + resend_num <= faults /\ resend_num <= page_error
      BY DEF UploadInv, NoneYet
  <2> QED
      BY <1>4, <2>1
<1>18. VerdictsOnly'
  <2>1. pc' \notin Resending /\ (pc' \in Deciding \cup {"check"} => page_sum' # 0)
      BY <1>1, <1>6 DEF Deciding, Resending
  <2> QED
      BY <2>1 DEF VerdictsOnly
<1>19. RoundsCost'
    BY <1>1, <1>3, <1>6 DEF RoundsCost, Resending
<1>20. FewAreNoHarm'
  <2>1. page_error' >= ErrorMax => ~(faults' < ErrorMax)
      BY <1>1, <1>3, <1>4, Limited
  <2> QED
      BY <1>1, <1>6, <2>1 DEF FewAreNoHarm, Few
<1> QED
    BY <1>7, <1>8, <1>9, <1>10, <1>11, <1>12, <1>13, <1>14, <1>15, <1>16, <1>17, <1>18, <1>19, <1>20 DEF UploadInv

LEMMA FinishedKeeps == ASSUME UploadInv, Finished PROVE UploadInv'
<1>1. /\ pc = "page" /\ page_sum = 0 /\ pc' = "finished"
      /\ UNCHANGED <<page_sum, cur_page, page_error, send_last_cnt, resend_num, rsend_cnt, error, index,
                     last_page, frame, told, send_result, taken, received, faults, odd, excused, misled>>
    BY DEF Finished, counterVars, networkVars, frameVars, historyVars
<1>2. TypeOK' /\ Limits' /\ CountersAgree' /\ Unwrapped' /\ LastOnly' /\ WithinList'
  <2>1. TypeOK'
      BY <1>1 DEF UploadInv, TypeOK
  <2>2. Limits' /\ LastOnly' /\ WithinList'
      BY <1>1 DEF UploadInv, Limits, LastOnly, WithinList, Deciding, Resending
  <2>3. CountersAgree' /\ Unwrapped'
      BY <1>1 DEF UploadInv, CountersAgree, Unwrapped, PageNumber, Last
  <2> QED
      BY <2>1, <2>2, <2>3
<1>3. RoomLeft'
    BY <1>1 DEF UploadInv, RoomLeft, Room, Deciding
<1>4. AllSent' /\ FaultsCounted'
  <2>1. \A p \in PageNumber : Before(p)' <=> Before(p)
      BY <1>1 DEF Before
  <2>2. AllSent'
      BY <1>1, <2>1 DEF UploadInv, AllSent, PageNumber, Last
  <2>3. FaultsCounted'
      BY <1>1, <2>1 DEF UploadInv, FaultsCounted, PageNumber, Last
  <2> QED
      BY <2>2, <2>3
<1>5. OkIsTrue'
    BY <1>1 DEF UploadInv, OkIsTrue, Complete, Deciding, PageNumber, Last
<1>6. AllNamed'
    BY <1>1, NamedStill
<1>7. NoneYet' /\ VerdictsOnly' /\ RoundsCost'
    BY <1>1 DEF UploadInv, NoneYet, VerdictsOnly, RoundsCost, Deciding, Resending
<1>8. FewAreNoHarm'
    BY <1>1 DEF UploadInv, FewAreNoHarm, Few, Complete, PageNumber, Last
<1> QED
    BY <1>2, <1>3, <1>4, <1>5, <1>6, <1>7, <1>8 DEF UploadInv

-----------------------------------------------------------------------------
(* The server is asked in between *)

(* All pages are there if nothing went wrong up to the last one. *)
LEMMA NothingMissing ==
    ASSUME UploadInv, HasRoom, faults = 0, page_sum = 0, received \subseteq received'
    PROVE  Complete'
<1>1. \A p \in PageNumber : Before(p)
    BY Numbers DEF Before
<1>2. \A p \in PageNumber : p \in received
    BY <1>1 DEF UploadInv, FaultsCounted
<1> QED
    BY <1>2 DEF Complete, PageNumber, Last

(* What an exchange leaves alone *)
LEMMA BeforeSame == ASSUME page_sum' = page_sum PROVE \A p \in PageNumber : Before(p)' <=> Before(p)
    BY DEF Before

LEMMA CheckAnsweredKeeps == ASSUME UploadInv, CheckAnswered PROVE UploadInv'
<1>1. /\ pc = "check" /\ Answered(Last) /\ send_last_cnt' = 0
      /\ UNCHANGED <<page_sum, cur_page, page_error, resend_num, rsend_cnt, error, index, last_page, excused, misled>>
    BY DEF CheckAnswered, historyVars
<1>2. pc' \in {"verdict", "next"} /\ (pc' = "verdict" => last_page) /\ (pc' = "next" => ~last_page)
    BY DEF CheckAnswered, AfterCheck
<1>3. /\ taken' = taken \cup {Last} /\ received' = received \cup {Last} /\ send_result' = 1
      /\ frame' \in Frame /\ told' \in BOOLEAN /\ AllNamed'
      /\ told' /\ frame'.result = "ok" => Complete'
      /\ faults' \in Nat /\ odd' \in Nat /\ faults <= faults'
      /\ odd' = 0 => odd = 0 /\ told'
      /\ told' /\ Complete' /\ faults' = faults => frame'.result = "ok"
    BY <1>1, AnsweredIs
<1>4. /\ index = 0 /\ rsend_cnt = 0 /\ send_last_cnt \in Nat /\ send_last_cnt <= LastMax
      /\ page_error <= faults /\ error <= faults /\ page_error \in Nat /\ error \in Nat /\ faults \in Nat
      /\ page_sum \in Nat
    BY <1>1, Limited DEF UploadInv, Limits, TypeOK, FaultsCounted, Byte
<1>5. TypeOK'
  <2>1. taken' \subseteq Byte /\ received' \subseteq taken'
      BY <1>3, Numbers DEF UploadInv, TypeOK
  <2>3. send_last_cnt' \in 0..LastMax
      BY <1>1, Limited
  <2> QED
      BY <1>1, <1>2, <1>3, <2>1, <2>3 DEF UploadInv, TypeOK
<1>6. Limits' /\ WithinList'
    BY <1>1, <1>2, <1>4, Limited DEF UploadInv, Limits, WithinList, Deciding, Resending
<1>7. CountersAgree'
    BY <1>1 DEF UploadInv, CountersAgree
<1>8. Unwrapped'
    BY <1>1, <1>2, <1>3, Numbers DEF UploadInv, Unwrapped, PageNumber, Last
<1>9. RoomLeft'
  <2>1. HasRoom => page_sum <= Room(page_error) /\ (last_page => page_sum <= send_last_cnt + Again)
      BY <1>1 DEF UploadInv, RoomLeft
  <2>2. Again \in Nat /\ Again' = Again /\ Room(page_error)' = Room(page_error)
      BY <1>1 DEF Again, Room
  <2>3. HasRoom /\ last_page => page_sum <= LastMax + Again
      BY <1>4, <2>1, <2>2, Limited
  <2> QED
      BY <1>1, <1>2, <2>1, <2>2, <2>3 DEF RoomLeft, Deciding
<1>10. LastOnly'
    BY <1>1, <1>2 DEF LastOnly, Deciding
<1>11. AllSent'
    BY <1>1, <1>3, BeforeSame DEF UploadInv, AllSent, PageNumber, Last
<1>12. HasRoom => last_page \/ page_sum # 0
    BY <1>1 DEF UploadInv, LastOnly
<1>13. OkIsTrue'
    BY <1>1, <1>2, <1>3, <1>12 DEF OkIsTrue, Deciding
<1>14. FaultsCounted'
  <2>1. faults' = 0 => faults = 0
      BY <1>3, <1>4
  <2>2. page_error' <= faults' /\ send_last_cnt' <= faults' /\ error' <= faults'
      BY <1>1, <1>3, <1>4
  <2>3. HasRoom /\ faults' = 0 => \A p \in PageNumber : Before(p)' => p \in received'
      BY <1>1, <1>3, <2>1, BeforeSame DEF UploadInv, FaultsCounted
  <2>4. HasRoom /\ faults' = 0 /\ last_page' => page_sum' = 0
      BY <1>1, <2>1 DEF UploadInv, FaultsCounted
  <2> QED
      BY <1>3, <2>2, <2>3, <2>4 DEF FaultsCounted, PageNumber, Last
<1>15. NoneYet'
    BY <1>3 DEF NoneYet
<1>16. VerdictsOnly'
    BY <1>2, <1>3 DEF VerdictsOnly, Resending
<1>17. RoundsCost'
  <2>1. ASSUME HasRoom, odd' = 0, last_page', frame'.result = "imperfect" PROVE rsend_cnt' < faults'
    <3>1. CASE faults' = 0
      <4>1. faults = 0 /\ page_sum = 0
          BY <1>1, <1>3, <1>4, <2>1, <3>1 DEF UploadInv, FaultsCounted
      <4>2. Complete'
          BY <1>3, <2>1, <4>1, NothingMissing
      <4> QED
          BY <1>3, <2>1, <3>1, <4>1, <4>2
    <3> QED
        BY <1>1, <1>3, <1>4, <3>1
  <2> QED
      BY <1>2, <2>1 DEF RoundsCost, Resending
<1>18. FewAreNoHarm'
    BY <1>1, <1>2, <1>12 DEF FewAreNoHarm, Few
<1> QED
    BY <1>3, <1>5, <1>6, <1>7, <1>8, <1>9, <1>10, <1>11, <1>13, <1>14, <1>15, <1>16, <1>17, <1>18 DEF UploadInv

LEMMA CheckFailedKeeps == ASSUME UploadInv, CheckFailed PROVE UploadInv'
<1>1. /\ pc = "check" /\ Unanswered(Last)
      /\ UNCHANGED <<page_error, resend_num, rsend_cnt, error, index, last_page, excused, misled>>
    BY DEF CheckFailed, historyVars
<1>2. /\ faults' = faults + 1 /\ faults' \in Nat /\ send_result' = -1 /\ odd' = odd /\ frame' = frame /\ told' = told
      /\ taken \subseteq taken' /\ taken' \subseteq taken \cup {Last}
      /\ received \subseteq received' /\ received' \subseteq taken'
    BY <1>1, UnansweredIs
<1>3. /\ index = 0 /\ rsend_cnt = 0 /\ send_last_cnt \in Nat /\ send_last_cnt <= LastMax
      /\ page_error <= faults /\ error <= faults /\ page_error \in Nat /\ error \in Nat /\ faults \in Nat
      /\ send_last_cnt <= faults /\ page_sum \in Nat /\ resend_num \in Nat
    BY <1>1, Limited DEF UploadInv, Limits, TypeOK, FaultsCounted, Byte
<1>4. \/ /\ send_last_cnt < LastMax /\ pc' = "check" /\ send_last_cnt' = send_last_cnt + 1
         /\ page_sum' = Up(page_sum) /\ cur_page' = Down(cur_page)
      \/ /\ send_last_cnt >= LastMax /\ pc' = "failed"
         /\ UNCHANGED <<page_sum, cur_page, send_last_cnt>>
    BY <1>1 DEF CheckFailed
<1>5. taken' \subseteq Byte
    BY <1>2, Numbers DEF UploadInv, TypeOK
<1>6. AllNamed'
    BY <1>1, <1>2, NamedStill
<1>7. NoneYet'
  <2>1. odd = 0 /\ ~told =>
          misled \/ (page_error + resend_num <= faults + 1 /\ resend_num <= page_error)
      BY <1>3 DEF UploadInv, NoneYet
  <2> QED
      BY <1>1, <1>2, <1>4, <2>1 DEF UploadInv, NoneYet
<1>8. CASE /\ send_last_cnt < LastMax /\ pc' = "check" /\ send_last_cnt' = send_last_cnt + 1
           /\ page_sum' = Up(page_sum) /\ cur_page' = Down(cur_page)
  <2>1. Room(page_error) \in Nat /\ (HasRoom => page_sum + (LastMax - send_last_cnt) <= Room(page_error))
      BY <1>1, Sums DEF UploadInv, RoomLeft
  <2>2. HasRoom => page_sum + 1 <= Room(page_error) /\ page_sum + 1 < Wrap
      BY <1>1, <1>3, <1>8, <2>1, Sums, Limited, Numbers
  <2>3. /\ page_sum' \in Byte /\ cur_page' \in Byte /\ CountersAgree'
        /\ page_sum + 1 < Wrap => page_sum' = page_sum + 1
        /\ cur_page > 0 => cur_page' = cur_page - 1
      BY <1>1, <1>8, StepsBack
  <2>4. TypeOK'
    <3>1. send_last_cnt' \in 0..LastMax
        BY <1>3, <1>8, Limited
    <3> QED
        BY <1>1, <1>2, <1>5, <1>8, <2>3, <3>1 DEF UploadInv, TypeOK
  <2>5. Limits' /\ WithinList'
      BY <1>1, <1>8 DEF UploadInv, Limits, WithinList, Deciding, Resending
  <2>6. Unwrapped'
    <3>1. ASSUME page_error = 0, resend_num = 0
          PROVE  /\ cur_page' + page_sum' = Pages /\ cur_page' + send_last_cnt' >= CheckEvery
                 /\ misled \/ taken' \subseteq PageNumber
      <4>1. /\ cur_page + page_sum = Pages /\ cur_page + send_last_cnt >= CheckEvery
            /\ misled \/ taken \subseteq PageNumber
          BY <1>1, <3>1 DEF UploadInv, Unwrapped
      <4>2. cur_page \in Nat /\ cur_page > 0
          BY <1>1, <1>3, <1>8, <4>1, Sums, Limited
      <4>3. cur_page' = cur_page - 1 /\ page_sum' = page_sum + 1
          BY <1>3, <2>3, <4>1, <4>2, Numbers
      <4>4. cur_page' + page_sum' = Pages /\ cur_page' + send_last_cnt' >= CheckEvery
          BY <1>3, <1>8, <4>1, <4>2, <4>3, Limited
      <4> QED
          BY <1>2, <4>1, <4>4, Numbers
    <3> QED
        BY <1>1, <3>1 DEF Unwrapped, PageNumber, Last
  <2>7. RoomLeft'
    <3>1. Again \in Nat /\ Again' = Again /\ Room(page_error)' = Room(page_error)
        BY <1>1 DEF Again, Room
    <3>2. HasRoom => page_sum' <= Room(page_error) /\ page_sum' + (LastMax - send_last_cnt') <= Room(page_error)
        BY <1>3, <1>8, <2>1, <2>2, <2>3, Limited
    <3>3. HasRoom /\ last_page => page_sum <= send_last_cnt + Again
        BY <1>1 DEF UploadInv, RoomLeft
    <3>4. HasRoom /\ last_page => page_sum' <= send_last_cnt' + Again
        BY <1>3, <1>8, <2>2, <2>3, <3>1, <3>3
    <3> QED
        BY <1>1, <1>8, <3>1, <3>2, <3>4 DEF RoomLeft, Deciding
  <2>8. HasRoom => page_sum' = page_sum + 1 /\ page_sum' # 0 /\ page_sum' > 0
      BY <1>3, <2>2, <2>3
  <2>9. LastOnly' /\ OkIsTrue'
      BY <1>8, <2>8 DEF LastOnly, OkIsTrue, Deciding
  <2>10. AllSent'
    <3>1. HasRoom => \A p \in PageNumber : Before(p)' => Before(p)
        BY <1>3, <2>8, Numbers DEF Before
    <3> QED
        BY <1>1, <1>2, <3>1 DEF UploadInv, AllSent, PageNumber, Last
  <2>11. FaultsCounted'
    <3>1. page_error' <= faults' /\ send_last_cnt' <= faults' /\ error' <= faults' /\ faults' # 0
        BY <1>1, <1>2, <1>3, <1>8
    <3> QED
        BY <1>2, <3>1 DEF UploadInv, FaultsCounted
  <2>12. VerdictsOnly'
      BY <1>2, <1>8, <2>8 DEF UploadInv, VerdictsOnly, Resending
  <2>13. RoundsCost'
    <3>1. rsend_cnt' < faults'
        BY <1>1, <1>2, <1>3
    <3> QED
        BY <1>8, <3>1 DEF RoundsCost, Resending
  <2>14. FewAreNoHarm'
      BY <1>8 DEF FewAreNoHarm
  <2> QED
      BY <1>6, <1>7, <2>3, <2>4, <2>5, <2>6, <2>7, <2>9, <2>10, <2>11, <2>12, <2>13, <2>14 DEF UploadInv
<1>9. CASE send_last_cnt >= LastMax /\ pc' = "failed" /\ UNCHANGED <<page_sum, cur_page, send_last_cnt>>
  <2>1. TypeOK'
      BY <1>1, <1>2, <1>5, <1>9 DEF UploadInv, TypeOK
  <2>2. Limits' /\ LastOnly' /\ RoomLeft' /\ AllSent' /\ OkIsTrue' /\ WithinList'
      BY <1>1, <1>3, <1>9 DEF Limits, LastOnly, WithinList, RoomLeft, AllSent, OkIsTrue, Deciding, Resending
  <2>3. CountersAgree'
      BY <1>9 DEF UploadInv, CountersAgree
  <2>4. Unwrapped'
      BY <1>1, <1>2, <1>9, Numbers DEF UploadInv, Unwrapped, PageNumber, Last
  <2>5. FaultsCounted'
    <3>1. page_error' <= faults' /\ send_last_cnt' <= faults' /\ error' <= faults' /\ faults' # 0
        BY <1>1, <1>2, <1>3, <1>9
    <3> QED
        BY <1>2, <3>1 DEF UploadInv, FaultsCounted
  <2>6. VerdictsOnly' /\ RoundsCost'
      BY <1>2, <1>9 DEF UploadInv, VerdictsOnly, RoundsCost, Deciding, Resending
  <2>7. FewAreNoHarm'
    <3>1. ~(faults' < ErrorMax)
        BY <1>2, <1>3, <1>9, Limited, TriesAssumption
    <3> QED
        BY <3>1 DEF FewAreNoHarm, Few
  <2> QED
      BY <1>6, <1>7, <2>1, <2>2, <2>3, <2>4, <2>5, <2>6, <2>7 DEF UploadInv
<1> QED
    BY <1>4, <1>8, <1>9

-----------------------------------------------------------------------------
(* The verdict is looked at *)

(* The counters of pages are left alone. *)
LEMMA Aside ==
    ASSUME UploadInv, pc \in Deciding, pc' \in Deciding \cup {"next", "failed"},
           UNCHANGED <<page_sum, cur_page, page_error, send_last_cnt, resend_num, last_page>>,
           misled => misled', taken \subseteq taken', misled' \/ taken' \subseteq taken \cup PageNumber
    PROVE  /\ CountersAgree' /\ Unwrapped' /\ RoomLeft' /\ LastOnly' /\ AllSent'
<1>1. pc \notin {"check", "failed"} /\ pc' \notin {"check", "finished"}
    BY DEF Deciding
<1>2. CountersAgree'
    BY DEF UploadInv, CountersAgree
<1>3. Unwrapped'
    BY <1>1 DEF UploadInv, Unwrapped, PageNumber, Last
<1>4. RoomLeft'
  <2>1. Again' = Again /\ Room(page_error)' = Room(page_error)
      BY DEF Again, Room
  <2> QED
      BY <1>1, <2>1 DEF UploadInv, RoomLeft
<1>5. LastOnly'
    BY <1>1 DEF UploadInv, LastOnly
<1>6. AllSent'
    BY <1>1, BeforeSame DEF UploadInv, AllSent, PageNumber, Last
<1> QED
    BY <1>2, <1>3, <1>4, <1>5, <1>6

LEMMA FaultsAside ==
    ASSUME UploadInv, pc \in Deciding, faults' \in Nat, odd' \in Nat, faults <= faults',
           UNCHANGED <<page_sum, page_error, send_last_cnt, last_page>>,
           error' \in Nat, error' <= faults', received \subseteq received'
    PROVE  FaultsCounted'
<1>1. /\ page_error <= faults /\ send_last_cnt <= faults /\ faults \in Nat
      /\ page_error \in Nat /\ send_last_cnt \in Nat
    BY Limited DEF UploadInv, TypeOK, FaultsCounted
<1>2. page_error' <= faults' /\ send_last_cnt' <= faults'
    BY <1>1
<1>3. faults' = 0 => faults = 0
    BY <1>1
<1>4. HasRoom /\ faults' = 0 => \A p \in PageNumber : Before(p)' => p \in received'
    BY <1>3, BeforeSame DEF UploadInv, FaultsCounted
<1>5. HasRoom /\ faults' = 0 /\ last_page' => page_sum' = 0
    BY <1>3 DEF UploadInv, FaultsCounted
<1> QED
    BY <1>2, <1>4, <1>5 DEF FaultsCounted, PageNumber, Last

LEMMA VerdictReadKeeps == ASSUME UploadInv, VerdictRead PROVE UploadInv'
<1>1. /\ pc = "verdict"
      /\ UNCHANGED <<page_sum, cur_page, page_error, send_last_cnt, resend_num, rsend_cnt, last_page, frame, told,
                     taken, received, faults, odd>>
    BY DEF VerdictRead, networkVars, frameVars
<1>2. /\ frame \in Frame /\ told \in BOOLEAN /\ misled \in BOOLEAN /\ excused \in BOOLEAN /\ index = 0 /\ rsend_cnt <= RoundMax /\ last_page
      /\ faults \in Nat /\ odd \in Nat /\ error \in Nat /\ error <= faults /\ send_last_cnt = 0
    BY <1>1, Limited DEF UploadInv, TypeOK, Limits, LastOnly, FaultsCounted, Deciding
<1>3. \/ /\ Says(frame) = 1 /\ pc' = "next" /\ send_result' = 1
         /\ excused' = (excused \/ ~told) /\ UNCHANGED <<index, error, misled>>
      \/ /\ Says(frame) = -2 /\ pc' = "resend" /\ index' = 0 /\ error' = 0
         /\ misled' = (misled \/ ~told) /\ UNCHANGED <<send_result, excused>>
      \/ /\ Says(frame) \in {-3, -4} /\ pc' = "failed" /\ misled' = (misled \/ ~told)
         /\ UNCHANGED <<index, error, send_result, excused>>
    BY DEF VerdictRead
<1>4. pc' \in {"next", "resend", "failed"} /\ index' = 0 /\ error' \in Nat /\ error' <= faults /\ (error' = error \/ error' = 0)
    BY <1>2, <1>3
<1>5. misled' \in BOOLEAN /\ excused' \in BOOLEAN /\ (misled => misled') /\ (pc' # "next" => misled' \/ told)
    BY <1>2, <1>3, Zenon
<1>6. CountersAgree' /\ Unwrapped' /\ RoomLeft' /\ LastOnly' /\ AllSent'
    BY <1>1, <1>4, <1>5, Aside DEF Deciding
<1>7. FaultsCounted' /\ AllNamed'
    BY <1>1, <1>2, <1>4, <1>5, FaultsAside, NamedStill DEF Deciding
<1>8. TypeOK'
  <2>1. index' \in Byte
      BY <1>4, Numbers
  <2>2. error' \in 0..GiveUpMax
      BY <1>4, Limited DEF UploadInv, TypeOK
  <2>3. send_result' \in {1, -1}
      BY <1>3 DEF UploadInv, TypeOK
  <2> QED
      BY <1>1, <1>4, <1>5, <2>1, <2>2, <2>3 DEF UploadInv, TypeOK
<1>9. Limits' /\ WithinList'
  <2>1. Limits'
      BY <1>1, <1>2, <1>3, <1>4, Limited DEF UploadInv, Limits, Deciding, Resending
  <2>2. Len(frame.lost) \in Nat
      BY <1>2, FrameIs
  <2> QED
      BY <1>1, <1>4, <2>1, <2>2 DEF WithinList
<1>10. NoneYet'
    BY <1>1, <1>4, <1>5 DEF UploadInv, NoneYet
<1>11. Complete' <=> Complete
    BY <1>1 DEF Complete, PageNumber, Last
<1>12. CASE /\ Says(frame) = 1 /\ pc' = "next" /\ send_result' = 1
            /\ excused' = (excused \/ ~told) /\ misled' = misled
  <2>1. told => frame.result = "ok"
      BY <1>2, <1>12, SaysIs DEF UploadInv, AllNamed
  <2>2. HasRoom /\ page_sum = 0 /\ told => Complete
      BY <1>1, <2>1 DEF UploadInv, OkIsTrue, Deciding
  <2>3. ~excused' => told
      BY <1>12, Zenon
  <2>4. OkIsTrue'
      BY <1>1, <1>11, <1>12, <2>2, <2>3 DEF OkIsTrue, Deciding
  <2>5. VerdictsOnly' /\ RoundsCost'
      BY <1>1, <1>12 DEF VerdictsOnly, RoundsCost, Deciding, Resending
  <2>6. FewAreNoHarm'
    <3>1. HasRoom /\ odd = 0 /\ ~misled /\ page_sum = 0 => told
        BY <1>1 DEF UploadInv, VerdictsOnly, Deciding
    <3> QED
        BY <1>1, <1>11, <1>12, <2>2, <3>1 DEF FewAreNoHarm, Few
  <2> QED
      BY <1>6, <1>7, <1>8, <1>9, <1>10, <2>4, <2>5, <2>6 DEF UploadInv
<1>13. CASE Says(frame) = -2 /\ pc' = "resend"
  <2>1. frame.result = "imperfect"
      BY <1>2, <1>13, SaysIs
  <2>2. OkIsTrue' /\ FewAreNoHarm'
      BY <1>1, <1>13, <2>1 DEF OkIsTrue, FewAreNoHarm, Deciding
  <2>3. VerdictsOnly'
      BY <1>1, <1>5, <1>13 DEF VerdictsOnly
  <2>4. RoundsCost'
    <3>1. \A i \in 1..index' : frame'.lost[i] \in received'
        BY <1>4
    <3>2. ~misled' => ~misled /\ told
        BY <1>5, <1>13
    <3>3. HasRoom /\ odd = 0 /\ ~misled' => rsend_cnt < faults
        BY <1>1, <1>2, <2>1, <3>2 DEF UploadInv, RoundsCost
    <3> QED
        BY <1>1, <1>13, <3>1, <3>3 DEF RoundsCost, Resending
  <2> QED
      BY <1>6, <1>7, <1>8, <1>9, <1>10, <2>2, <2>3, <2>4 DEF UploadInv
<1>14. CASE Says(frame) \in {-3, -4} /\ pc' = "failed"
  <2>1. ~told
      BY <1>2, <1>14, SaysIs DEF UploadInv, AllNamed
  <2>2. misled'
      BY <1>5, <1>14, <2>1
  <2>3. OkIsTrue' /\ VerdictsOnly' /\ RoundsCost' /\ FewAreNoHarm'
      BY <1>14, <2>2 DEF OkIsTrue, VerdictsOnly, RoundsCost, FewAreNoHarm, Few, Deciding
  <2> QED
      BY <1>6, <1>7, <1>8, <1>9, <1>10, <2>3 DEF UploadInv
<1> QED
    BY <1>3, <1>12, <1>13, <1>14

LEMMA NoVerdictKeeps == ASSUME UploadInv, NoVerdict PROVE UploadInv'
<1>1. /\ pc = "verdict" /\ Says(frame) = -1 /\ page_sum' = Up(page_sum) /\ cur_page' = Down(cur_page)
      /\ resend_num' = resend_num + 1 /\ (Answered(Last) \/ Unanswered(Last))
      /\ pc' = IF resend_num' > ResendMax THEN "failed" ELSE "next"
      /\ UNCHANGED <<page_error, send_last_cnt, rsend_cnt, error, index, last_page, excused, misled>>
    BY DEF NoVerdict, historyVars
<1>2. /\ frame \in Frame /\ index = 0 /\ send_last_cnt = 0 /\ last_page /\ received \subseteq taken
      /\ faults \in Nat /\ odd \in Nat /\ error \in Nat /\ error <= faults
      /\ page_error \in Nat /\ page_error <= faults /\ resend_num \in Nat /\ resend_num <= ResendMax
      /\ page_sum \in Nat
    BY <1>1, Limited DEF UploadInv, TypeOK, Limits, LastOnly, FaultsCounted, Deciding, Byte
<1>3. HasRoom => page_sum + 1 <= Room(page_error)
  <2> HAVE HasRoom
  <2>1. page_sum <= LastMax + Again
      BY <1>1, <1>2 DEF UploadInv, RoomLeft, Deciding
  <2>2. CASE page_error = 0
    <3>1. Again = 0 /\ Room(0) >= Pages + CheckEvery /\ Room(0) \in Nat
        BY <2>2, Rooms DEF Again
    <3> QED
        BY <1>2, <2>1, <2>2, <3>1, Limited, Numbers
  <2>3. CASE page_error # 0
    <3>1. Again = 1 /\ Room(page_error) >= Pages + CheckEvery + CheckEvery /\ Room(page_error) \in Nat
        BY <1>2, <2>3, Rooms DEF Again
    <3> QED
        BY <1>2, <2>1, <3>1, Limited, Numbers
  <2> QED
      BY <2>2, <2>3
<1>4. /\ page_sum' \in Byte /\ cur_page' \in Byte /\ CountersAgree'
      /\ HasRoom => page_sum' = page_sum + 1 /\ page_sum' # 0
  <2>1. HasRoom => page_sum + 1 < Wrap
      BY <1>1, <1>2, <1>3, Sums, Numbers
  <2>2. /\ page_sum' \in Byte /\ cur_page' \in Byte /\ CountersAgree'
        /\ page_sum + 1 < Wrap => page_sum' = page_sum + 1
      BY <1>1, StepsBack
  <2> QED
      BY <1>2, <2>1, <2>2
<1>5. pc' \in {"failed", "next"} /\ resend_num' # 0
    BY <1>1, <1>2
<1>6. /\ taken \subseteq taken' /\ taken' \subseteq taken \cup {Last}
      /\ received \subseteq received' /\ received' \subseteq taken'
      /\ faults' \in Nat /\ faults <= faults' /\ odd' \in Nat /\ (odd' = 0 => odd = 0)
      /\ frame' \in Frame /\ told' \in BOOLEAN /\ AllNamed' /\ send_result' \in {1, -1}
      /\ odd' = 0 /\ ~told' => ~told /\ faults' = faults + 1
  <2>1. CASE Answered(Last)
      BY <1>2, <2>1, AnsweredIs
  <2>2. CASE Unanswered(Last)
    <3>1. /\ faults' = faults + 1 /\ faults' \in Nat /\ send_result' = -1 /\ odd' = odd /\ frame' = frame
          /\ told' = told /\ taken \subseteq taken' /\ taken' \subseteq taken \cup {Last}
          /\ received \subseteq received' /\ received' \subseteq taken'
        BY <2>2, UnansweredIs
    <3>2. AllNamed' /\ faults <= faults'
        BY <1>1, <1>2, <3>1, NamedStill
    <3>3. told \in BOOLEAN
        BY DEF UploadInv, TypeOK
    <3> QED
        BY <1>2, <3>1, <3>2, <3>3
  <2> QED
      BY <1>1, <2>1, <2>2
<1>7. TypeOK'
  <2>1. taken' \subseteq Byte
      BY <1>6, Numbers DEF UploadInv, TypeOK
  <2>3. resend_num' \in 0..ResendMax + 1
      BY <1>1, <1>2, Limited
  <2> QED
      BY <1>1, <1>4, <1>5, <1>6, <2>1, <2>3 DEF UploadInv, TypeOK
<1>8. Limits'
    BY <1>1, <1>2, Limited DEF UploadInv, Limits, Deciding, Resending
<1>9. Unwrapped' /\ LastOnly' /\ OkIsTrue' /\ RoundsCost' /\ WithinList'
    BY <1>4, <1>5 DEF Unwrapped, WithinList, LastOnly, OkIsTrue, RoundsCost, Deciding, Resending
<1>10. RoomLeft'
  <2>1. Room(page_error)' = Room(page_error)
      BY <1>1 DEF Room
  <2> QED
      BY <1>3, <1>4, <1>5, <2>1 DEF RoomLeft, Deciding
<1>11. HasRoom => \A p \in PageNumber : Before(p)' => Before(p)
    BY <1>2, <1>4, Numbers DEF Before
<1>12. AllSent'
    BY <1>1, <1>6, <1>11 DEF UploadInv, AllSent, PageNumber, Last
<1>13. FaultsCounted'
  <2>1. page_error' <= faults' /\ send_last_cnt' <= faults' /\ error' <= faults'
      BY <1>1, <1>2, <1>6
  <2>2. faults' = 0 => faults = 0
      BY <1>2, <1>6
  <2>3. HasRoom /\ faults' = 0 => \A p \in PageNumber : Before(p)' => p \in received'
      BY <1>6, <1>11, <2>2 DEF UploadInv, FaultsCounted
  <2> QED
      BY <1>5, <1>6, <2>1, <2>3 DEF FaultsCounted, PageNumber, Last, Deciding
<1>14. ~told
    BY <1>1, <1>2, SaysIs DEF UploadInv, AllNamed
<1>15. odd = 0 /\ ~misled => page_error + resend_num <= faults /\ resend_num < page_error
    BY <1>1, <1>2, <1>14 DEF UploadInv, NoneYet
<1>16. NoneYet'
  <2>1. odd = 0 /\ ~misled =>
          page_error + (resend_num + 1) <= faults + 1 /\ resend_num + 1 <= page_error
      BY <1>2, <1>15
  <2> QED
      BY <1>1, <1>5, <1>6, <2>1 DEF NoneYet
<1>17. VerdictsOnly'
    BY <1>5 DEF VerdictsOnly, Deciding, Resending
<1>18. FewAreNoHarm'
  <2>1. ASSUME odd' = 0, ~misled', faults' < ErrorMax, pc' = "failed" PROVE FALSE
    <3>1. odd = 0 /\ ~misled
        BY <1>1, <1>6, <2>1
    <3>2. page_error + resend_num <= faults /\ resend_num < page_error
        BY <1>15, <3>1
    <3>3. resend_num + 1 > ResendMax
        BY <1>1, <2>1
    <3>4. faults < ErrorMax
        BY <1>2, <1>6, <2>1, Limited
    <3> QED
        BY <1>2, <3>2, <3>3, <3>4, Limited, TriesAssumption
  <2> QED
      BY <1>4, <1>5, <2>1 DEF FewAreNoHarm, Few
<1> QED
    BY <1>4, <1>6, <1>7, <1>8, <1>9, <1>10, <1>12, <1>13, <1>16, <1>17, <1>18 DEF UploadInv

(* What a round of lost pages begins with *)
LEMMA RoundCounts ==
    ASSUME UploadInv, pc \in Deciding
    PROVE  /\ frame \in Frame /\ rsend_cnt \in Nat /\ rsend_cnt <= RoundMax /\ last_page
           /\ faults \in Nat /\ odd \in Nat /\ error \in Nat /\ error <= faults
           /\ told \in BOOLEAN /\ misled \in BOOLEAN /\ excused \in BOOLEAN
           /\ index \in Byte /\ index \in Nat /\ Len(frame.lost) \in Nat
           /\ pc \in {"resend", "look"} /\ ~misled => index <= Len(frame.lost)
           /\ received \subseteq taken /\ taken \subseteq Byte
           /\ pc \in Resending => error < GiveUpMax
           /\ odd = 0 /\ ~misled /\ pc \in Resending => told
           /\ HasRoom /\ odd = 0 /\ ~misled /\ pc \in Resending => rsend_cnt < faults
           /\ told => frame.result \in {"ok", "imperfect"}
<1>1. frame \in Frame /\ index \in Byte /\ told \in BOOLEAN /\ misled \in BOOLEAN /\ excused \in BOOLEAN
    BY DEF UploadInv, TypeOK
<1>2. Len(frame.lost) \in Nat /\ index \in Nat
    BY <1>1, FrameIs, Numbers
<1>3. /\ rsend_cnt \in Nat /\ error \in Nat /\ received \subseteq taken /\ taken \subseteq Byte
    BY Limited DEF UploadInv, TypeOK
<1>4. /\ rsend_cnt <= RoundMax /\ last_page /\ faults \in Nat /\ odd \in Nat /\ error <= faults
      /\ pc \in Resending => error < GiveUpMax
    BY DEF UploadInv, Limits, LastOnly, FaultsCounted
<1>5. /\ odd = 0 /\ ~misled /\ pc \in Resending => told
      /\ HasRoom /\ odd = 0 /\ ~misled /\ pc \in Resending => rsend_cnt < faults
      /\ told => frame.result \in {"ok", "imperfect"}
      /\ pc \in {"resend", "look"} /\ ~misled => index <= Len(frame.lost)
    BY DEF UploadInv, RoundsCost, VerdictsOnly, AllNamed, WithinList
<1> QED
    BY <1>1, <1>2, <1>3, <1>4, <1>5

(* A list of the server names pages before the last one, which need no answer. *)
LEMMA LostPageResentKeeps == ASSUME UploadInv, LostPageResent PROVE UploadInv'
<1>1. /\ pc = "resend" /\ index # Len(frame.lost) /\ index' = Up(index)
      /\ UNCHANGED <<page_sum, cur_page, page_error, send_last_cnt, resend_num, rsend_cnt, error,
                     last_page, excused>>
    BY DEF LostPageResent
<1>2. /\ frame \in Frame /\ rsend_cnt \in Nat /\ rsend_cnt <= RoundMax /\ last_page
      /\ faults \in Nat /\ odd \in Nat /\ error \in Nat /\ error <= faults
      /\ told \in BOOLEAN /\ misled \in BOOLEAN /\ index \in Byte /\ index \in Nat /\ Len(frame.lost) \in Nat
      /\ ~misled => index <= Len(frame.lost)
      /\ received \subseteq taken /\ taken \subseteq Byte /\ error < GiveUpMax
      /\ odd = 0 /\ ~misled => told
      /\ HasRoom /\ odd = 0 /\ ~misled => rsend_cnt < faults
    BY <1>1, RoundCounts DEF Deciding, Resending
<1>3. misled' \in BOOLEAN /\ (misled => misled') /\ (~misled' => told /\ ~misled)
  <2>1. misled' = (misled \/ ~told)
      BY DEF LostPageResent
  <2> QED
      BY <1>2, <2>1, Zenon
<1>4. PICK p \in Byte : /\ Listed(index, p)
                        /\ \/ /\ IF p < Last THEN Taken(p) ELSE Answered(p)
                              /\ pc' = IF index' % CheckEvery = 0 THEN "look" ELSE "resend"
                           \/ (IF p < Last THEN Refused ELSE Unanswered(p)) /\ pc' = "look"
    BY DEF LostPageResent
<1>5. pc' \in {"resend", "look"}
    BY <1>4
<1>6. ~misled' => /\ index < Len(frame.lost) /\ p = frame.lost[index + 1] /\ p < Last /\ p \in PageNumber
  <2> HAVE ~misled'
  <2>1. index < Len(frame.lost)
      BY <1>1, <1>2, <1>3
  <2>2. p = frame.lost[index + 1]
      BY <1>4, <2>1 DEF Listed
  <2>3. index + 1 \in DOMAIN frame.lost
    <3>1. DOMAIN frame.lost = 1..Len(frame.lost)
        BY <1>2, FrameIs
    <3> QED
        BY <1>2, <2>1, <3>1
  <2>4. p \in 0..Last - 1
      BY <1>3, <2>2, <2>3 DEF UploadInv, AllNamed
  <2>5. p \in Nat /\ p < Last /\ p < Pages
      BY <2>4, Numbers
  <2> QED
      BY <2>1, <2>2, <2>5, Numbers
<1>7. /\ taken \subseteq taken' /\ taken' \subseteq taken \cup {p} /\ frame' \in Frame /\ told' \in BOOLEAN
      /\ received \subseteq received' /\ received' \subseteq taken' /\ faults' \in Nat /\ faults <= faults'
      /\ send_result' \in {1, -1} /\ odd' \in Nat /\ (odd' = 0 => odd = 0) /\ AllNamed'
      /\ HasRoom /\ page_sum = 0 /\ told' /\ frame'.result = "ok" => Complete'
      /\ ~misled' => frame' = frame /\ told' = told /\ (faults' = faults => p \in received')
      /\ odd' = 0 /\ ~told' => misled'
  <2>1. Complete => Complete' \/ ~(received \subseteq received')
      BY DEF Complete, PageNumber, Last
  <2>2. HasRoom /\ page_sum = 0 /\ told /\ frame.result = "ok" => Complete
      BY <1>1 DEF UploadInv, OkIsTrue, Deciding
  <2>3. CASE Taken(p)
    <3>1. /\ taken' = taken \cup {p} /\ send_result' = 1 /\ odd' = odd /\ frame' = frame /\ told' = told
          /\ received \subseteq received' /\ received' \subseteq taken' /\ faults' \in Nat /\ faults <= faults'
          /\ faults' = faults => p \in received'
        BY <2>3, TakenIs
    <3>2. AllNamed'
        BY <1>3, <3>1, NamedStill
    <3> QED
        BY <1>2, <1>3, <2>1, <2>2, <3>1, <3>2
  <2>4. CASE ~(p < Last) /\ Answered(p)
    <3>1. misled'
        BY <1>6, <2>4
    <3>2. /\ taken' = taken \cup {p} /\ received' = received \cup {p} /\ send_result' = 1
          /\ frame' \in Frame /\ told' \in BOOLEAN
          /\ p = Last \/ misled' => AllNamed'
          /\ told' /\ frame'.result = "ok" => Complete'
          /\ faults' \in Nat /\ odd' \in Nat /\ faults <= faults'
          /\ odd' = 0 => odd = 0 /\ told'
        BY <2>4, AnsweredIs
    <3> QED
        BY <1>2, <3>1, <3>2
  <2>5. CASE Refused
    <3>1. /\ faults' = faults + 1 /\ faults' \in Nat /\ send_result' = -1
          /\ taken' = taken /\ received' = received /\ odd' = odd /\ frame' = frame /\ told' = told
        BY <2>5, RefusedIs
    <3>2. AllNamed'
        BY <1>3, <3>1, NamedStill
    <3>3. faults <= faults' /\ faults' # faults
        BY <1>2, <3>1
    <3> QED
        BY <1>2, <1>3, <2>1, <2>2, <3>1, <3>2, <3>3
  <2>6. CASE Unanswered(p)
    <3>1. /\ faults' = faults + 1 /\ faults' \in Nat /\ send_result' = -1 /\ odd' = odd /\ frame' = frame
          /\ told' = told /\ taken \subseteq taken' /\ taken' \subseteq taken \cup {p}
          /\ received \subseteq received' /\ received' \subseteq taken'
        BY <2>6, UnansweredIs
    <3>2. AllNamed'
        BY <1>3, <3>1, NamedStill
    <3>3. faults <= faults' /\ faults' # faults
        BY <1>2, <3>1
    <3> QED
        BY <1>2, <1>3, <2>1, <2>2, <3>1, <3>2, <3>3
  <2> QED
      BY <1>4, <2>3, <2>4, <2>5, <2>6
<1>8. index' = (IF index + 1 = Wrap THEN 0 ELSE index + 1) /\ index' \in Byte
    BY <1>1, <1>2, UpIs
<1>9. CountersAgree' /\ Unwrapped' /\ RoomLeft' /\ LastOnly' /\ AllSent'
  <2>1. misled' \/ taken' \subseteq taken \cup PageNumber
      BY <1>6, <1>7
  <2> QED
      BY <1>1, <1>3, <1>5, <1>7, <2>1, Aside DEF Deciding
<1>10. FaultsCounted'
  <2>1. error' \in Nat /\ error' <= faults'
      BY <1>1, <1>2, <1>7
  <2> QED
      BY <1>1, <1>2, <1>7, <2>1, FaultsAside DEF Deciding
<1>11. TypeOK'
  <2>1. taken' \subseteq Byte
      BY <1>2, <1>4, <1>7
  <2> QED
      BY <1>1, <1>3, <1>5, <1>7, <1>8, <2>1 DEF UploadInv, TypeOK
<1>12. Limits' /\ WithinList'
  <2>1. Limits'
      BY <1>1, <1>5 DEF UploadInv, Limits, Deciding, Resending
  <2>2. ~misled' => index' <= Len(frame'.lost)
      BY <1>2, <1>6, <1>7, <1>8
  <2> QED
      BY <2>1, <2>2 DEF WithinList
<1>13. OkIsTrue' /\ FewAreNoHarm'
    BY <1>1, <1>5, <1>7 DEF OkIsTrue, FewAreNoHarm, Deciding
<1>14. NoneYet' /\ VerdictsOnly'
    BY <1>3, <1>5, <1>7 DEF NoneYet, VerdictsOnly
<1>15. RoundsCost'
  <2>1. HasRoom /\ odd' = 0 /\ ~misled' => rsend_cnt' < faults'
      BY <1>1, <1>2, <1>3, <1>7
  <2>2. ASSUME HasRoom, odd' = 0, ~misled', faults' < rsend_cnt' + 2, NEW i \in 1..index'
        PROVE  frame'.lost[i] \in received'
    <3>1. faults' = faults /\ odd = 0 /\ ~misled /\ faults < rsend_cnt + 2
        BY <1>1, <1>2, <1>3, <1>7, <2>2
    <3>2. \A k \in 1..index : frame.lost[k] \in received
        BY <1>1, <2>2, <3>1 DEF UploadInv, RoundsCost
    <3>3. i = index + 1 \/ i \in 1..index
        BY <1>2, <1>8, <2>2
    <3>4. frame' = frame /\ p \in received' /\ p = frame.lost[index + 1]
        BY <1>6, <1>7, <2>2, <3>1
    <3> QED
        BY <1>7, <3>2, <3>3, <3>4
  <2> QED
      BY <1>5, <2>1, <2>2 DEF RoundsCost, Resending
<1> QED
    BY <1>7, <1>9, <1>10, <1>11, <1>12, <1>13, <1>14, <1>15 DEF UploadInv

LEMMA LostPagesLookedAtKeeps == ASSUME UploadInv, LostPagesLookedAt PROVE UploadInv'
<1>1. /\ pc = "look" /\ pc' = "resend" /\ ((Answered(Last) /\ index' = 0) \/ (Unanswered(Last) /\ index' = index))
      /\ UNCHANGED <<page_sum, cur_page, page_error, send_last_cnt, resend_num, rsend_cnt, error,
                     last_page, excused, misled>>
    BY DEF LostPagesLookedAt, historyVars
<1>2. /\ frame \in Frame /\ rsend_cnt \in Nat /\ rsend_cnt <= RoundMax /\ last_page
      /\ faults \in Nat /\ odd \in Nat /\ error \in Nat /\ error <= faults /\ told \in BOOLEAN
      /\ index \in Byte /\ Len(frame.lost) \in Nat /\ (~misled => index <= Len(frame.lost))
      /\ received \subseteq taken /\ taken \subseteq Byte /\ error < GiveUpMax
      /\ odd = 0 /\ ~misled => told
      /\ HasRoom /\ odd = 0 /\ ~misled => rsend_cnt < faults
    BY <1>1, RoundCounts DEF Deciding, Resending
<1>3. /\ taken \subseteq taken' /\ taken' \subseteq taken \cup {Last}
      /\ received \subseteq received' /\ received' \subseteq taken'
      /\ faults' \in Nat /\ faults <= faults' /\ odd' \in Nat /\ (odd' = 0 => odd = 0)
      /\ frame' \in Frame /\ told' \in BOOLEAN /\ AllNamed' /\ send_result' \in {1, -1}
      /\ odd' = 0 /\ ~misled => told'
      /\ odd' = 0 /\ ~told' => ~told
      /\ HasRoom /\ page_sum = 0 /\ told' /\ frame'.result = "ok" => Complete'
      /\ index' \in Byte /\ (~misled => index' <= Len(frame'.lost))
      /\ index' = 0 \/ faults' = faults + 1
  <2>1. CASE Answered(Last) /\ index' = 0
    <3>1. /\ taken' = taken \cup {Last} /\ received' = received \cup {Last} /\ send_result' = 1
          /\ frame' \in Frame /\ told' \in BOOLEAN /\ AllNamed'
          /\ told' /\ frame'.result = "ok" => Complete'
          /\ faults' \in Nat /\ odd' \in Nat /\ faults <= faults'
          /\ odd' = 0 => odd = 0 /\ told'
        BY <2>1, AnsweredIs
    <3>2. Len(frame'.lost) \in Nat
        BY <3>1, FrameIs
    <3>3. index' \in Byte /\ index' <= Len(frame'.lost)
        BY <2>1, <3>2, Numbers
    <3> QED
        BY <1>2, <2>1, <3>1, <3>3
  <2>2. CASE Unanswered(Last) /\ index' = index
    <3>1. /\ faults' = faults + 1 /\ faults' \in Nat /\ send_result' = -1 /\ odd' = odd /\ frame' = frame
          /\ told' = told /\ taken \subseteq taken' /\ taken' \subseteq taken \cup {Last}
          /\ received \subseteq received' /\ received' \subseteq taken'
        BY <2>2, UnansweredIs
    <3>2. AllNamed' /\ faults <= faults'
        BY <1>1, <1>2, <3>1, NamedStill
    <3>3. HasRoom /\ page_sum = 0 /\ told /\ frame.result = "ok" => Complete'
      <4>1. Complete => Complete'
          BY <3>1 DEF Complete, PageNumber, Last
      <4> QED
          BY <1>1, <4>1 DEF UploadInv, OkIsTrue, Deciding
    <3> QED
        BY <1>2, <2>2, <3>1, <3>2, <3>3
  <2> QED
      BY <1>1, <2>1, <2>2
<1>4. CountersAgree' /\ Unwrapped' /\ RoomLeft' /\ LastOnly' /\ AllSent'
    BY <1>1, <1>3, Aside, Numbers DEF Deciding
<1>5. FaultsCounted'
  <2>1. error' \in Nat /\ error' <= faults'
      BY <1>1, <1>2, <1>3
  <2> QED
      BY <1>1, <1>3, <2>1, FaultsAside DEF Deciding
<1>6. TypeOK'
  <2>1. taken' \subseteq Byte
      BY <1>2, <1>3, Numbers
  <2> QED
      BY <1>1, <1>3, <2>1 DEF UploadInv, TypeOK
<1>7. Limits' /\ WithinList'
    BY <1>1, <1>3 DEF UploadInv, Limits, WithinList, Deciding, Resending
<1>8. OkIsTrue' /\ FewAreNoHarm'
    BY <1>1, <1>3 DEF UploadInv, OkIsTrue, FewAreNoHarm, Deciding
<1>9. NoneYet' /\ VerdictsOnly'
    BY <1>1, <1>3 DEF NoneYet, VerdictsOnly
<1>10. RoundsCost'
  <2>1. HasRoom /\ odd' = 0 /\ ~misled' => rsend_cnt' < faults'
      BY <1>1, <1>2, <1>3
  <2>2. ASSUME HasRoom, odd' = 0, ~misled', faults' < rsend_cnt' + 2 PROVE index' = 0
      BY <1>1, <1>2, <1>3, <2>2
  <2>3. index' = 0 => \A i \in 1..index' : frame'.lost[i] \in received'
      OBVIOUS
  <2> QED
      BY <1>1, <2>1, <2>2, <2>3 DEF RoundsCost, Resending
<1> QED
    BY <1>3, <1>4, <1>5, <1>6, <1>7, <1>8, <1>9, <1>10 DEF UploadInv

LEMMA ListEndsKeeps == ASSUME UploadInv, ListEnds PROVE UploadInv'
<1>1. /\ pc = "resend" /\ index = Len(frame.lost) /\ index' = 0
      /\ UNCHANGED <<page_sum, cur_page, page_error, send_last_cnt, resend_num, rsend_cnt, error,
                     last_page, frame, told, taken, received, faults, odd, misled>>
    BY DEF ListEnds, networkVars, frameVars
<1>2. \/ /\ Says(frame) = 1 /\ pc' = "next" /\ send_result' = 1
         /\ excused' = (excused \/ ~told)
      \/ Says(frame) # 1 /\ pc' = "last" /\ UNCHANGED <<send_result, excused>>
    BY DEF ListEnds
<1>3. /\ frame \in Frame /\ rsend_cnt \in Nat /\ rsend_cnt <= RoundMax /\ last_page
      /\ faults \in Nat /\ odd \in Nat /\ error \in Nat /\ error <= faults /\ error < GiveUpMax
      /\ told \in BOOLEAN /\ excused \in BOOLEAN
      /\ odd = 0 /\ ~misled => told
      /\ HasRoom /\ odd = 0 /\ ~misled => rsend_cnt < faults
    BY <1>1, RoundCounts DEF Deciding, Resending
<1>4. CountersAgree' /\ Unwrapped' /\ RoomLeft' /\ LastOnly' /\ AllSent'
    BY <1>1, <1>2, Aside DEF Deciding
<1>5. FaultsCounted'
    BY <1>1, <1>3, FaultsAside DEF Deciding
<1>6. AllNamed' /\ index \in Nat
    BY <1>1, NamedStill, RoundCounts DEF Deciding
<1>7. TypeOK'
  <2>1. index' \in Byte
      BY <1>1, Numbers
  <2>2. send_result' \in {1, -1}
      BY <1>2 DEF UploadInv, TypeOK
  <2>3. excused' \in BOOLEAN
      BY <1>2, <1>3, Zenon
  <2> QED
      BY <1>1, <1>2, <2>1, <2>2, <2>3 DEF UploadInv, TypeOK
<1>8. Limits' /\ WithinList'
    BY <1>1, <1>2 DEF UploadInv, Limits, WithinList, Deciding, Resending
<1>9. NoneYet' /\ VerdictsOnly'
    BY <1>1, <1>2, <1>3 DEF UploadInv, NoneYet, VerdictsOnly, Deciding, Resending
<1>10. Complete' <=> Complete
    BY <1>1 DEF Complete, PageNumber, Last
<1>11. CASE /\ Says(frame) = 1 /\ pc' = "next" /\ send_result' = 1
            /\ excused' = (excused \/ ~told)
  <2>1. told => frame.result = "ok"
      BY <1>3, <1>11, SaysIs DEF UploadInv, AllNamed
  <2>2. HasRoom /\ page_sum = 0 /\ told => Complete
      BY <1>1, <2>1 DEF UploadInv, OkIsTrue, Deciding
  <2>3. ~excused' => told
      BY <1>11, Zenon
  <2>4. OkIsTrue' /\ RoundsCost'
      BY <1>1, <1>10, <1>11, <2>2, <2>3 DEF OkIsTrue, RoundsCost, Deciding, Resending
  <2>5. FewAreNoHarm'
      BY <1>1, <1>3, <1>10, <1>11, <2>2 DEF FewAreNoHarm, Few
  <2> QED
      BY <1>4, <1>5, <1>6, <1>7, <1>8, <1>9, <2>4, <2>5 DEF UploadInv
<1>12. CASE Says(frame) # 1 /\ pc' = "last"
  <2>1. OkIsTrue' /\ FewAreNoHarm'
      BY <1>1, <1>10, <1>12 DEF UploadInv, OkIsTrue, FewAreNoHarm, Deciding
  <2>2. ASSUME HasRoom, odd = 0, ~misled, faults < rsend_cnt + 2 PROVE Complete
    <3>1. frame.result = "imperfect"
        BY <1>3, <1>12, <2>2, SaysIs DEF UploadInv, AllNamed
    <3>2. \A i \in 1..Len(frame.lost) : frame.lost[i] \in received
        BY <1>1, <2>2 DEF UploadInv, RoundsCost
    <3>3. \A p \in Missing(received) : \E i \in 1..Len(frame.lost) : frame.lost[i] = p
      <4>1. DOMAIN frame.lost = 1..Len(frame.lost)
          BY <1>3, FrameIs
      <4> QED
          BY <1>3, <2>2, <3>1, <4>1 DEF UploadInv, AllNamed
    <3> QED
        BY <3>2, <3>3 DEF Missing, Complete
  <2>3. RoundsCost'
      BY <1>1, <1>3, <1>10, <1>12, <2>2 DEF RoundsCost, Resending
  <2> QED
      BY <1>4, <1>5, <1>6, <1>7, <1>8, <1>9, <2>1, <2>3 DEF UploadInv
<1> QED
    BY <1>2, <1>11, <1>12

LEMMA NewVerdictKeeps == ASSUME UploadInv, NewVerdict PROVE UploadInv'
<1>1. /\ pc = "last" /\ Answered(Last) /\ rsend_cnt' = rsend_cnt + 1
      /\ UNCHANGED <<page_sum, cur_page, page_error, send_last_cnt, resend_num, error, index, last_page, misled>>
    BY DEF NewVerdict
<1>2. \/ rsend_cnt < RoundMax /\ pc' = "verdict" /\ UNCHANGED excused
      \/ rsend_cnt >= RoundMax /\ pc' = "next" /\ excused' = TRUE
    BY DEF NewVerdict
<1>3. /\ rsend_cnt \in Nat /\ rsend_cnt <= RoundMax /\ last_page
      /\ faults \in Nat /\ error \in Nat /\ error <= faults
      /\ received \subseteq taken /\ taken \subseteq Byte
      /\ HasRoom /\ odd = 0 /\ ~misled => rsend_cnt < faults
    BY <1>1, RoundCounts DEF Deciding, Resending
<1>4. index = 0
    BY <1>1 DEF UploadInv, Limits
<1>5. /\ taken' = taken \cup {Last} /\ received' = received \cup {Last} /\ send_result' = 1
      /\ frame' \in Frame /\ told' \in BOOLEAN /\ AllNamed'
      /\ told' /\ frame'.result = "ok" => Complete'
      /\ faults' \in Nat /\ odd' \in Nat /\ faults <= faults'
      /\ odd' = 0 => odd = 0 /\ told'
      /\ told' /\ Complete' /\ faults' = faults => frame'.result = "ok"
    BY <1>1, AnsweredIs
<1>6. CountersAgree' /\ Unwrapped' /\ RoomLeft' /\ LastOnly' /\ AllSent'
    BY <1>1, <1>2, <1>5, Aside, Numbers DEF Deciding
<1>7. FaultsCounted'
  <2>1. error' \in Nat /\ error' <= faults'
      BY <1>1, <1>3, <1>5
  <2> QED
      BY <1>1, <1>5, <2>1, FaultsAside DEF Deciding
<1>8. TypeOK'
  <2>2. taken' \subseteq Byte /\ received' \subseteq taken'
      BY <1>3, <1>5, Numbers
  <2>3. rsend_cnt' \in 0..RoundMax + 1
      BY <1>1, <1>3, Limited
  <2>4. excused' \in BOOLEAN
      BY <1>2, Zenon DEF UploadInv, TypeOK
  <2> QED
      BY <1>1, <1>2, <1>5, <2>2, <2>3, <2>4 DEF UploadInv, TypeOK
<1>9. Limits' /\ WithinList'
    BY <1>1, <1>2, <1>3, <1>4, Limited DEF UploadInv, Limits, WithinList, Deciding, Resending
<1>10. NoneYet' /\ VerdictsOnly'
    BY <1>5 DEF NoneYet, VerdictsOnly
<1>11. Complete => Complete'
    BY <1>5 DEF Complete, PageNumber, Last
<1>12. HasRoom /\ odd = 0 /\ ~misled /\ faults < rsend_cnt + 2 => Complete
    BY <1>1 DEF UploadInv, RoundsCost
<1>13. CASE rsend_cnt < RoundMax /\ pc' = "verdict"
  <2>1. OkIsTrue' /\ FewAreNoHarm'
      BY <1>5, <1>13 DEF OkIsTrue, FewAreNoHarm, Deciding
  <2>2. ASSUME HasRoom, odd' = 0, ~misled', frame'.result = "imperfect" PROVE rsend_cnt' < faults'
    <3>1. odd = 0 /\ ~misled /\ rsend_cnt < faults
        BY <1>1, <1>3, <1>5, <2>2
    <3>2. CASE faults' = faults
      <4>1. ~Complete
          BY <1>5, <1>11, <2>2, <3>2
      <4>2. ~(faults < rsend_cnt + 2)
          BY <1>12, <2>2, <3>1, <4>1
      <4> QED
          BY <1>1, <1>3, <3>2, <4>2
    <3>3. CASE faults' # faults
        BY <1>1, <1>3, <1>5, <3>1, <3>3
    <3> QED
        BY <3>2, <3>3
  <2>3. RoundsCost'
      BY <1>13, <2>2 DEF RoundsCost, Resending
  <2> QED
      BY <1>5, <1>6, <1>7, <1>8, <1>9, <1>10, <2>1, <2>3 DEF UploadInv
<1>14. CASE rsend_cnt >= RoundMax /\ pc' = "next" /\ excused' = TRUE
  <2>1. OkIsTrue' /\ RoundsCost'
      BY <1>14 DEF OkIsTrue, RoundsCost, Deciding, Resending
  <2>2. ASSUME HasRoom, odd' = 0, ~misled', faults' < ErrorMax PROVE Complete'
    <3>1. odd = 0 /\ ~misled /\ faults < rsend_cnt + 2
        BY <1>1, <1>3, <1>5, <1>14, <2>2, Limited, TriesAssumption
    <3> QED
        BY <1>11, <1>12, <2>2, <3>1
  <2>3. FewAreNoHarm'
      BY <1>5, <1>14, <2>2 DEF FewAreNoHarm, Few
  <2> QED
      BY <1>5, <1>6, <1>7, <1>8, <1>9, <1>10, <2>1, <2>3 DEF UploadInv
<1> QED
    BY <1>2, <1>13, <1>14

LEMMA NoNewVerdictKeeps == ASSUME UploadInv, NoNewVerdict PROVE UploadInv'
<1>1. /\ pc = "last" /\ faults' = faults + 1 /\ error' = error + 1
      /\ send_result' = (IF error' < GiveUpMax THEN -1 ELSE 1)
      /\ pc' = IF error' < GiveUpMax THEN "last" ELSE "next"
      /\ UNCHANGED <<page_sum, cur_page, page_error, send_last_cnt, resend_num, rsend_cnt, index,
                     last_page, frame, told, taken, received, odd, misled>>
    BY DEF NoNewVerdict, frameVars
<1>2. excused' = (excused \/ error' >= GiveUpMax)
    BY DEF NoNewVerdict
<1>3. /\ frame \in Frame /\ rsend_cnt \in Nat /\ rsend_cnt <= RoundMax /\ last_page
      /\ faults \in Nat /\ odd \in Nat /\ error \in Nat /\ error <= faults /\ error < GiveUpMax
      /\ odd = 0 /\ ~misled => told
      /\ HasRoom /\ odd = 0 /\ ~misled => rsend_cnt < faults
    BY <1>1, RoundCounts DEF Deciding, Resending
<1>4. /\ pc' \in {"last", "next"} /\ error' \in Nat /\ error' <= faults' /\ faults' \in Nat /\ faults <= faults'
      /\ error' \in 0..GiveUpMax
    BY <1>1, <1>3, Limited
<1>5. pc' = "next" => ~(error' < GiveUpMax)
    BY <1>1
<1>6. pc' = "next" => excused' /\ ~(faults' < GiveUpMax)
  <2>1. pc' = "next" => error' >= GiveUpMax
      BY <1>4, <1>5, Limited
  <2>2. pc' = "next" => excused'
      BY <1>2, <2>1, Zenon
  <2> QED
      BY <1>4, <2>1, <2>2, Limited
<1>7. CountersAgree' /\ Unwrapped' /\ RoomLeft' /\ LastOnly' /\ AllSent'
    BY <1>1, <1>4, Aside DEF Deciding
<1>8. FaultsCounted'
    BY <1>1, <1>3, <1>4, FaultsAside DEF Deciding
<1>9. AllNamed'
    BY <1>1, NamedStill
<1>10. TypeOK'
  <2>1. send_result' \in {1, -1}
      BY <1>1
  <2>2. excused' \in BOOLEAN
      BY <1>2, Zenon DEF UploadInv, TypeOK
  <2> QED
      BY <1>1, <1>4, <2>1, <2>2 DEF UploadInv, TypeOK
<1>11. Limits' /\ WithinList'
    BY <1>1, <1>4 DEF UploadInv, Limits, WithinList, Deciding, Resending
<1>12. NoneYet' /\ VerdictsOnly'
    BY <1>1, <1>3, <1>4 DEF UploadInv, NoneYet, VerdictsOnly, Deciding, Resending
<1>13. OkIsTrue'
  <2>1. Complete' <=> Complete
      BY <1>1 DEF Complete, PageNumber, Last
  <2> QED
      BY <1>1, <1>4, <1>6, <2>1 DEF UploadInv, OkIsTrue, Deciding
<1>14. RoundsCost'
  <2>1. HasRoom /\ odd = 0 /\ ~misled => rsend_cnt' < faults' /\ ~(faults' < rsend_cnt' + 2)
      BY <1>1, <1>3
  <2> QED
      BY <1>1, <1>4, <2>1 DEF RoundsCost, Resending
<1>15. FewAreNoHarm'
    BY <1>4, <1>6 DEF FewAreNoHarm, Few
<1> QED
    BY <1>7, <1>8, <1>9, <1>10, <1>11, <1>12, <1>13, <1>14, <1>15 DEF UploadInv

-----------------------------------------------------------------------------
LEMMA ZeroedKeeps == ASSUME UploadInv, Zeroed PROVE UploadInv'
<1>1. /\ pc = "next" /\ pc' = "page" /\ frame' = [frame EXCEPT !.result = "ok", !.lost = <<>>]
      /\ UNCHANGED <<page_sum, cur_page, page_error, send_last_cnt, resend_num, rsend_cnt, error, index,
                     last_page, told, send_result, taken, received, faults, odd, excused, misled>>
    BY DEF Zeroed, counterVars, networkVars, historyVars
<1>2. frame \in Frame /\ index = 0
    BY <1>1 DEF UploadInv, TypeOK, Limits
<1>3. frame' \in Frame /\ frame'.kind = frame.kind /\ frame'.result = "ok" /\ frame'.lost = <<>>
  <2>1. <<>> \in Seq(Byte) /\ "ok" \in Verdict
      BY DEF Verdict
  <2> QED
      BY <1>1, <1>2, <2>1 DEF Frame
<1>4. TypeOK'
    BY <1>1, <1>3 DEF UploadInv, TypeOK
<1>5. CountersAgree' /\ Limits' /\ LastOnly' /\ WithinList'
    BY <1>1 DEF UploadInv, CountersAgree, Limits, LastOnly, WithinList, Deciding, Resending
<1>6. Unwrapped'
    BY <1>1 DEF UploadInv, Unwrapped, PageNumber, Last
<1>7. RoomLeft'
  <2>1. Room(page_error)' = Room(page_error)
      BY <1>1 DEF Room
  <2> QED
      BY <1>1, <2>1 DEF UploadInv, RoomLeft, Deciding
<1>8. AllSent'
    BY <1>1, BeforeSame DEF UploadInv, AllSent, PageNumber, Last
<1>9. Complete' <=> Complete
    BY <1>1 DEF Complete, PageNumber, Last
<1>10. OkIsTrue' /\ FewAreNoHarm'
    BY <1>1, <1>9 DEF UploadInv, OkIsTrue, FewAreNoHarm, Few, Deciding
<1>11. AllNamed' /\ VerdictsOnly' /\ RoundsCost'
  <2>1. DOMAIN frame'.lost = {}
      BY <1>3
  <2>2. AllNamed'
      BY <1>1, <1>3, <2>1 DEF UploadInv, AllNamed
  <2> QED
      BY <1>1, <2>2 DEF VerdictsOnly, RoundsCost, Deciding, Resending
<1>12. FaultsCounted'
    BY <1>1, BeforeSame DEF UploadInv, FaultsCounted, PageNumber, Last, Deciding
<1>13. NoneYet'
    BY <1>1, <1>3 DEF UploadInv, NoneYet
<1> QED
    BY <1>4, <1>5, <1>6, <1>7, <1>8, <1>10, <1>11, <1>12, <1>13 DEF UploadInv

(* Nothing changes *)
LEMMA StandstillKeeps == ASSUME UploadInv, UNCHANGED vars PROVE UploadInv'
<1>1. UNCHANGED <<pc, page_sum, cur_page, page_error, send_last_cnt, resend_num, rsend_cnt, error, index,
                  last_page, frame, told, send_result, taken, received, faults, odd, excused, misled>>
    BY DEF vars, counterVars, networkVars, frameVars, historyVars
<1>2. TypeOK' /\ CountersAgree' /\ Limits' /\ LastOnly' /\ WithinList'
    BY <1>1 DEF UploadInv, TypeOK, CountersAgree, Limits, LastOnly, WithinList
<1>3. Unwrapped'
    BY <1>1 DEF UploadInv, Unwrapped, PageNumber, Last
<1>4. RoomLeft'
  <2>1. Again' = Again /\ Room(page_error)' = Room(page_error)
      BY <1>1 DEF Again, Room
  <2> QED
      BY <1>1, <2>1 DEF UploadInv, RoomLeft
<1>5. AllSent' /\ FaultsCounted'
    BY <1>1, BeforeSame DEF UploadInv, AllSent, FaultsCounted, PageNumber, Last
<1>6. Complete' <=> Complete
    BY <1>1 DEF Complete, PageNumber, Last
<1>7. OkIsTrue' /\ FewAreNoHarm'
    BY <1>1, <1>6 DEF UploadInv, OkIsTrue, FewAreNoHarm, Few
<1>8. AllNamed'
    BY <1>1, NamedStill
<1>9. NoneYet' /\ VerdictsOnly'
    BY <1>1 DEF UploadInv, NoneYet, VerdictsOnly
<1>10. RoundsCost'
    BY <1>1, <1>6 DEF UploadInv, RoundsCost
<1> QED
    BY <1>2, <1>3, <1>4, <1>5, <1>7, <1>8, <1>9, <1>10 DEF UploadInv

-----------------------------------------------------------------------------
(* The theorems *)

(***************************************************************************)
(* UploadInv holds throughout send_picture_data: a step of the upload, of  *)
(* the modem or of the network keeps it, whatever gets lost or comes late. *)
(***************************************************************************)
THEOREM UploadInvariant == Spec => []UploadInv
<1>1. Init => UploadInv
    BY InitKeeps
<1>2. ASSUME UploadInv, [Next]_vars PROVE UploadInv'
  <2>1. CASE PageSent
      BY <1>2, <2>1, PageSentKeeps
  <2>2. CASE PageFailed
      BY <1>2, <2>2, PageFailedKeeps
  <2>3. CASE Finished
      BY <1>2, <2>3, FinishedKeeps
  <2>4. CASE CheckAnswered
      BY <1>2, <2>4, CheckAnsweredKeeps
  <2>5. CASE CheckFailed
      BY <1>2, <2>5, CheckFailedKeeps
  <2>6. CASE VerdictRead
      BY <1>2, <2>6, VerdictReadKeeps
  <2>7. CASE NoVerdict
      BY <1>2, <2>7, NoVerdictKeeps
  <2>8. CASE LostPageResent
      BY <1>2, <2>8, LostPageResentKeeps
  <2>9. CASE LostPagesLookedAt
      BY <1>2, <2>9, LostPagesLookedAtKeeps
  <2>10. CASE ListEnds
      BY <1>2, <2>10, ListEndsKeeps
  <2>11. CASE NewVerdict
      BY <1>2, <2>11, NewVerdictKeeps
  <2>12. CASE NoNewVerdict
      BY <1>2, <2>12, NoNewVerdictKeeps
  <2>13. CASE Zeroed
      BY <1>2, <2>13, ZeroedKeeps
  <2>14. CASE UNCHANGED vars
      BY <1>2, <2>14, StandstillKeeps
  <2> QED
      BY <1>2, <2>1, <2>2, <2>3, <2>4, <2>5, <2>6, <2>7, <2>8, <2>9, <2>10, <2>11, <2>12, <2>13, <2>14
         DEF Next, Step, Returned
<1> QED
    BY <1>1, <1>2, PTL DEF Spec

(* The counters, the frame and the page lists of send_picture_data keep their ranges. *)
THEOREM UploadTypes == Spec => []TypeOK
<1>1. UploadInv => TypeOK
    BY DEF UploadInv
<1> QED
    BY <1>1, UploadInvariant, PTL

(***************************************************************************)
(* page_sum and cur_page add up to the picture, however often they were    *)
(* stepped back and whichever of them has wrapped.                         *)
(***************************************************************************)
THEOREM CountersAlwaysAgree == Spec => []CountersAgree
<1>1. UploadInv => CountersAgree
    BY DEF UploadInv
<1> QED
    BY <1>1, UploadInvariant, PTL

(***************************************************************************)
(* Failed checks and the server's own lists never make send_picture_data   *)
(* send a page behind the picture's end.                                   *)
(***************************************************************************)
THEOREM PagesInPicture == Spec => []InPicture
<1>1. UploadInv => InPicture
  <2> SUFFICES ASSUME UploadInv, ~(page_error > 0), ~(resend_num > 0), ~misled PROVE taken \subseteq PageNumber
      BY DEF InPicture
  <2>1. page_error = 0 /\ resend_num = 0
      BY Limited DEF UploadInv, TypeOK
  <2> QED
      BY <2>1 DEF UploadInv, Unwrapped
<1> QED
    BY <1>1, UploadInvariant, PTL

(***************************************************************************)
(* If the counter has room for the pages it is stepped back, the loop      *)
(* while(page_sum--) ends only when the modem has taken every page, and    *)
(* the send_result it leaves is never an old verdict's.                    *)
(***************************************************************************)
THEOREM SuccessIsBacked == Spec => []SuccessBacked
<1>1. UploadInv => SuccessBacked
  <2> SUFFICES ASSUME UploadInv, HasRoom, pc = "finished"
               PROVE  PageNumber \subseteq taken /\ (send_result = 1 /\ ~excused => PageNumber \subseteq received)
      BY DEF SuccessBacked
  <2>1. page_sum = 0
      BY DEF UploadInv, LastOnly
  <2>2. \A p \in PageNumber : Before(p)
      BY <2>1, Numbers DEF Before
  <2>3. PageNumber \subseteq taken
      BY <2>2 DEF UploadInv, AllSent
  <2> QED
      BY <2>1, <2>3 DEF UploadInv, OkIsTrue, Complete
<1> QED
    BY <1>1, UploadInvariant, PTL

(***************************************************************************)
(* Fewer faults than ErrorMax and GiveUpMax, whichever pages, answers and  *)
(* checks they hit, never keep the picture from the server nor make        *)
(* send_picture_data report a failure, if the counter has room and no      *)
(* bytes are taken for a verdict that are none.                            *)
(***************************************************************************)
THEOREM FewFaultsTolerated == Spec => []FaultsTolerated
<1>1. UploadInv => FaultsTolerated
  <2> SUFFICES ASSUME UploadInv, Few, pc \in {"finished", "failed"}
               PROVE  pc = "finished" /\ send_result = 1 /\ PageNumber \subseteq received
      BY DEF FaultsTolerated, Few
  <2>1. pc = "finished"
      BY DEF UploadInv, FewAreNoHarm
  <2>2. page_sum = 0
      BY <2>1 DEF UploadInv, LastOnly
  <2> QED
      BY <2>1, <2>2 DEF UploadInv, FewAreNoHarm, Complete
<1> QED
    BY <1>1, UploadInvariant, PTL
=============================================================================
