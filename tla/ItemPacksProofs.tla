---------------------------- MODULE ItemPacksProofs ----------------------------
(***************************************************************************)
(* Proofs about ItemPacks for every page size, message and failure: type   *)
(* correctness, that the 32-bit sum of lengths never wraps and its         *)
(* overflow check never decides, that exactly the good messages are        *)
(* accepted, that the pages unmapped are the pages mapped, and that every  *)
(* byte of a pack is seen at its place.                                    *)
(***************************************************************************)
EXTENDS ItemPacks, FiniteSetTheorems, TLAPS

-----------------------------------------------------------------------------
(* Division by the page size, which no prover knows. *)

LEMMA DivMod ==
  ASSUME NEW n \in Nat
  PROVE  /\ n \div PageSize \in Nat /\ n % PageSize \in 0..PageSize-1
         /\ n = PageSize * (n \div PageSize) + (n % PageSize)
  BY PackAssumption

LEMMA RoundDownNat ==
  ASSUME NEW n \in Nat
  PROVE  RoundDown(n) \in Nat
<1>1. PageSize * (n \div PageSize) \in Nat /\ RoundDown(n) = PageSize * (n \div PageSize)
  <2> DEFINE q == n \div PageSize
             r == n % PageSize
  <2>1. q \in Nat /\ r \in Nat /\ n = PageSize * q + r /\ PageSize \in Nat
    BY DivMod, PackAssumption
  <2>2. RoundDown(n) = n - r
    BY DEF RoundDown
  <2> HIDE DEF q, r
  <2>3. PageSize * q \in Nat /\ RoundDown(n) = PageSize * q
    BY <2>1, <2>2
  <2> QED
    BY <2>3 DEF q
<1> QED
  BY <1>1

(* There is only one way to write n as a multiple and a remainder. *)
LEMMA DivUnique ==
  ASSUME NEW n \in Nat, NEW q \in Nat, NEW r \in 0..PageSize-1, n = PageSize * q + r
  PROVE  n \div PageSize = q /\ n % PageSize = r
  BY PackAssumption

(* Rounding up: the whole pages that hold n bytes from offset o of one on. *)
LEMMA PagesHold ==
  ASSUME NEW o \in 0..PageSize-1, NEW len \in Nat \ {0}, NEW n \in 0..len-1
  PROVE  /\ RoundDown(len + o + PageSize - 1) \in Nat
         /\ RoundDown(len + o + PageSize - 1) \div PageSize \in Nat
         /\ (o + n) \div PageSize < RoundDown(len + o + PageSize - 1) \div PageSize
<1> DEFINE m == len + o + PageSize - 1
           q == m \div PageSize
           k == (o + n) \div PageSize
<1>1. m \in Nat /\ o + n \in Nat /\ o + n + PageSize <= m /\ PageSize \in Nat \ {0}
  BY PackAssumption
<1>2. q \in Nat /\ m % PageSize \in 0..PageSize-1 /\ m = PageSize * q + (m % PageSize)
  BY <1>1, DivMod
<1>3. /\ k \in Nat /\ (o + n) % PageSize \in 0..PageSize-1
      /\ o + n = PageSize * k + ((o + n) % PageSize)
  BY <1>1, DivMod
<1> HIDE DEF q, k, m
<1>4. RoundDown(m) = PageSize * q /\ PageSize * q \in Nat
  BY <1>1, <1>2 DEF RoundDown
<1>5. RoundDown(m) \div PageSize = q
  <2>1. 0 \in 0..PageSize-1 /\ PageSize * q = PageSize * q + 0
    BY <1>1, <1>4
  <2> QED
    BY <1>2, <1>4, <2>1, DivUnique
<1>6. PageSize * k < PageSize * q
  <2>1. PageSize * k + PageSize <= PageSize * q + (m % PageSize)
    BY <1>1, <1>2, <1>3
  <2> QED
    BY <1>1, <1>2, <1>3, <2>1
<1>7. k < q
  BY <1>1, <1>2, <1>3, <1>6
<1> QED
  BY <1>2, <1>4, <1>5, <1>7 DEF m, k

(* Whole pages in front of n shift its page and leave its place in it. *)
LEMMA Shift ==
  ASSUME NEW c \in Nat, NEW n \in Nat
  PROVE  /\ (PageSize * c + n) \div PageSize = c + (n \div PageSize)
         /\ (PageSize * c + n) % PageSize = n % PageSize
<1> DEFINE q == n \div PageSize
           r == n % PageSize
<1>1. q \in Nat /\ r \in 0..PageSize-1 /\ n = PageSize * q + r /\ PageSize \in Nat \ {0}
  BY PackAssumption, DivMod
<1> HIDE DEF q, r
<1>2. PageSize * c + n = PageSize * (c + q) + r /\ c + q \in Nat /\ PageSize * c + n \in Nat
  BY <1>1
<1>3. (PageSize * c + n) \div PageSize = c + q /\ (PageSize * c + n) % PageSize = r
  BY <1>1, <1>2, DivUnique
<1> QED
  BY <1>3 DEF q, r

-----------------------------------------------------------------------------
(* What mmap() adds for a pack, when it places it at page b. *)
MappedAt(b, p) ==
  {<<v, (RoundDown(p.phys) \div PageSize) + (v - b)>> : v \in Span(b * PageSize, MmapSize(p))}

(* The pages of a pack mapped at b are those from b on, and little_sys_    *)
(* munmap finds them from the address of the pack.                         *)
LEMMA SpanAtBase ==
  ASSUME NEW b \in Nat, NEW p \in Pack, p.len > 0
  PROVE  /\ Span(b * PageSize, MmapSize(p))
              = {b + k : k \in 0..(MmapSize(p) \div PageSize) - 1}
         /\ b * PageSize + PageOffset(p) \in Nat
         /\ MmapSize(p) \div PageSize \in Nat
<1>1. p.phys \in Nat /\ p.len \in Nat \ {0} /\ PageSize \in Nat \ {0}
  BY PackAssumption DEF Pack
<1>2. PageOffset(p) \in 0..PageSize-1
  BY <1>1, DivMod DEF PageOffset
<1>3. MmapSize(p) \div PageSize \in Nat
  <2>1. 0 \in 0..p.len-1
    BY <1>1
  <2> QED
    BY <1>1, <1>2, <2>1, PagesHold DEF MmapSize
<1>4. b * PageSize \in Nat /\ b * PageSize = PageSize * b + 0
  BY <1>1
<1>5. (b * PageSize) \div PageSize = b
  <2>1. 0 \in 0..PageSize-1
    BY <1>1
  <2> QED
    BY <1>4, <2>1, DivUnique
<1> QED
  BY <1>2, <1>3, <1>4, <1>5 DEF Span

(* Every byte of the pack is where it should be. *)
LEMMA BytesInPlace ==
  ASSUME NEW b \in Nat, NEW p \in Pack, NEW n \in 0..p.len-1
  PROVE  LET at == b * PageSize + PageOffset(p)
         IN /\ <<(at + n) \div PageSize, (p.phys + n) \div PageSize>> \in MappedAt(b, p)
            /\ (at + n) % PageSize = (p.phys + n) % PageSize
<1> DEFINE o == PageOffset(p)
           f == p.phys \div PageSize
           k == (o + n) \div PageSize
<1>1. p.phys \in Nat /\ p.len \in Nat \ {0} /\ n \in Nat /\ PageSize \in Nat \ {0}
  BY PackAssumption DEF Pack
<1>2. f \in Nat /\ o \in 0..PageSize-1 /\ p.phys = PageSize * f + o
  BY <1>1, DivMod DEF PageOffset
<1>3. k \in 0..(MmapSize(p) \div PageSize) - 1 /\ k \in Nat
  <2>1. o + n \in Nat
    BY <1>1, <1>2
  <2>2. k \in Nat
    BY <2>1, DivMod
  <2>3. k < MmapSize(p) \div PageSize /\ MmapSize(p) \div PageSize \in Nat
    BY <1>1, <1>2, PagesHold DEF MmapSize
  <2> QED
    BY <2>2, <2>3
<1>4. RoundDown(p.phys) \div PageSize = f
  <2>1. RoundDown(p.phys) = PageSize * f + 0 /\ RoundDown(p.phys) \in Nat
    <3>1. RoundDown(p.phys) = p.phys - o
      BY DEF RoundDown, PageOffset
    <3>2. PageSize * f \in Nat
      BY <1>1, <1>2
    <3> HIDE DEF o, f
    <3> QED
      BY <1>1, <1>2, <3>1, <3>2
  <2>2. 0 \in 0..PageSize-1
    BY <1>1
  <2> QED
    BY <1>2, <2>1, <2>2, DivUnique
<1> HIDE DEF o, f, k
<1>5. b * PageSize + o + n = PageSize * b + (o + n) /\ p.phys + n = PageSize * f + (o + n)
      /\ o + n \in Nat
  BY <1>1, <1>2
<1>6. /\ (b * PageSize + o + n) \div PageSize = b + k /\ (p.phys + n) \div PageSize = f + k
      /\ (b * PageSize + o + n) % PageSize = (p.phys + n) % PageSize
  BY <1>2, <1>5, Shift DEF k
<1>7. <<b + k, f + k>> \in MappedAt(b, p)
  <2> DEFINE v == b + k
             S == Span(b * PageSize, MmapSize(p))
             d == RoundDown(p.phys) \div PageSize
  <2>1. v \in S
    BY <1>1, <1>3, SpanAtBase
  <2>2. MappedAt(b, p) = {<<w, d + (w - b)>> : w \in S}
    BY DEF MappedAt
  <2>3. d = f /\ v - b = k
    BY <1>2, <1>3, <1>4
  <2> HIDE DEF v, S, d
  <2>4. <<v, d + (v - b)>> \in MappedAt(b, p)
    BY <2>1, <2>2
  <2>5. <<v, f + k>> \in MappedAt(b, p)
    BY <2>3, <2>4
  <2> QED
    BY <2>5 DEF v
<1> QED
  BY <1>6, <1>7 DEF o

-----------------------------------------------------------------------------
(* The inductive invariant *)

Checked(m, k) == m.packs[k].phys /= 0 /\ m.packs[k].len \in 1..MaxLen

(* What the validation knows of a message when it is at pack i, and the    *)
(* passes of every pack.                                                   *)
Progress ==
  /\ pc \in {"packs", "map", "use"} =>
        msg \in Messages /\ msg.pack_cnt \in 1..MaxPacks
  /\ pc = "packs" => i \in 1..msg.pack_cnt+1
  /\ pc \in {"map", "use"} =>
        i \in 1..msg.pack_cnt /\ \A k \in 1..msg.pack_cnt : Checked(msg, k)
  /\ pc = "packs" => \A k \in 1..msg.pack_cnt : k < i => Checked(msg, k)

(* The sum so far is that of i - 1 packs of at most MaxLen bytes. *)
SumBounded ==
  /\ pc \in {"idle", "header"} => sum_len = 0 /\ i = 1
  /\ pc = "packs" => sum_len <= (i - 1) * MaxLen

(* Whatever is mapped beside the pack in hand was left by munmap(), and    *)
(* the pack's virtual pages are its own.                                   *)
Mapping ==
  /\ pc /= "use" => pages = leaked
  /\ pc = "use" => \E b \in Bases :
       /\ virt = b * PageSize + PageOffset(pack)
       /\ pages = leaked \cup MappedAt(b, pack)
       /\ \A p \in leaked : p[1] \notin Span(b * PageSize, MmapSize(pack))

IInv == PacksTypeOK /\ Progress /\ SumBounded /\ Mapping

(* The check for overflow of the 32-bit sum of lengths                     *)
(* (sum_len > UINT32_MAX - len) never decides: as many packs as there may  *)
(* be, of 8 MiB each, stay below 2^32.                                     *)
SumNeverWraps ==
  pc = "packs" /\ i <= msg.pack_cnt /\ pack.len <= MaxLen =>
    sum_len + pack.len < Word

LEMMA MessageParts ==
  ASSUME NEW m \in Messages
  PROVE  /\ m.genuine \in BOOLEAN /\ m.pack_cnt \in Nat /\ m.total_len \in Nat
         /\ m.packs \in Seq(Pack) /\ Len(m.packs) = MaxPacks
         /\ \A k \in 1..MaxPacks : m.packs[k] \in Pack /\ m.packs[k].phys \in Nat
                                      /\ m.packs[k].len \in 0..Word-1
<1>1. m \in Message /\ Len(m.packs) = MaxPacks
  BY PackAssumption
<1>2. m.packs \in Seq(Pack) /\ DOMAIN m.packs = 1..MaxPacks
  BY <1>1 DEF Message
<1>3. ASSUME NEW k \in 1..MaxPacks
      PROVE  m.packs[k] \in Pack
  <2>1. m.packs \in [1..MaxPacks -> Pack]
    BY <1>1, <1>2
  <2> QED
    BY <2>1
<1>4. m.genuine \in BOOLEAN /\ m.pack_cnt \in Nat /\ m.total_len \in Nat
  BY <1>1, PackAssumption DEF Message
<1> QED
  BY <1>1, <1>2, <1>3, <1>4, PackAssumption DEF Pack

(* The room left for the pack in hand. *)
LEMMA RoomForPack ==
  ASSUME IInv, pc = "packs", i <= msg.pack_cnt, pack.len \in 0..MaxLen
  PROVE  sum_len + pack.len <= i * MaxLen /\ sum_len + pack.len < Word
<1>1. /\ i \in 1..MaxPacks /\ MaxPacks \in Nat /\ MaxLen \in Nat /\ Word \in Nat
      /\ MaxPacks * MaxLen < Word /\ sum_len \in Nat
  BY PackAssumption DEF IInv, PacksTypeOK, Progress
<1>2. sum_len <= (i - 1) * MaxLen
  BY DEF IInv, SumBounded
<1>3. (i - 1) * MaxLen + MaxLen = i * MaxLen /\ i * MaxLen \in Nat /\ (i - 1) * MaxLen \in Nat
  BY <1>1
<1>4. i * MaxLen <= MaxPacks * MaxLen
  BY <1>1
<1>5. pack.len \in Nat /\ pack.len <= MaxLen
  BY <1>1
<1> HIDE DEF pack
<1> QED
  BY <1>1, <1>2, <1>3, <1>4, <1>5

LEMMA InitIInv == PacksInit => IInv
<1> SUFFICES ASSUME PacksInit PROVE IInv
  OBVIOUS
<1>1. PacksTypeOK
  <2>1. 0 \in 0..Word-1 /\ 1 \in 1..MaxPacks+1 /\ 0 \in 0..MaxFaults /\ {} \subseteq Nat \X Nat
    BY PackAssumption
  <2> QED
    BY <2>1 DEF PacksInit, PacksTypeOK
<1>2. Progress /\ SumBounded /\ Mapping
  BY DEF PacksInit, Progress, SumBounded, Mapping
<1> QED
  BY <1>1, <1>2 DEF IInv

(* One lemma per group of actions.  Nothing is mapped or unmapped by the   *)
(* validation, and it ends with every pack checked.                        *)
LEMMA ValidationKeeps ==
  ASSUME IInv, ReadItem \/ CheckHeader \/ CheckPack \/ CheckTotal
  PROVE  IInv'
<1>1. CASE ReadItem
  <2>1. PacksTypeOK'
    BY <1>1 DEF IInv, PacksTypeOK, ReadItem, loopVars, mapVars
  <2>2. Progress' /\ SumBounded' /\ Mapping'
    BY <1>1 DEF IInv, Progress, SumBounded, Mapping, ReadItem, loopVars, mapVars
  <2> QED
    BY <2>1, <2>2 DEF IInv
<1>2. CASE CheckHeader
  <2>1. msg \in Messages \cup {NoMessage} /\ i = 1 /\ sum_len = 0 /\ pages = leaked
    BY <1>2 DEF IInv, PacksTypeOK, SumBounded, Mapping, CheckHeader
  <2>2. msg \in Messages \/ ~msg.genuine
    BY <2>1 DEF NoMessage
  <2>3. PacksTypeOK'
    BY <1>2 DEF IInv, PacksTypeOK, CheckHeader, Reject, loopVars, mapVars
  <2>4. Progress' /\ SumBounded' /\ Mapping'
    <3>1. CASE pc' = "done"
      BY <3>1, <1>2, <2>1 DEF Progress, SumBounded, Mapping, CheckHeader, mapVars
    <3>2. CASE msg.genuine /\ msg.pack_cnt \in 1..MaxPacks /\ pc' = "packs" /\ UNCHANGED loopVars
      <4>1. msg' \in Messages /\ msg'.pack_cnt \in 1..MaxPacks /\ i' = 1 /\ sum_len' = 0
            /\ pages' = leaked'
        BY <3>2, <1>2, <2>1, <2>2 DEF CheckHeader, loopVars, mapVars
      <4>2. 1 \in 1..msg'.pack_cnt+1 /\ \A k \in 1..msg'.pack_cnt : ~(k < 1)
        BY <4>1
      <4>3. 0 <= (1 - 1) * MaxLen
        BY PackAssumption
      <4> QED
        BY <3>2, <4>1, <4>2, <4>3 DEF Progress, SumBounded, Mapping
    <3> QED
      BY <1>2, <3>1, <3>2 DEF CheckHeader, Reject
  <2> QED
    BY <2>3, <2>4 DEF IInv
<1>3. CASE CheckPack
  <2>1. /\ msg \in Messages /\ msg.pack_cnt \in 1..MaxPacks /\ i \in 1..msg.pack_cnt
        /\ MaxPacks \in Nat /\ pages = leaked
        /\ \A k \in 1..msg.pack_cnt : k < i => Checked(msg, k)
    BY <1>3, PackAssumption DEF IInv, Progress, Mapping, CheckPack
  <2>2. i \in 1..MaxPacks /\ pack.len \in 0..Word-1
    BY <2>1, MessageParts DEF pack
  <2>3. CASE Reject
    <3>1. PacksTypeOK'
      BY <1>3, <2>3 DEF IInv, PacksTypeOK, CheckPack, Reject, loopVars, mapVars
    <3>2. Progress' /\ SumBounded' /\ Mapping'
      BY <1>3, <2>1, <2>3 DEF Progress, SumBounded, Mapping, CheckPack, Reject, mapVars
    <3> QED
      BY <3>1, <3>2 DEF IInv
  <2>4. CASE /\ pack.phys /= 0 /\ pack.len /= 0 /\ ~Unreasonable
             /\ sum_len' = (sum_len + pack.len) % Word /\ i' = i + 1 /\ UNCHANGED <<pc, accepted>>
    <3>1. pack.len \in 1..MaxLen
      BY <2>2, <2>4, PackAssumption DEF Unreasonable
    <3>2. sum_len + pack.len <= i * MaxLen /\ sum_len + pack.len < Word
      BY <1>3, <2>1, <3>1, RoomForPack DEF CheckPack
    <3>3. sum_len \in Nat /\ Word \in Nat
      BY PackAssumption DEF IInv, PacksTypeOK
    <3>4. sum_len' = sum_len + pack.len /\ sum_len' \in 0..Word-1
      BY <2>4, <3>1, <3>2, <3>3
    <3>5. Checked(msg, i)
      BY <2>4, <3>1 DEF Checked, pack
    <3>6. i' \in 1..MaxPacks+1 /\ i' \in 1..msg.pack_cnt+1 /\ i' - 1 = i
      BY <2>1, <2>4
    <3>7. PacksTypeOK'
      BY <1>3, <2>4, <3>4, <3>6 DEF IInv, PacksTypeOK, CheckPack, mapVars
    <3>8. \A k \in 1..msg.pack_cnt : k < i' => Checked(msg, k)
      BY <2>1, <2>4, <3>5
    <3>9. msg' = msg /\ pc' = "packs" /\ pages' = leaked'
      BY <1>3, <2>1, <2>4 DEF CheckPack, mapVars
    <3>10. Progress' /\ Mapping'
      BY <2>1, <3>6, <3>8, <3>9 DEF Progress, Mapping, Checked
    <3>11. SumBounded'
      BY <3>2, <3>4, <3>6, <3>9 DEF SumBounded
    <3> QED
      BY <3>7, <3>10, <3>11 DEF IInv
  <2> QED
    BY <1>3, <2>3, <2>4 DEF CheckPack
<1>4. CASE CheckTotal
  <2>1. /\ msg \in Messages /\ msg.pack_cnt \in 1..MaxPacks /\ i = msg.pack_cnt + 1
        /\ pages = leaked /\ \A k \in 1..msg.pack_cnt : k < i => Checked(msg, k)
    BY <1>4, PackAssumption DEF IInv, Progress, Mapping, CheckTotal
  <2>2. \A k \in 1..msg.pack_cnt : Checked(msg, k)
    BY <2>1
  <2>3. PacksTypeOK'
    <3>1. 1 \in 1..MaxPacks+1 /\ i \in 1..MaxPacks+1
      BY PackAssumption DEF IInv, PacksTypeOK
    <3>2. CASE Reject /\ UNCHANGED pass
      BY <1>4, <3>2 DEF IInv, PacksTypeOK, CheckTotal, Reject, loopVars, mapVars
    <3>3. CASE accepted' = TRUE /\ i' = 1 /\ pc' \in {"map", "done"} /\ UNCHANGED sum_len
               /\ pass' \in {"snapshot", "playback"}
      BY <1>4, <3>1, <3>3 DEF IInv, PacksTypeOK, CheckTotal, mapVars
    <3> QED
      BY <1>4, <3>2, <3>3 DEF CheckTotal
  <2>4. msg' = msg /\ pages' = leaked' /\ (pc' = "done" \/ (pc' = "map" /\ i' = 1))
    BY <1>4, <2>1 DEF CheckTotal, Reject, mapVars
  <2>5. 1 \in 1..msg.pack_cnt
    BY <2>1
  <2>6. Progress' /\ SumBounded' /\ Mapping'
    BY <2>1, <2>2, <2>4, <2>5 DEF Progress, SumBounded, Mapping, Checked
  <2> QED
    BY <2>3, <2>6 DEF IInv
<1> QED
  BY <1>1, <1>2, <1>3, <1>4

(* The packs of an accepted message, at each step of the passes.           *)
LEMMA PackInHand ==
  ASSUME IInv, pc \in {"map", "use"}
  PROVE  /\ msg \in Messages /\ i \in 1..msg.pack_cnt /\ i \in 1..MaxPacks
         /\ msg.pack_cnt \in 1..MaxPacks /\ MaxPacks \in Nat
         /\ pack \in Pack /\ pack.len \in Nat \ {0} /\ pack.phys \in Nat
<1>1. /\ msg \in Messages /\ msg.pack_cnt \in 1..MaxPacks /\ i \in 1..msg.pack_cnt
      /\ \A k \in 1..msg.pack_cnt : Checked(msg, k)
  BY DEF IInv, Progress
<1>2. MaxPacks \in Nat /\ i \in 1..MaxPacks
  BY <1>1, PackAssumption
<1>3. pack \in Pack /\ pack.phys \in Nat
  BY <1>1, <1>2, MessageParts DEF pack
<1>4. pack.len \in 1..MaxLen /\ MaxLen \in Nat
  BY <1>1, PackAssumption DEF Checked, pack
<1> QED
  BY <1>1, <1>2, <1>3, <1>4

(* Wherever the passes go next, it is to a checked pack or to the end.     *)
LEMMA AdvanceKeeps ==
  ASSUME IInv, pc \in {"map", "use"}, UNCHANGED msg, pc' \in {"map", "done"},
         pc' = "map" => i' \in {1, i + 1} /\ i' \in 1..msg.pack_cnt
  PROVE  Progress' /\ SumBounded'
<1>1. msg \in Messages /\ msg.pack_cnt \in 1..MaxPacks /\ \A k \in 1..msg.pack_cnt : Checked(msg, k)
  BY DEF IInv, Progress
<1> QED
  BY <1>1 DEF Progress, SumBounded, Checked

LEMMA NextPackAdvances ==
  ASSUME IInv, pc \in {"map", "use"}, NextPack
  PROVE  /\ pc' \in {"map", "done"} /\ i' \in 1..MaxPacks+1
         /\ pc' = "map" => i' \in {1, i + 1} /\ i' \in 1..msg.pack_cnt
         /\ pass' \in {"snapshot", "playback"}
<1>1. i \in 1..msg.pack_cnt /\ i \in 1..MaxPacks /\ msg.pack_cnt \in 1..MaxPacks /\ MaxPacks \in Nat
  BY PackInHand
<1>2. pass \in {"snapshot", "playback"}
  BY DEF IInv, PacksTypeOK
<1>3. CASE i < msg.pack_cnt /\ i' = i + 1 /\ pc' = "map" /\ UNCHANGED pass
  BY <1>1, <1>2, <1>3
<1>4. CASE pass' = "playback" /\ i' = 1 /\ pc' = "map"
  BY <1>1, <1>4
<1>5. CASE pc' = "done" /\ UNCHANGED <<i, pass>>
  BY <1>1, <1>2, <1>5
<1> QED
  BY <1>3, <1>4, <1>5 DEF NextPack

LEMMA MapPackKeeps ==
  ASSUME IInv, MapPack
  PROVE  IInv'
<1>1. /\ pc = "map" /\ pc' = "use" /\ msg' = msg /\ i' = i /\ pack' = pack /\ leaked' = leaked
      /\ UNCHANGED <<sum_len, accepted, pass, faults>>
  BY DEF MapPack, loopVars, pack
<1>2. msg \in Messages /\ pack \in Pack /\ pack.len > 0 /\ pack.phys \in Nat
  BY <1>1, PackInHand
<1>3. pages = leaked
  BY <1>1 DEF IInv, Mapping
<1>4. PICK b \in Bases :
        /\ \A p \in pages : p[1] \notin Span(b * PageSize, MmapSize(pack))
        /\ pages' = pages \cup MappedAt(b, pack)
        /\ virt' = b * PageSize + PageOffset(pack)
  BY DEF MapPack, MappedAt
<1>5. b \in Nat /\ b * PageSize + PageOffset(pack) \in Nat
  BY <1>2, PackAssumption, SpanAtBase
<1>6. MappedAt(b, pack) \subseteq Nat \X Nat
  <2> DEFINE S == Span(b * PageSize, MmapSize(pack))
             d == RoundDown(pack.phys) \div PageSize
  <2>1. S \subseteq {b + k : k \in Nat}
    <3> DEFINE M == MmapSize(pack) \div PageSize
    <3>1. S = {b + k : k \in 0..M-1} /\ M \in Nat
      BY <1>2, <1>5, SpanAtBase
    <3> HIDE DEF S, M
    <3> QED
      BY <3>1
  <2>2. d \in Nat
    <3>1. RoundDown(pack.phys) \in Nat
      BY <1>2, RoundDownNat
    <3> QED
      BY <3>1, DivMod
  <2>3. MappedAt(b, pack) = {<<v, d + (v - b)>> : v \in S}
    BY DEF MappedAt
  <2> HIDE DEF S, d
  <2>4. ASSUME NEW v \in S PROVE v \in Nat /\ d + (v - b) \in Nat
    BY <1>5, <2>1, <2>2
  <2> QED
    BY <2>3, <2>4
<1>7. PacksTypeOK'
  <2>1. pages' \subseteq Nat \X Nat /\ leaked' \subseteq pages' /\ virt' \in Nat
    BY <1>1, <1>3, <1>4, <1>5, <1>6 DEF IInv, PacksTypeOK
  <2> QED
    BY <1>1, <2>1 DEF IInv, PacksTypeOK
<1>8. Progress' /\ SumBounded'
  BY <1>1 DEF IInv, Progress, SumBounded, Checked
<1>9. Mapping'
  BY <1>1, <1>3, <1>4 DEF Mapping
<1> QED
  BY <1>7, <1>8, <1>9 DEF IInv

LEMMA MapFailsKeeps ==
  ASSUME IInv, MapFails
  PROVE  IInv'
<1>1. /\ pc = "map" /\ msg' = msg /\ UNCHANGED <<sum_len, accepted, pages, virt, leaked>>
      /\ faults < MaxFaults /\ faults' = faults + 1
  BY DEF MapFails, mapVars, Fault
<1>2. pages = leaked
  BY <1>1 DEF IInv, Mapping
<1>3. /\ pc' \in {"map", "done"} /\ i' \in 1..MaxPacks+1
      /\ pc' = "map" => i' \in {1, i + 1} /\ i' \in 1..msg.pack_cnt
      /\ pass' \in {"snapshot", "playback"}
  <2>1. CASE pass' = "playback" /\ i' = 1 /\ UNCHANGED pc
    BY <1>1, <2>1, PackInHand
  <2>2. CASE NextPack
    BY <1>1, <2>2, NextPackAdvances
  <2> QED
    BY <2>1, <2>2 DEF MapFails
<1>4. faults' \in 0..MaxFaults
  BY <1>1, PackAssumption DEF IInv, PacksTypeOK
<1>5. PacksTypeOK'
  BY <1>1, <1>3, <1>4 DEF IInv, PacksTypeOK
<1>6. Progress' /\ SumBounded'
  BY <1>1, <1>3, AdvanceKeeps
<1>7. Mapping'
  BY <1>1, <1>2, <1>3 DEF Mapping
<1> QED
  BY <1>5, <1>6, <1>7 DEF IInv

(* The region computed anew is the region that was mapped. *)
LEMMA UnmapPackKeeps ==
  ASSUME IInv, UnmapPack
  PROVE  IInv'
<1>1. pc = "use" /\ msg' = msg /\ NextPack /\ UNCHANGED <<sum_len, accepted, virt>>
  BY DEF UnmapPack
<1>2. /\ pc' \in {"map", "done"} /\ i' \in 1..MaxPacks+1
      /\ pc' = "map" => i' \in {1, i + 1} /\ i' \in 1..msg.pack_cnt
      /\ pass' \in {"snapshot", "playback"}
  BY <1>1, NextPackAdvances
<1>3. PICK b \in Bases :
        /\ virt = b * PageSize + PageOffset(pack)
        /\ pages = leaked \cup MappedAt(b, pack)
        /\ \A p \in leaked : p[1] \notin Span(b * PageSize, MmapSize(pack))
  BY <1>1 DEF IInv, Mapping
<1>4. UnmapSpan = Span(b * PageSize, MmapSize(pack))
  <2>1. b \in Nat /\ pack \in Pack /\ pack.len > 0
    BY <1>1, PackInHand, PackAssumption
  <2>2. virt - PageOffset(pack) = b * PageSize
    <3>1. b * PageSize \in Nat /\ PageOffset(pack) \in Nat
      <4>1. pack.phys \in Nat /\ PageSize \in Nat \ {0}
        BY <1>1, PackInHand, PackAssumption
      <4>2. pack.phys % PageSize \in 0..PageSize-1
        BY <4>1, DivMod
      <4> QED
        BY <2>1, <4>1, <4>2 DEF PageOffset
    <3> DEFINE po == PageOffset(pack)
               base == b * PageSize
    <3>2. virt = base + po /\ base \in Nat /\ po \in Nat
      BY <1>3, <3>1
    <3> HIDE DEF po, base
    <3>3. virt - po = base
      BY <3>2
    <3> QED
      BY <3>3 DEF po, base
  <2>3. MunmapSize(pack) = MmapSize(pack)
    BY DEF MunmapSize, MmapSize
  <2> QED
    BY <2>2, <2>3 DEF UnmapSpan
<1>5. \A p \in MappedAt(b, pack) : p[1] \in UnmapSpan
  BY <1>4 DEF MappedAt
<1>6. pages' = leaked' /\ leaked' \subseteq Nat \X Nat /\ faults' \in 0..MaxFaults
  <2>1. leaked \subseteq pages /\ pages \subseteq Nat \X Nat /\ faults \in 0..MaxFaults
        /\ MaxFaults \in Nat
    BY PackAssumption DEF IInv, PacksTypeOK
  <2>2. CASE pages' = {p \in pages : p[1] \notin UnmapSpan} /\ UNCHANGED <<leaked, faults>>
    <3>1. {p \in pages : p[1] \notin UnmapSpan} = leaked
      BY <1>3, <1>4, <1>5
    <3> QED
      BY <2>1, <2>2, <3>1
  <2>3. CASE Fault /\ leaked' = pages /\ UNCHANGED pages
    BY <2>1, <2>3 DEF Fault
  <2> QED
    BY <2>2, <2>3 DEF UnmapPack
<1>7. PacksTypeOK'
  BY <1>1, <1>2, <1>6 DEF IInv, PacksTypeOK
<1>8. Progress' /\ SumBounded'
  BY <1>1, <1>2, AdvanceKeeps
<1>9. Mapping'
  BY <1>2, <1>6 DEF Mapping
<1> QED
  BY <1>7, <1>8, <1>9 DEF IInv

LEMMA ReturnItemKeeps ==
  ASSUME IInv, ReturnItem
  PROVE  IInv'
<1>1. 0 \in 0..Word-1 /\ 1 \in 1..MaxPacks+1 /\ 0 \in Nat
  BY PackAssumption
<1>2. PacksTypeOK'
  BY <1>1 DEF IInv, PacksTypeOK, ReturnItem
<1>3. Progress' /\ SumBounded' /\ Mapping'
  BY DEF IInv, Progress, SumBounded, Mapping, ReturnItem
<1> QED
  BY <1>2, <1>3 DEF IInv

LEMMA StepKeeps == IInv /\ [PacksNext]_vars => IInv'
<1> SUFFICES ASSUME IInv, [PacksNext]_vars PROVE IInv'
  OBVIOUS
<1>1. CASE UNCHANGED vars
  <2>1. pack' = pack
    BY <1>1 DEF vars, loopVars, pack
  <2> QED
    BY <1>1, <2>1 DEF vars, loopVars, mapVars, IInv, PacksTypeOK, Progress, SumBounded, Mapping
<1> QED
  BY <1>1, ValidationKeeps, MapPackKeeps, MapFailsKeeps, UnmapPackKeeps, ReturnItemKeeps
  DEF PacksNext

THEOREM Invariance == PacksSpec => []IInv
<1>1. PacksInit => IInv
  BY InitIInv
<1>2. IInv /\ [PacksNext]_vars => IInv'
  BY StepKeeps
<1> QED
  BY <1>1, <1>2, PTL DEF PacksSpec

-----------------------------------------------------------------------------
(* Theorems *)

(* Every variable keeps its type; the sum of lengths is a k_u32.           *)
THEOREM TypeCorrect == PacksSpec => []PacksTypeOK
<1>1. IInv => PacksTypeOK
  BY DEF IInv
<1> QED
  BY <1>1, Invariance, PTL

(* nalu_datafifo_validate_msg: sum_len + len fits 32 bits whenever its     *)
(* overflow check looks at a pack that is not too long.                    *)
THEOREM NeverWraps == PacksSpec => []SumNeverWraps
<1>1. IInv => SumNeverWraps
  <2> SUFFICES ASSUME IInv, pc = "packs", i <= msg.pack_cnt, pack.len <= MaxLen
               PROVE  sum_len + pack.len < Word
    BY DEF SumNeverWraps
  <2>1. msg \in Messages /\ i \in 1..MaxPacks /\ MaxLen \in Nat
    BY PackAssumption DEF IInv, PacksTypeOK, Progress
  <2>2. pack.len \in 0..MaxLen
    BY <2>1, MessageParts DEF pack
  <2> QED
    BY <2>2, RoomForPack
<1> QED
  BY <1>1, Invariance, PTL

(* little_sys_munmap: the pages it computes from the pack's address are    *)
(* those little_sys_mmap got, so that between packs nothing is mapped but  *)
(* what a failing munmap() left.                                           *)
THEOREM Unmapped == PacksSpec => []NothingStaysMapped
<1>1. IInv => NothingStaysMapped
  BY DEF IInv, Mapping, NothingStaysMapped
<1> QED
  BY <1>1, Invariance, PTL

(* little_sys_mmap: while a pack is in use, each of its bytes is mapped    *)
(* where the pointer it returned says, at its own physical address.        *)
THEOREM WholePackSeen == PacksSpec => []SeesWholePack
<1>1. IInv => SeesWholePack
  <2> SUFFICES ASSUME IInv, pc = "use", NEW n \in 0..pack.len - 1
               PROVE  /\ <<(virt + n) \div PageSize, (pack.phys + n) \div PageSize>> \in pages
                      /\ (virt + n) % PageSize = (pack.phys + n) % PageSize
    BY DEF SeesWholePack
  <2>1. PICK b \in Bases :
          virt = b * PageSize + PageOffset(pack) /\ pages = leaked \cup MappedAt(b, pack)
    BY DEF IInv, Mapping
  <2>2. b \in Nat /\ pack \in Pack
    BY PackInHand, PackAssumption
  <2>3. /\ <<(b * PageSize + PageOffset(pack) + n) \div PageSize, (pack.phys + n) \div PageSize>>
              \in MappedAt(b, pack)
        /\ (b * PageSize + PageOffset(pack) + n) % PageSize = (pack.phys + n) % PageSize
    BY <2>2, BytesInPlace
  <2> QED
    BY <2>1, <2>3
<1> QED
  BY <1>1, Invariance, PTL

-----------------------------------------------------------------------------
(* The verdict of nalu_datafifo_validate_msg.  The packs whose lengths are *)
(* in sum_len have as many bytes, and a message is accepted or refused     *)
(* where its first fault is found.                                         *)
Counted ==
  /\ pc \in {"idle", "header", "packs"} => ~accepted
  /\ pc = "packs" => msg.genuine /\ sum_len = Cardinality(Bytes(msg, i - 1))
  /\ pc \in {"map", "use"} => accepted /\ Good(msg)
  /\ pc = "done" => (accepted <=> Good(msg))

(* Bytes of the first n packs are finite; no pack, no byte. *)
LEMMA BytesFinite ==
  ASSUME NEW m, NEW n \in Nat
  PROVE  IsFiniteSet(Bytes(m, n)) /\ Bytes(m, 0) = {}
<1>1. IsFiniteSet(1..n) /\ IsFiniteSet(1..MaxLen)
  BY FS_Interval, PackAssumption
<1>2. IsFiniteSet((1..n) \X (1..MaxLen))
  BY <1>1, FS_Product
<1>3. Bytes(m, n) \in SUBSET ((1..n) \X (1..MaxLen))
  BY DEF Bytes
<1>4. Bytes(m, 0) = {}
  BY DEF Bytes
<1> QED
  BY <1>2, <1>3, <1>4, FS_Subset

(* One more pack has its own bytes and adds as many as it is long. *)
LEMMA BytesAdd ==
  ASSUME NEW m, NEW n \in Nat \ {0}, m.packs[n].len \in 1..MaxLen
  PROVE  Cardinality(Bytes(m, n)) = Cardinality(Bytes(m, n - 1)) + m.packs[n].len
<1> DEFINE len == m.packs[n].len
           New == {n} \X (1..len)
           Old == Bytes(m, n - 1)
<1>1. n - 1 \in Nat /\ len \in Nat /\ MaxLen \in Nat
  BY PackAssumption
<1>2. IsFiniteSet({n}) /\ Cardinality({n}) = 1 /\ IsFiniteSet(1..len) /\ Cardinality(1..len) = len
  <2>1. IsFiniteSet({n}) /\ Cardinality({n}) = 1
    BY FS_Singleton
  <2>2. 1 \in Int /\ len \in Int /\ len >= 1
    BY <1>1
  <2> HIDE DEF len
  <2>3. IsFiniteSet(1..len) /\ Cardinality(1..len) = IF 1 > len THEN 0 ELSE len - 1 + 1
    BY <2>2, FS_Interval
  <2>4. Cardinality(1..len) = len
    BY <2>2, <2>3
  <2> QED
    BY <2>1, <2>3, <2>4
<1>3. IsFiniteSet(New) /\ Cardinality(New) = len
  <2>1. IsFiniteSet(New) /\ Cardinality(New) = Cardinality({n}) * Cardinality(1..len)
    BY <1>2, FS_Product
  <2> HIDE DEF New, len
  <2> QED
    BY <1>1, <1>2, <2>1
<1>4. IsFiniteSet(Old)
  BY <1>1, BytesFinite
<1>5. Bytes(m, n) = Old \cup New
  <2>1. \A b \in (1..n) \X (1..MaxLen) : b \in Bytes(m, n) <=> b \in Old \cup New
    <3> SUFFICES ASSUME NEW k \in 1..n, NEW l \in 1..MaxLen
                 PROVE  <<k, l>> \in Bytes(m, n) <=> <<k, l>> \in Old \cup New
      OBVIOUS
    <3>1. CASE k = n
      <4>1. <<k, l>> \in Bytes(m, n) <=> l <= len
        BY <3>1 DEF Bytes
      <4>2. <<k, l>> \notin Old
        BY <1>1, <3>1 DEF Bytes
      <4>3. <<k, l>> \in New <=> l <= len
        BY <1>1, <3>1
      <4> QED
        BY <4>1, <4>2, <4>3
    <3>2. CASE k # n
      <4>1. k \in 1..n-1
        BY <3>2
      <4>2. <<k, l>> \notin New
        BY <3>2
      <4> QED
        BY <4>1, <4>2 DEF Bytes
    <3> QED
      BY <3>1, <3>2
  <2>2. Bytes(m, n) \subseteq (1..n) \X (1..MaxLen)
    BY DEF Bytes
  <2>3. Old \subseteq (1..n) \X (1..MaxLen)
    <3>1. 1..n-1 \subseteq 1..n
      OBVIOUS
    <3> QED
      BY <3>1 DEF Bytes
  <2>4. New \subseteq (1..n) \X (1..MaxLen)
    BY <1>1
  <2> HIDE DEF Old, New
  <2> QED
    BY <2>1, <2>2, <2>3, <2>4
<1>6. Old \cap New = {}
  <2> SUFFICES ASSUME NEW b \in Old, b \in New PROVE FALSE
    OBVIOUS
  <2>1. b[1] = n
    OBVIOUS
  <2>2. b[1] \in 1..n-1
    BY DEF Bytes
  <2> QED
    BY <1>1, <2>1, <2>2
<1> HIDE DEF Old, New, len
<1>7. Cardinality(Old \cup New) = Cardinality(Old) + Cardinality(New) - Cardinality(Old \cap New)
  BY <1>3, <1>4, FS_Union
<1>8. Cardinality(Old \cap New) = 0 /\ Cardinality(Old) \in Nat
  BY <1>4, <1>6, FS_EmptySet, FS_CardinalityType
<1> QED
  BY <1>1, <1>3, <1>5, <1>7, <1>8 DEF Old, len

LEMMA InitCounted == PacksInit => Counted
  BY DEF PacksInit, Counted

LEMMA ValidationCounts ==
  ASSUME IInv, Counted, ReadItem \/ CheckHeader \/ CheckPack \/ CheckTotal
  PROVE  Counted'
<1>1. CASE ReadItem
  BY <1>1 DEF Counted, ReadItem, loopVars
<1>2. CASE CheckHeader
  <2>1. msg' = msg /\ accepted' = accepted /\ ~accepted /\ sum_len = 0 /\ i = 1
    BY <1>2 DEF IInv, SumBounded, Counted, CheckHeader, Reject, loopVars
  <2>2. CASE (~msg.genuine \/ msg.pack_cnt = 0 \/ msg.pack_cnt > MaxPacks) /\ Reject
    <3>1. ~Good(msg)
      <4>1. ~msg.genuine \/ msg.pack_cnt \notin 1..MaxPacks
        BY <2>2, PackAssumption
      <4> QED
        BY <4>1 DEF Good
    <3> QED
      BY <2>1, <2>2, <3>1 DEF Counted, Reject
  <2>3. CASE msg.genuine /\ msg.pack_cnt \in 1..MaxPacks /\ pc' = "packs" /\ UNCHANGED loopVars
    <3>1. Cardinality(Bytes(msg, 0)) = 0
      BY BytesFinite, FS_EmptySet
    <3>2. i' - 1 = 0 /\ sum_len' = 0
      BY <2>1, <2>3 DEF loopVars
    <3>3. msg'.genuine /\ sum_len' = Cardinality(Bytes(msg', i' - 1))
      BY <2>1, <2>3, <3>1, <3>2
    <3> QED
      BY <2>1, <2>3, <3>3 DEF Counted
  <2> QED
    BY <1>2, <2>2, <2>3 DEF CheckHeader
<1>3. CASE CheckPack
  <2>1. /\ msg \in Messages /\ msg.pack_cnt \in 1..MaxPacks /\ i \in 1..msg.pack_cnt
        /\ MaxPacks \in Nat /\ MaxLen \in Nat /\ Word \in Nat
    BY <1>3, PackAssumption DEF IInv, Progress, CheckPack
  <2>2. /\ i \in 1..MaxPacks /\ pack.len \in 0..Word-1 /\ pack.phys \in Nat
        /\ pack = msg.packs[i] /\ sum_len \in Nat
    BY <2>1, MessageParts DEF pack, IInv, PacksTypeOK
  <2>3. msg' = msg /\ accepted' = accepted /\ ~accepted /\ msg.genuine
        /\ sum_len = Cardinality(Bytes(msg, i - 1))
    BY <1>3 DEF Counted, CheckPack, Reject, loopVars
  <2>4. CASE (pack.phys = 0 \/ pack.len = 0 \/ Unreasonable) /\ Reject
    <3>1. pack.phys = 0 \/ pack.len \notin 1..MaxLen
      <4>1. pack.len \in 0..MaxLen => sum_len + pack.len < Word
        BY <1>3, RoomForPack DEF CheckPack
      <4>2. pack.len \in Nat
        BY <2>1, <2>2
      <4> HIDE DEF pack
      <4>3. CASE pack.len > MaxLen \/ pack.len = 0 \/ pack.phys = 0
        BY <2>1, <4>3
      <4>4. CASE sum_len > Word - 1 - pack.len
        BY <2>1, <2>2, <4>1, <4>2, <4>4
      <4> QED
        BY <2>4, <4>3, <4>4 DEF Unreasonable
    <3>2. ~Good(msg)
      BY <2>1, <2>2, <3>1 DEF Good
    <3> QED
      BY <2>3, <2>4, <3>2 DEF Counted, Reject
  <2>5. CASE /\ pack.phys /= 0 /\ pack.len /= 0 /\ ~Unreasonable
             /\ sum_len' = (sum_len + pack.len) % Word /\ i' = i + 1 /\ UNCHANGED <<pc, accepted>>
    <3>1. pack.len \in 1..MaxLen
      BY <2>1, <2>2, <2>5 DEF Unreasonable
    <3>2. sum_len + pack.len < Word
      BY <1>3, <2>1, <3>1, RoomForPack DEF CheckPack
    <3>3. sum_len' = sum_len + pack.len
      <4> HIDE DEF pack
      <4> QED
        BY <2>1, <2>2, <2>5, <3>1, <3>2
    <3>4. Cardinality(Bytes(msg, i)) = Cardinality(Bytes(msg, i - 1)) + pack.len
      BY <2>1, <2>2, <3>1, BytesAdd
    <3>5. i' - 1 = i /\ pc' = "packs"
      BY <1>3, <2>1, <2>5 DEF CheckPack
    <3>6. sum_len' = Cardinality(Bytes(msg', i' - 1))
      BY <2>3, <3>3, <3>4, <3>5
    <3> QED
      BY <2>3, <2>5, <3>5, <3>6 DEF Counted
  <2> QED
    BY <1>3, <2>4, <2>5 DEF CheckPack
<1>4. CASE CheckTotal
  <2>1. /\ msg \in Messages /\ msg.pack_cnt \in 1..MaxPacks /\ i = msg.pack_cnt + 1
        /\ \A k \in 1..msg.pack_cnt : k < i => Checked(msg, k)
    BY <1>4, PackAssumption DEF IInv, Progress, CheckTotal
  <2>2. /\ msg' = msg /\ ~accepted /\ msg.genuine
        /\ sum_len = Cardinality(Bytes(msg, msg.pack_cnt))
    <3>1. i - 1 = msg.pack_cnt
      BY <2>1
    <3> QED
      BY <1>4, <3>1 DEF Counted, CheckTotal
  <2>3. \A k \in 1..msg.pack_cnt : msg.packs[k].phys /= 0 /\ msg.packs[k].len \in 1..MaxLen
    BY <2>1 DEF Checked
  <2>4. Good(msg) <=> msg.total_len \in {0, sum_len}
    BY <2>1, <2>2, <2>3 DEF Good
  <2> QED
    BY <1>4, <2>2, <2>4 DEF Counted, CheckTotal, Reject, loopVars
<1> QED
  BY <1>1, <1>2, <1>3, <1>4

(* The passes leave the verdict as it is, and the next item starts without *)
(* one.                                                                    *)
LEMMA PassesCount ==
  ASSUME Counted, MapPack \/ MapFails \/ UnmapPack \/ ReturnItem
  PROVE  Counted'
<1>1. CASE MapPack \/ MapFails \/ UnmapPack
  <2>1. pc \in {"map", "use"} /\ pc' \in {"map", "use", "done"} /\ UNCHANGED <<msg, accepted>>
    BY <1>1 DEF MapPack, MapFails, UnmapPack, NextPack, loopVars
  <2> QED
    BY <2>1 DEF Counted
<1>2. CASE ReturnItem
  BY <1>2 DEF Counted, ReturnItem
<1> QED
  BY <1>1, <1>2

LEMMA StepCounts == IInv /\ Counted /\ [PacksNext]_vars => Counted'
<1> SUFFICES ASSUME IInv, Counted, [PacksNext]_vars PROVE Counted'
  OBVIOUS
<1>1. CASE UNCHANGED vars
  BY <1>1 DEF vars, loopVars, Counted
<1> QED
  BY <1>1, ValidationCounts, PassesCount DEF PacksNext

(* nalu_datafifo_validate_msg accepts the good messages and no others: its *)
(* 32-bit sum is the number of bytes of this message's packs, and a        *)
(* message is refused only for a fault it has.                             *)
THEOREM VerdictCorrect == PacksSpec => []AcceptsTheGood
<1>1. PacksSpec => []Counted
  BY InitCounted, StepCounts, Invariance, PTL DEF PacksSpec
<1>2. Counted => AcceptsTheGood
  BY DEF Counted, AcceptsTheGood
<1> QED
  BY <1>1, <1>2, PTL
===============================================================================
