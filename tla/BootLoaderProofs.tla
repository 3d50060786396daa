-------------------------- MODULE BootLoaderProofs --------------------------
(***************************************************************************)
(* Proofs that the boot loader loads any kernel that fits the floppy:      *)
(* BootLoader's inductive invariant, action by action, and the safety      *)
(* properties that follow from it.                                         *)
(***************************************************************************)
EXTENDS BootLoader, SequenceTheorems, TLAPS

-----------------------------------------------------------------------------
(* Arithmetic of the disk *)

\* A rounded-up division by 512.
LEMMA BlocksRound ==
    ASSUME NEW sz \in Nat \ {0}
    PROVE  /\ Blocks(sz) \in Nat \ {0}
           /\ Blocks(sz) * 512 >= sz /\ (Blocks(sz) - 1) * 512 < sz
  <1>1. sz \div 512 \in Nat /\ sz % 512 \in 0..511
    OBVIOUS
  <1>2. sz = 512 * (sz \div 512) + (sz % 512)
    OBVIOUS
  <1> QED BY <1>1, <1>2 DEF Blocks

\* The patched word is the number of blocks of the kernel, as it fits the disk.
LEMMA SectorsFit ==
    ASSUME size \in KernelSizes, sectors = Patch(size)
    PROVE  /\ sectors \in Nat /\ 1 <= sectors /\ sectors <= 2878
           /\ sectors * 512 >= size /\ (sectors - 1) * 512 < size
  <1>1. size \in Nat \ {0} /\ Blocks(size) <= 2878
    BY KernelFits DEF Capacity, Cyls, Heads, Spt
  <1>2. Blocks(size) \in Nat \ {0}
        /\ Blocks(size) * 512 >= size /\ (Blocks(size) - 1) * 512 < size
    BY <1>1, BlocksRound
  <1>3. \A b \in Nat : b <= 2878 => b % 65536 = b
    OBVIOUS
  <1>4. sectors = Blocks(size)
    BY <1>1, <1>2, <1>3 DEF Patch
  <1> QED BY <1>1, <1>2, <1>4

\* Numbers that fit a byte and a word.
LEMMA SmallNumbers ==
    /\ \A n \in Nat : n <= 255 => n \in Byte
    /\ \A n \in Nat : n <= 2878 => n \in Word
  <1>1. ByteMax \in Nat /\ 255 <= ByteMax /\ WordMax \in Nat /\ 2878 <= WordMax
    BY DEF ByteMax, WordMax
  <1> QED BY <1>1 DEF Byte, Word

\* What is loaded, first and in all, of either part.
LEMMA TotalFits ==
    ASSUME IInv
    PROVE  /\ FirstLba \in Nat /\ 1 <= FirstLba
           /\ Total \in Nat /\ 1 <= Total /\ Total <= 2878 /\ FirstLba + Total <= 2880
           /\ Len(loaded) \in Nat
  <1>1. sectors \in Nat /\ 1 <= sectors /\ sectors <= 2878
    BY SectorsFit DEF IInv, TypeOK
  <1>2. Len(loaded) \in Nat
    BY LenProperties DEF IInv, TypeOK
  <1>3. \/ FirstLba = 1 /\ Total = 1
        \/ FirstLba = 2 /\ Total = sectors
    BY DEF FirstLba, Total
  <1> QED BY <1>1, <1>2, <1>3

\* The length of a read, with the width of al and the sign of cx out of the way.
LEMMA CountIs ==
    ASSUME NEW s \in Nat, 1 <= s, s <= 18, NEW left \in Nat, left <= 2878
    PROVE  Count(s, left) = IF 19 - s < left THEN 19 - s ELSE left
  <1>1. (19 - s) % 256 = 19 - s
    OBVIOUS
  <1>2. Signed16(left) = left
    BY DEF Signed16
  <1>3. CASE 19 - s < left
    BY <1>1, <1>2, <1>3 DEF Count
  <1>4. CASE ~(19 - s < left)
    <2>1. left % 256 = left
      BY <1>4
    <2> QED BY <1>1, <1>2, <1>4, <2>1 DEF Count
  <1> QED BY <1>3, <1>4

\* The read load_floppy works out for a position is one the BIOS can do, and it
\* either ends the track or ends the part.
LEMMA CountFits ==
    ASSUME IInv, NEW c \in Nat, NEW h \in Nat, NEW s, NEW left,
           Position(c, h, s, left)
    PROVE  /\ c < 80 /\ s \in Nat /\ left \in Nat
           /\ Count(s, left) \in Nat /\ 1 <= Count(s, left) /\ Count(s, left) <= left
           /\ 1 <= s /\ s + Count(s, left) <= 19
           /\ Count(s, left) < left => s + Count(s, left) = 19
  <1>1. /\ FirstLba \in Nat /\ Total \in Nat /\ Total <= 2878 /\ FirstLba + Total <= 2880
        /\ 1 <= FirstLba /\ Len(loaded) \in Nat
    BY TotalFits
  <1>2. s \in Nat /\ 1 <= s /\ s <= 18
    BY DEF Position, Spt
  <1>3. left = Total - Len(loaded) /\ left > 0
    BY DEF Position
  <1>4. (c * 2 + h) * 18 + (s - 1) = FirstLba + Len(loaded)
    BY DEF Position, Lba, Heads, Spt
  <1>5. left \in Nat /\ left <= 2878
    BY <1>1, <1>3
  <1>6. c < 80
    BY <1>1, <1>2, <1>3, <1>4
  <1>7. Count(s, left) = IF 19 - s < left THEN 19 - s ELSE left
    BY <1>2, <1>5, CountIs
  <1> QED BY <1>2, <1>3, <1>5, <1>6, <1>7

-----------------------------------------------------------------------------
(* One lemma per action: the inductive invariant is preserved *)

\* load_floppy is entered, for either part, at the part's first sector.
LEMMA CallStep ==
    ASSUME IInv, retrycnt = 3, NEW p, NEW first, NEW count,
           \/ p = "stage2" /\ first = 2 /\ count = 1
           \/ p = "kernel" /\ first = 3 /\ count = sectors,
           CallLoadFloppy(p, first, count),
           UNCHANGED <<diskVars, memVars, req, saved, retrycnt, errors>>
    PROVE  IInv'
  <1> USE DEF diskVars, memVars
  <1>1. sectors \in Nat /\ 1 <= sectors /\ sectors <= 2878 /\ sectors \in Word
    BY SectorsFit DEF IInv, TypeOK
  <1>2. /\ pc' = "load_floppy" /\ part' = p /\ loaded' = <<>>
        /\ bh' = 0 /\ bl' = first /\ cx' = count /\ dh' = 0
    BY DEF CallLoadFloppy
  <1>3. first \in Byte /\ count \in Word /\ 0 \in Byte /\ p \in {"stage2", "kernel"}
    BY <1>1, SmallNumbers
  <1>4. TypeOK'
    BY <1>2, <1>3 DEF IInv, TypeOK, Locations
  <1>5. (sectors = Patch(size))'
    BY DEF IInv
  <1>6. LoadedInOrder' /\ Len(loaded') = 0
    BY <1>2 DEF LoadedInOrder
  <1>7. Position(bh, dh, bl, cx)'
    <2>1. \/ FirstLba' = 1 /\ Total' = 1 /\ p = "stage2"
          \/ FirstLba' = 2 /\ Total' = sectors /\ p = "kernel"
      BY <1>2, <1>3 DEF FirstLba, Total
    <2> QED BY <1>1, <1>2, <1>6, <2>1 DEF Position, Lba, Spt, Heads
  <1>8. AtStart' /\ AtCall' /\ AtRead' /\ AtEnd' /\ MemInv'
    BY <1>2, <1>3, <1>7 DEF AtStart, AtCall, AtRead, AtEnd, MemInv
  <1> QED BY <1>4, <1>5, <1>6, <1>8 DEF IInv

LEMMA LoadStage2Step == ASSUME IInv, LoadStage2 PROVE IInv'
  <1>1. retrycnt = 3
    BY DEF LoadStage2, IInv, AtStart
  <1> QED BY <1>1, CallStep DEF LoadStage2

LEMMA LoadKernelStep == ASSUME IInv, LoadKernel PROVE IInv'
  <1>1. retrycnt = 3
    BY DEF LoadKernel, IInv, AtEnd
  <1> QED BY <1>1, CallStep DEF LoadKernel

\* What the actions that leave the loaded sectors and the memory size alone keep.
LEMMA SameLoaded ==
    ASSUME IInv, UNCHANGED <<size, sectors, part, loaded>>
    PROVE  /\ LoadedInOrder' /\ (sectors = Patch(size))'
           /\ Total' = Total /\ FirstLba' = FirstLba
           /\ \A c, h, s, left :
                 Position(c, h, s, left) <=> Position(c, h, s, left)'
  BY DEF IInv, LoadedInOrder, Total, FirstLba, Position

LEMMA LoadFloppyStep == ASSUME IInv, LoadFloppy PROVE IInv'
  <1> USE DEF diskVars, memVars
  <1>1. TypeOK'
    BY DEF IInv, TypeOK, LoadFloppy, Locations
  <1>2. LoadedInOrder' /\ (sectors = Patch(size))'
    BY SameLoaded DEF LoadFloppy
  <1>3. retrycnt = 3 /\ Position(bh, dh, bl, cx)
    BY DEF IInv, AtCall, LoadFloppy
  <1>4. /\ pc' = "tryagain" /\ retrycnt' = 3 /\ dh' = dh
        /\ saved'.bh = bh /\ saved'.bl = bl /\ saved'.cx = cx
        /\ bh' = bh /\ bl' = bl /\ cx' = cx
    BY <1>3 DEF LoadFloppy
  <1>5. Position(saved.bh, dh, saved.bl, saved.cx)'
    BY <1>3, <1>4 DEF LoadFloppy, Position, FirstLba, Total
  <1>6. AtStart' /\ AtCall' /\ AtRead' /\ AtEnd' /\ MemInv'
    BY <1>4, <1>5 DEF LoadFloppy, IInv, AtStart, AtCall, AtRead, AtEnd, MemInv
  <1> QED BY <1>1, <1>2, <1>6 DEF IInv

\* al is a byte whatever bl and cx are, the registers of a failed call included.
LEMMA CountByte ==
    ASSUME NEW s \in Byte, NEW left \in Word
    PROVE  Count(s, left) \in Byte
  <1>1. s \in Int /\ left \in Int
    BY DEF Byte, Word
  <1>2. (19 - s) % 256 \in Nat /\ (19 - s) % 256 <= 255
    BY <1>1
  <1>3. left % 256 \in Nat /\ left % 256 <= 255
    BY <1>1
  <1>4. Count(s, left) = (19 - s) % 256 \/ Count(s, left) = left % 256
    BY DEF Count
  <1> QED BY <1>2, <1>3, <1>4, SmallNumbers

LEMMA TryAgainStep == ASSUME IInv, TryAgain PROVE IInv'
  <1> USE DEF diskVars, memVars
  <1>1. /\ pc' = "int13" /\ retrycnt' = retrycnt /\ saved' = saved /\ dh' = dh
        /\ bh' = 128 /\ bl' = 0 /\ cx' = bh * 256 + bl
        /\ req' = [c |-> bh, h |-> dh, s |-> bl, n |-> Count(bl, cx)]
    BY DEF TryAgain
  <1>2. bh \in Byte /\ bl \in Byte /\ cx \in Word /\ dh \in 0..1
    BY DEF IInv, TypeOK
  <1>3. cx' \in Word /\ 128 \in Byte /\ 0 \in Byte
    <2>1. bh \in Nat /\ bl \in Nat /\ bh <= 255 /\ bl <= 255
      BY <1>2 DEF Byte, ByteMax
    <2>2. cx' \in Nat /\ cx' <= 65535
      BY <1>1, <2>1
    <2>3. WordMax \in Nat /\ 65535 <= WordMax
      BY DEF WordMax
    <2>4. cx' \in Word
      BY <2>2, <2>3 DEF Word
    <2> QED BY <2>4, SmallNumbers
  <1>4. req' \in [c : Byte, h : 0..1, s : Byte, n : Byte]
    BY <1>1, <1>2, CountByte
  <1>5. TypeOK'
    BY <1>1, <1>3, <1>4 DEF TryAgain, IInv, TypeOK, Locations
  <1>6. LoadedInOrder' /\ (sectors = Patch(size))'
    BY SameLoaded DEF TryAgain
  <1>7. Position(saved.bh, dh, saved.bl, saved.cx)'
    BY <1>1 DEF IInv, AtCall, TryAgain, Position, FirstLba, Total
  <1>8. \/ retrycnt = 3 /\ bh = saved.bh /\ bl = saved.bl /\ cx = saved.cx
        \/ retrycnt \in 1..2 /\ bl = 0
    BY DEF TryAgain, IInv, AtRead
  <1>9. AtRead'
    BY <1>1, <1>8 DEF AtRead
  <1>10. AtStart' /\ AtCall' /\ AtEnd' /\ MemInv'
    BY <1>1, <1>7 DEF TryAgain, IInv, AtStart, AtCall, AtEnd, MemInv
  <1> QED BY <1>5, <1>6, <1>9, <1>10 DEF IInv

\* A read the BIOS can do is one the loader worked out afresh.
LEMMA Int13OkStep == ASSUME IInv, Int13Ok PROVE IInv'
  <1> USE DEF diskVars, memVars, loadVars
  <1>1. TypeOK'
    BY DEF Int13Ok, IInv, TypeOK, Locations
  <1>2. LoadedInOrder' /\ (sectors = Patch(size))'
    BY SameLoaded DEF Int13Ok
  <1>3. retrycnt = 3
        /\ req = [c |-> saved.bh, h |-> dh, s |-> saved.bl,
                  n |-> Count(saved.bl, saved.cx)]
    BY DEF Int13Ok, Readable, IInv, AtRead
  <1>4. Position(saved.bh, dh, saved.bl, saved.cx)'
    BY DEF Int13Ok, IInv, AtCall, Position, FirstLba, Total
  <1>5. AtRead'
    BY <1>3 DEF Int13Ok, IInv, AtRead
  <1>6. AtStart' /\ AtCall' /\ AtEnd' /\ MemInv'
    BY <1>3, <1>4 DEF Int13Ok, IInv, AtStart, AtCall, AtEnd, MemInv
  <1> QED BY <1>1, <1>2, <1>5, <1>6 DEF IInv

LEMMA Int13ErrorStep == ASSUME IInv, Int13Error PROVE IInv'
  <1> USE DEF diskVars, memVars
  <1>1. errors' \in 0..MaxErrors
    BY BoundsAssumption DEF Int13Error, IInv, TypeOK
  <1>2. TypeOK'
    BY <1>1 DEF Int13Error, IInv, TypeOK, Locations
  <1>3. LoadedInOrder' /\ (sectors = Patch(size))'
    BY SameLoaded DEF Int13Error
  <1>4. retrycnt' \in 1..3 /\ bl' = 0
    BY DEF Int13Error, IInv, AtRead
  <1>5. Position(saved.bh, dh, saved.bl, saved.cx)'
    BY DEF Int13Error, IInv, AtCall, Position, FirstLba, Total
  <1>6. AtRead'
    BY <1>4 DEF Int13Error, AtRead
  <1>7. AtStart' /\ AtCall' /\ AtEnd' /\ MemInv'
    BY <1>5 DEF Int13Error, IInv, AtStart, AtCall, AtEnd, MemInv
  <1> QED BY <1>2, <1>3, <1>6, <1>7 DEF IInv

LEMMA RetryStep == ASSUME IInv, Retry PROVE IInv'
  <1> USE DEF diskVars, memVars
  <1>1. retrycnt \in 1..3 /\ bl = 0 /\ retrycnt' = retrycnt - 1
    BY DEF Retry, IInv, AtRead
  <1>2. \/ pc' = "fail" /\ retrycnt' = 0
        \/ pc' = "tryagain" /\ retrycnt' \in 1..2
    BY <1>1 DEF Retry
  <1>3. TypeOK'
    BY <1>2 DEF Retry, IInv, TypeOK, Locations
  <1>4. LoadedInOrder' /\ (sectors = Patch(size))'
    BY SameLoaded DEF Retry
  <1>5. Position(saved.bh, dh, saved.bl, saved.cx)'
    BY DEF Retry, IInv, AtCall, Position, FirstLba, Total
  <1>6. AtRead'
    BY <1>1, <1>2 DEF Retry, AtRead
  <1>7. AtStart' /\ AtCall' /\ AtEnd' /\ MemInv'
    BY <1>2, <1>5 DEF Retry, IInv, AtStart, AtCall, AtEnd, MemInv
  <1> QED BY <1>3, <1>4, <1>6, <1>7 DEF IInv

\* The track after a track, across heads and cylinders.
LEMMA NextTrackFollows ==
    ASSUME NEW c \in Nat, NEW h \in Nat, h = 0 \/ h = 1,
           NEW s \in Nat, NEW n \in Nat, s + n = 19,
           NEW at \in Nat, NEW len \in Nat,
           (c * 2 + h) * 18 + (s - 1) = at + len
    PROVE  ((IF h = 1 THEN c + 1 ELSE c) * 2 + (1 - h)) * 18 = at + (len + n)
  <1>1. CASE h = 0
    BY <1>1
  <1>2. CASE h = 1
    BY <1>2
  <1> QED BY <1>1, <1>2

\* The copy: what is loaded grows by the sectors read, which are the next ones,
\* and the registers move to the sector after them.
LEMMA OkokStep == ASSUME IInv, Okok PROVE IInv'
  <1> USE DEF diskVars, memVars
  <1> DEFINE c == saved.bh  h == dh  s == saved.bl  left == saved.cx
             n == Count(s, left)  len == Len(loaded)
  <1>1. /\ pc = "okok" /\ retrycnt' = 3 /\ bl' = 1 /\ cx' = left - n
        /\ pc' = IF left > n THEN "load_floppy" ELSE "loaded"
        /\ req = [c |-> c, h |-> h, s |-> s, n |-> n]
        /\ Position(c, h, s, left)
    BY DEF Okok, IInv, AtCall, AtRead
  <1>2. c \in Nat /\ h \in Nat /\ (h = 0 \/ h = 1)
    <2>1. saved.bh \in Byte /\ dh \in 0..1
      BY DEF IInv, TypeOK
    <2> QED BY <2>1 DEF Byte
  <1>3. /\ c < 80 /\ s \in Nat /\ left \in Nat
        /\ n \in Nat /\ 1 <= n /\ n <= left /\ 1 <= s /\ s + n <= 19
        /\ n < left => s + n = 19
    BY <1>1, <1>2, CountFits
  <1>4. /\ FirstLba \in Nat /\ 1 <= FirstLba /\ Total \in Nat /\ Total <= 2878
        /\ len \in Nat
    BY TotalFits
  <1>5. (c * 2 + h) * 18 + (s - 1) = FirstLba + len /\ left = Total - len
    BY <1>1 DEF Position, Lba, Heads, Spt
  <1>6. /\ loaded' = [i \in 1..len + n |->
                        IF i <= len THEN loaded[i] ELSE FirstLba + len + (i - len - 1)]
    <2>1. Lba(req.c, req.h, req.s) = FirstLba + len /\ req.n = n
      BY <1>1 DEF Position
    <2> QED BY <2>1 DEF Okok
  <1>7. \A i \in 1..len : loaded[i] = FirstLba + i - 1
    BY <1>1 DEF IInv, LoadedInOrder, AtEnd
  <1>8. loaded' = [i \in 1..len + n |-> FirstLba + i - 1]
    <2>1. \A i \in 1..len + n :
              (IF i <= len THEN loaded[i] ELSE FirstLba + len + (i - len - 1))
                  = FirstLba + i - 1
      <3> SUFFICES ASSUME NEW i \in 1..len + n
                   PROVE  (IF i <= len THEN loaded[i] ELSE FirstLba + len + (i - len - 1))
                              = FirstLba + i - 1
        OBVIOUS
      <3>1. CASE i <= len
        BY <1>3, <1>4, <1>7, <3>1
      <3>2. CASE ~(i <= len)
        BY <1>3, <1>4, <3>2
      <3> QED BY <3>1, <3>2
    <2> QED BY <1>6, <2>1
  <1>9. loaded' \in Seq(Nat) /\ Len(loaded') = len + n
    <2>1. len + n \in Nat /\ \A i \in 1..len + n : FirstLba + i - 1 \in Nat
      BY <1>3, <1>4
    <2>2. loaded' \in [1..len + n -> Nat]
      BY <1>8, <2>1
    <2> QED BY <2>1, <2>2, SeqDef, LenProperties
  <1>10. LoadedInOrder' /\ FirstLba' = FirstLba /\ Total' = Total
    <2>1. FirstLba' = FirstLba /\ Total' = Total
      BY DEF Okok, FirstLba, Total
    <2> QED BY <1>3, <1>4, <1>8, <1>9, <2>1 DEF LoadedInOrder
  <1>11. /\ dh' = 1 - h /\ dh' \in 0..1
         /\ bh' = (IF h = 1 THEN c + 1 ELSE c)
    <2>1. c % 256 = c /\ (c + 1) % 256 = c + 1
      BY <1>2, <1>3
    <2> QED BY <1>2, <2>1 DEF Okok, NextTrack
  <1>12. bh' \in Byte /\ 1 \in Byte /\ cx' \in Word /\ 3 \in 0..3
    <2>1. bh' \in Nat /\ bh' <= 255
      BY <1>2, <1>3, <1>11
    <2>2. cx' \in Nat /\ cx' <= 2878
      BY <1>1, <1>3, <1>4, <1>5
    <2> QED BY <2>1, <2>2, SmallNumbers
  <1>13. TypeOK'
    BY <1>1, <1>9, <1>11, <1>12 DEF Okok, IInv, TypeOK, Locations
  <1>14. left > n => Position(bh, dh, bl, cx)'
    <2> SUFFICES ASSUME left > n PROVE Position(bh, dh, bl, cx)'
      OBVIOUS
    <2>1. s + n = 19 /\ cx' = Total - (len + n) /\ cx' > 0
      BY <1>1, <1>3, <1>4, <1>5
    <2>2. (bh' * 2 + dh') * 18 = FirstLba + (len + n)
      <3> HIDE DEF c, h, s, left, n, len
      <3>1. ((IF h = 1 THEN c + 1 ELSE c) * 2 + (1 - h)) * 18 = FirstLba + (len + n)
        BY <1>2, <1>3, <1>4, <1>5, <2>1, NextTrackFollows
      <3> QED BY <1>11, <3>1
    <2>3. Lba(bh', dh', bl') = (bh' * 2 + dh') * 18 /\ bl' \in 1..Spt
      <3>1. dh' \in Nat /\ bh' \in Nat
        BY <1>2, <1>3, <1>11
      <3> QED BY <1>1, <3>1 DEF Lba, Heads, Spt
    <2> HIDE DEF c, h, s, left, n, len
    <2> QED BY <1>9, <1>10, <2>1, <2>2, <2>3 DEF Position
  <1>15. left <= n => Len(loaded') = Total'
    BY <1>3, <1>4, <1>5, <1>9, <1>10
  <1>16. part' \in {"stage2", "kernel"} /\ (sectors = Patch(size))'
    BY <1>1 DEF Okok, IInv, AtEnd
  <1>17. AtStart' /\ AtCall' /\ AtRead' /\ AtEnd' /\ MemInv'
    BY <1>1, <1>3, <1>14, <1>15, <1>16 DEF AtStart, AtCall, AtRead, AtEnd, MemInv
  <1> QED BY <1>10, <1>13, <1>16, <1>17 DEF IInv

LEMMA RebootStep == ASSUME IInv, Reboot PROVE IInv'
  <1> USE DEF diskVars, memVars
  <1>1. 0 \in Byte /\ 0 \in Word
    BY SmallNumbers
  <1>2. req' = NoReq /\ NoReq \in [c : Byte, h : 0..1, s : Byte, n : Byte]
    BY <1>1 DEF Reboot, NoReq
  <1>3. saved' \in [cx : Word, bh : Byte, bl : Byte]
    BY <1>1 DEF Reboot
  <1>4. TypeOK'
    BY <1>1, <1>2, <1>3 DEF Reboot, IInv, TypeOK, Locations
  <1>5. LoadedInOrder' /\ (sectors = Patch(size))'
    BY DEF Reboot, IInv, LoadedInOrder
  <1>6. AtStart' /\ AtCall' /\ AtRead' /\ AtEnd' /\ MemInv'
    BY DEF Reboot, AtStart, AtCall, AtRead, AtEnd, MemInv
  <1> QED BY <1>4, <1>5, <1>6 DEF IInv

\* Once the kernel is loaded, its sectors and the load's registers stay.
LEMMA AfterLoad ==
    ASSUME IInv, UNCHANGED <<diskVars, part, loadVars, bios>>,
           pc' \in {"e820", "code32", "probe", "kernel"},
           part = "kernel" /\ Len(loaded) = sectors,
           ext_mem_count' \in Byte, esi' \in Nat, mem' \in Nat,
           MemInv'
    PROVE  IInv'
  <1> USE DEF diskVars, loadVars
  <1>1. TypeOK'
    BY DEF IInv, TypeOK, Locations
  <1>2. LoadedInOrder' /\ (sectors = Patch(size))'
    BY SameLoaded
  <1>3. AtStart' /\ AtCall' /\ AtRead' /\ AtEnd'
    BY DEF AtStart, AtCall, AtRead, AtEnd
  <1> QED BY <1>1, <1>2, <1>3 DEF IInv

LEMMA FindMemStep == ASSUME IInv, FindMem PROVE IInv'
  <1>1. part = "kernel" /\ Len(loaded) = sectors
    BY DEF FindMem, IInv, AtEnd, Total
  <1>2. bios.entries \in 0..MaxE820 /\ esi \in Nat /\ mem \in Nat
    BY DEF IInv, TypeOK
  <1>3. MemInv' /\ ext_mem_count' = 0
    BY <1>2, BoundsAssumption DEF FindMem, MemInv
  <1>4. 0 \in Byte
    BY SmallNumbers
  <1> QED BY <1>1, <1>2, <1>3, <1>4, AfterLoad DEF FindMem, loadVars

LEMMA E820EntryStep == ASSUME IInv, E820Entry PROVE IInv'
  <1>1. part = "kernel" /\ Len(loaded) = sectors
    BY DEF E820Entry, IInv, AtEnd
  <1>2. /\ bios.entries \in Nat /\ bios.entries <= 96
        /\ esi \in Nat /\ mem \in Nat /\ ext_mem_count \in Byte
    BY BoundsAssumption, SMTT(30) DEF IInv, TypeOK
  <1>3. ext_mem_count \in Nat
    BY <1>2 DEF Byte
  <1>4. ext_mem_count' = ext_mem_count + 1 /\ ext_mem_count + 1 <= bios.entries
    <2>1. ext_mem_count < bios.entries /\ ext_mem_count' = (ext_mem_count + 1) % 256
      BY DEF E820Entry
    <2> QED BY <1>2, <1>3, <2>1
  <1>5. ext_mem_count' \in Byte
    BY <1>2, <1>3, <1>4, SmallNumbers
  <1>6. MemInv'
    BY <1>2, <1>3, <1>4 DEF E820Entry, MemInv
  <1>7. pc' \in {"e820", "code32"} /\ UNCHANGED <<diskVars, part, loadVars, bios, esi, mem>>
    BY DEF E820Entry
  <1> QED BY <1>1, <1>2, <1>5, <1>6, <1>7, AfterLoad

LEMMA E820CarryStep == ASSUME IInv, E820Carry PROVE IInv'
  <1>1. part = "kernel" /\ Len(loaded) = sectors
    BY DEF E820Carry, IInv, AtEnd
  <1>2. esi \in Nat /\ mem \in Nat /\ ext_mem_count \in Byte
    BY DEF IInv, TypeOK
  <1>3. MemInv'
    BY DEF E820Carry, memVars, MemInv
  <1> QED BY <1>1, <1>2, <1>3, AfterLoad DEF E820Carry, memVars

LEMMA ProbeStartFits == MB \in Nat /\ ProbeStart \in Nat /\ ProbeStart = MB + 4096 - 16
  BY DEF MB, ProbeStart

LEMMA Code32Step == ASSUME IInv, Code32 PROVE IInv'
  <1>1. part = "kernel" /\ Len(loaded) = sectors
    BY DEF Code32, IInv, AtEnd
  <1>2. /\ bios.pages \in Nat /\ esi \in Nat /\ mem \in Nat /\ ext_mem_count \in Byte
    BY BoundsAssumption DEF IInv, TypeOK
  <1>3. ext_mem_count = bios.entries
    BY DEF Code32, IInv, MemInv
  <1>4. ProbeStart = ProbeStart + 4096 * 0 /\ 0 \in 0..bios.pages
    BY <1>2, ProbeStartFits
  <1>5. MemInv'
    BY <1>3, <1>4 DEF Code32, MemInv
  <1>6. esi' \in Nat /\ mem' \in Nat
    BY <1>2, ProbeStartFits DEF Code32
  <1> QED BY <1>1, <1>2, <1>5, <1>6, AfterLoad DEF Code32

LEMMA ProbePageStep == ASSUME IInv, ProbePage PROVE IInv'
  <1>1. part = "kernel" /\ Len(loaded) = sectors /\ ext_mem_count = 0
    BY DEF ProbePage, IInv, AtEnd, MemInv
  <1>2. bios.pages \in Nat /\ esi \in Nat /\ mem \in Nat /\ ext_mem_count \in Byte
    BY BoundsAssumption DEF IInv, TypeOK
  <1>3. PICK k \in 0..bios.pages : esi = ProbeStart + 4096 * k
    BY DEF ProbePage, IInv, MemInv
  <1>4. CASE PresentAt(esi)
    <2>1. pc' = "probe" /\ esi' = esi + 4096 /\ mem' = mem
      BY <1>4 DEF ProbePage
    <2>2. k + 1 \in 0..bios.pages /\ esi' = ProbeStart + 4096 * (k + 1)
      BY <1>2, <1>3, <1>4, <2>1, ProbeStartFits DEF PresentAt
    <2>3. MemInv'
      BY <1>1, <2>1, <2>2 DEF ProbePage, MemInv
    <2> QED BY <1>1, <1>2, <2>1, <2>3, AfterLoad DEF ProbePage
  <1>5. CASE ~PresentAt(esi)
    <2>1. pc' = "kernel" /\ esi' = esi /\ mem' = esi - 4096 + 16
      BY <1>5 DEF ProbePage
    <2>2. k = bios.pages
      BY <1>2, <1>3, <1>5, ProbeStartFits DEF PresentAt
    <2>3. mem' = MB + 4096 * bios.pages /\ mem' \in Nat
      BY <1>2, <1>3, <2>1, <2>2, ProbeStartFits
    <2>4. MemInv'
      BY <1>1, <2>1, <2>3 DEF ProbePage, MemInv
    <2> QED BY <1>1, <1>2, <2>1, <2>3, <2>4, AfterLoad DEF ProbePage
  <1> QED BY <1>4, <1>5

LEMMA InitInv == Init => IInv
  <1> SUFFICES ASSUME Init PROVE IInv
    OBVIOUS
  <1>1. 0 \in Byte /\ 0 \in Word
    BY SmallNumbers
  <1>2. size \in KernelSizes /\ sectors = Patch(size) /\ sectors \in Word
    <2>1. size \in KernelSizes /\ sectors = Patch(size)
      BY DEF Init
    <2> QED BY <2>1, SectorsFit, SmallNumbers
  <1>3. req \in [c : Byte, h : 0..1, s : Byte, n : Byte]
    BY <1>1 DEF Init, NoReq
  <1>4. saved \in [cx : Word, bh : Byte, bl : Byte]
    BY <1>1 DEF Init
  <1>5. TypeOK
    BY <1>1, <1>2, <1>3, <1>4, BoundsAssumption DEF Init, TypeOK, Locations
  <1>6. LoadedInOrder /\ AtStart /\ AtCall /\ AtRead /\ AtEnd /\ MemInv
    BY DEF Init, LoadedInOrder, AtStart, AtCall, AtRead, AtEnd, MemInv
  <1> QED BY <1>2, <1>5, <1>6 DEF IInv

LEMMA StutterStep == IInv /\ UNCHANGED vars => IInv'
  BY DEF vars, diskVars, loadVars, memVars, IInv, TypeOK, LoadedInOrder, FirstLba,
         Total, Position, AtStart, AtCall, AtRead, AtEnd, MemInv, PresentAt

-----------------------------------------------------------------------------
(* The theorems *)

\* The loader's inductive invariant holds throughout, for every set of kernels
\* that fit the floppy, any number of read errors and any memory.
THEOREM Invariance == Spec => []IInv
  <1>1. Init => IInv
    BY InitInv
  <1>2. IInv /\ [Next]_vars => IInv'
    <2> SUFFICES ASSUME IInv, [Next]_vars PROVE IInv'
      OBVIOUS
    <2>1. CASE LoaderStep
      BY <2>1, LoadStage2Step, LoadFloppyStep, TryAgainStep, RetryStep, OkokStep,
         LoadKernelStep, FindMemStep, E820EntryStep, E820CarryStep, Code32Step,
         ProbePageStep DEF LoaderStep
    <2>2. CASE Int13Ok \/ Int13Error
      BY <2>2, Int13OkStep, Int13ErrorStep
    <2>3. CASE Reboot
      BY <2>3, RebootStep
    <2>4. CASE KernelRuns \/ UNCHANGED vars
      BY <2>4, StutterStep DEF KernelRuns
    <2> QED BY <2>1, <2>2, <2>3, <2>4 DEF Next
  <1> QED BY <1>1, <1>2, PTL DEF Spec

\* The registers keep to their widths (bootblock.S:198-245).
THEOREM TypeCorrect == Spec => []TypeOK
  <1>1. IInv => TypeOK
    BY DEF IInv
  <1> QED BY <1>1, Invariance, PTL

\* No read of load_floppy leaves its track, for any kernel (bootblock.S:206-219).
THEOREM TracksKept == Spec => []ReadsStayInTrack
  <1>1. IInv => ReadsStayInTrack
    <2> SUFFICES ASSUME IInv, pc = "int13", retrycnt = 3 PROVE Readable(req)
      BY DEF ReadsStayInTrack
    <2>1. /\ req = [c |-> saved.bh, h |-> dh, s |-> saved.bl,
                    n |-> Count(saved.bl, saved.cx)]
          /\ Position(saved.bh, dh, saved.bl, saved.cx)
      BY DEF IInv, AtCall, AtRead
    <2>2. saved.bh \in Nat /\ dh \in Nat /\ dh < 2
      <3>1. saved.bh \in Byte /\ dh \in 0..1
        BY DEF IInv, TypeOK
      <3> QED BY <3>1 DEF Byte
    <2>3. /\ saved.bh < 80 /\ saved.bl \in Nat /\ 1 <= saved.bl
          /\ Count(saved.bl, saved.cx) \in Nat /\ 1 <= Count(saved.bl, saved.cx)
          /\ saved.bl + Count(saved.bl, saved.cx) <= 19
      BY <2>1, <2>2, CountFits
    <2> QED BY <2>1, <2>2, <2>3 DEF Readable, Cyls, Heads, Spt
  <1> QED BY <1>1, Invariance, PTL

\* What is in memory is at any time a gapless run of the disk, across heads,
\* cylinders, errors and reboots (bootblock.S:226-245).
THEOREM GaplessLoad == Spec => []LoadedInOrder
  <1>1. IInv => LoadedInOrder
    BY DEF IInv
  <1> QED BY <1>1, Invariance, PTL

\* The kernel is entered with all of its file in memory and with the size of
\* memory or its map (bootblock.S:121-176).
THEOREM KernelWhole == Spec => []KernelComplete
  <1>1. IInv => KernelComplete
    <2> SUFFICES ASSUME IInv, pc = "kernel"
                 PROVE  /\ part = "kernel"
                        /\ Len(loaded) * 512 >= size /\ (Len(loaded) - 1) * 512 < size
                        /\ IF ext_mem_count # 0 THEN ext_mem_count = bios.entries
                                                ELSE mem = MB + 4096 * bios.pages
      BY DEF KernelComplete
    <2>1. part = "kernel" /\ Len(loaded) = sectors
      BY DEF IInv, AtEnd
    <2>2. sectors * 512 >= size /\ (sectors - 1) * 512 < size
      BY SectorsFit DEF IInv, TypeOK
    <2>3. IF ext_mem_count # 0 THEN ext_mem_count = bios.entries
                               ELSE mem = MB + 4096 * bios.pages
      BY DEF IInv, MemInv
    <2> QED BY <2>1, <2>2, <2>3
  <1> QED BY <1>1, Invariance, PTL
=============================================================================
