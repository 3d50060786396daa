----------------------------- MODULE BootLoader -----------------------------
(***************************************************************************)
(* The boot sector of bootblock.S, from the first load to the jump into    *)
(* the kernel, and the patch makeflop.c applies to it.                     *)
(*                                                                         *)
(* A sector is known by its linear number on the floppy; what the loader   *)
(* copies to memory is a function from the sectors of the destination,     *)
(* counted from its start, to the disk sectors found there.  Registers are *)
(* those of the code: bh and bl, cx, dh and the count left in al.          *)
(***************************************************************************)
EXTENDS Integers, Sequences

CONSTANTS
    KernelSizes,   \* sizes in bytes of the kernel files considered
    MaxErrors,     \* bound: read errors of a working disk
    MaxE820,       \* bound: entries of the BIOS memory map
    MaxPages       \* bound: 4K pages of memory above 1 MB

\* A 1.44 MB floppy, as the BIOS and the 0x13 of load_floppy have it.
Spt   == 18
Heads == 2
Cyls  == 80

\* Registers of eight and sixteen bits.
ByteMax == 255
WordMax == 65535
Byte == 0..ByteMax
Word == 0..WordMax

Lba(c, h, s) == (c * Heads + h) * Spt + (s - 1)

\* makeflop: the 512-byte blocks of the kernel file, the last one rounded up.
Blocks_Truncated(size) == size \div 512
Blocks(size) == size \div 512 + (IF size % 512 # 0 THEN 1 ELSE 0)

\* The word it writes over bytes 2 and 3.
Patch(size) == Blocks(size) % 65536

\* The two boot sectors and the kernel fit the disk.
Capacity == Cyls * Heads * Spt
ASSUME KernelFits ==
    \A sz \in KernelSizes : sz \in Nat \ {0} /\ Blocks(sz) <= Capacity - 2

ASSUME BoundsAssumption ==
    MaxErrors \in Nat /\ MaxE820 \in 0..96 /\ MaxPages \in Nat

VARIABLES
    size,       \* of the kernel file
    sectors,    \* the word makeflop patches
    pc,
    part,       \* what load_floppy is loading: "stage2" or "kernel"
    bh, bl,     \* cylinder and sector to go on at; the buffer during a read
    dh,         \* head
    cx,         \* sectors left; cylinder and sector during a read
    req,        \* the read int 0x13 is asked for
    saved,      \* bx and cx on the stack
    retrycnt,
    loaded,     \* the disk sectors copied to the destination, in order
    errors,     \* read errors so far (bounds the model, and ghost)
    bios,       \* the BIOS's memory map: entries, and pages above 1 MB
    ext_mem_count,
    esi,        \* the address find_mem_size_probe tests
    mem         \* the memory size passed to the kernel

loadVars == <<bh, bl, dh, cx, req, saved, retrycnt, loaded, errors>>
memVars  == <<bios, ext_mem_count, esi, mem>>
diskVars == <<size, sectors>>
vars     == <<diskVars, pc, part, loadVars, memVars>>

NoReq == [c |-> 0, h |-> 0, s |-> 0, n |-> 0]

\* load_floppy is entered with bx, cx and edi set for what is to be loaded.
CallLoadFloppy(p, first, count) ==
    /\ part' = p
    /\ bh' = 0 /\ bl' = first /\ cx' = count /\ dh' = 0
    /\ loaded' = <<>>
    /\ pc' = "load_floppy"

Init ==
    /\ size \in KernelSizes
    /\ sectors = Patch(size)
    /\ pc = "start" /\ part = "none"
    /\ bh = 0 /\ bl = 0 /\ dh = 0 /\ cx = 0
    /\ req = NoReq
    /\ saved = [cx |-> 0, bh |-> 0, bl |-> 0]
    /\ retrycnt = 3
    /\ loaded = <<>>
    /\ errors = 0
    /\ bios \in [entries : 0..MaxE820, pages : 0..MaxPages]
    /\ ext_mem_count = 0
    /\ esi = 0 /\ mem = 0

\* The second half of the boot block: one sector, right after the first.
LoadStage2 ==
    /\ pc = "start"
    /\ CallLoadFloppy("stage2", 2, 1)
    /\ UNCHANGED <<diskVars, memVars, req, saved, retrycnt, errors>>

-----------------------------------------------------------------------------
(* load_floppy *)

LoadFloppy ==
    /\ pc = "load_floppy"
    /\ saved' = [cx |-> cx, bh |-> bh, bl |-> bl]
    /\ pc' = "tryagain"
    /\ UNCHANGED <<diskVars, memVars, part, bh, bl, dh, cx, req, retrycnt,
                   loaded, errors>>

Signed16(x) == IF x >= 32768 THEN x - 65536 ELSE x

\* Mutant: the sector number is not taken off the track's length.
Count_WholeTrack(first, left) == IF Spt < Signed16(left) THEN Spt ELSE left % 256

\* The rest of the track, or what is left to read if that is less.
Count(first, left) ==
    LET toEnd == (19 - first) % 256
    IN  IF toEnd < Signed16(left) THEN toEnd ELSE left % 256

\* From tryagain to the int 0x13: bx and cx are reused for the BIOS call.
TryAgain ==
    /\ pc = "tryagain"
    /\ req' = [c |-> bh, h |-> dh, s |-> bl, n |-> Count(bl, cx)]
    /\ cx' = bh * 256 + bl
    /\ bh' = 128 /\ bl' = 0
    /\ pc' = "int13"
    /\ UNCHANGED <<diskVars, memVars, part, dh, saved, retrycnt, loaded, errors>>

\* What the BIOS can read in one call: sectors of one track.
Readable(r) ==
    /\ r.c < Cyls /\ r.h < Heads
    /\ r.s >= 1 /\ r.n >= 1 /\ r.s + r.n - 1 <= Spt

Int13Ok ==
    /\ pc = "int13" /\ Readable(req)
    /\ pc' = "okok"
    /\ UNCHANGED <<diskVars, memVars, part, loadVars>>

Int13Error ==
    /\ pc = "int13"
    /\ \/ ~Readable(req) /\ UNCHANGED errors
       \/ Readable(req) /\ errors < MaxErrors /\ errors' = errors + 1
    /\ pc' = "error"
    /\ UNCHANGED <<diskVars, memVars, part, bh, bl, dh, cx, req, saved, retrycnt,
                   loaded>>

\* The error path: after three errors the loader gives up.  It goes back to
\* tryagain with bx and cx as the BIOS call had them.
Retry ==
    /\ pc = "error"
    /\ retrycnt' = retrycnt - 1
    /\ pc' = IF retrycnt = 1 THEN "fail" ELSE "tryagain"
    /\ UNCHANGED <<diskVars, memVars, part, bh, bl, dh, cx, req, saved, loaded, errors>>

\* Mutant: the head changes and the cylinder never does.
NextTrack_SameCylinder ==
    /\ dh' = 1 - dh
    /\ bh' = saved.bh

\* The other head, and the next cylinder when that is head 0.
NextTrack ==
    /\ dh' = 1 - dh
    /\ bh' = (IF dh = 1 THEN saved.bh + 1 ELSE saved.bh) % 256

\* Copy the n sectors read to the destination, move on by them, and return
\* when none are left.
Okok ==
    /\ pc = "okok"
    /\ retrycnt' = 3
    /\ loaded' = [i \in 1..Len(loaded) + req.n |->
                     IF i <= Len(loaded) THEN loaded[i]
                     ELSE Lba(req.c, req.h, req.s) + (i - Len(loaded) - 1)]
    /\ NextTrack
    /\ bl' = 1
    /\ cx' = saved.cx - req.n
    /\ pc' = IF saved.cx > req.n THEN "load_floppy" ELSE "loaded"
    /\ UNCHANGED <<diskVars, memVars, part, req, saved, errors>>

\* After the second half, the rest of the disk: the kernel, to 1 MB.
LoadKernel ==
    /\ pc = "loaded" /\ part = "stage2"
    /\ CallLoadFloppy("kernel", 3, sectors)
    /\ UNCHANGED <<diskVars, memVars, req, saved, retrycnt, errors>>

\* fail: a message, a key, and int 0x19, which loads the boot sector afresh.
Reboot ==
    /\ pc = "fail"
    /\ pc' = "start" /\ part' = "none"
    /\ bh' = 0 /\ bl' = 0 /\ dh' = 0 /\ cx' = 0
    /\ req' = NoReq /\ saved' = [cx |-> 0, bh |-> 0, bl |-> 0]
    /\ retrycnt' = 3 /\ loaded' = <<>>
    /\ UNCHANGED <<diskVars, memVars, errors>>

-----------------------------------------------------------------------------
(* The memory map, and the jump into the kernel *)

FindMem ==
    /\ pc = "loaded" /\ part = "kernel"
    /\ ext_mem_count' = 0
    /\ pc' = "e820"
    /\ UNCHANGED <<diskVars, part, loadVars, bios, esi, mem>>

\* One call of int 0x15, e820.  A BIOS ends the list with ebx zero on the last
\* entry or with the carry flag on a call after it.
E820Entry ==
    /\ pc = "e820" /\ ext_mem_count < bios.entries
    /\ ext_mem_count' = (ext_mem_count + 1) % 256
    /\ \/ pc' = "e820"
       \/ ext_mem_count + 1 = bios.entries /\ pc' = "code32"
    /\ UNCHANGED <<diskVars, part, loadVars, bios, esi, mem>>

E820Carry ==
    /\ pc = "e820" /\ ext_mem_count = bios.entries
    /\ pc' = "code32"
    /\ UNCHANGED <<diskVars, part, loadVars, memVars>>

MB == 1024 * 1024

\* The first address tested: 16 bytes before the end of the first page.
ProbeStart == MB + 4096 - 16

\* In protected mode: memory is probed only when there is no map.
Code32 ==
    /\ pc = "code32"
    /\ \/ ext_mem_count # 0 /\ pc' = "kernel" /\ mem' = 0 /\ UNCHANGED esi
       \/ ext_mem_count = 0 /\ pc' = "probe" /\ esi' = ProbeStart /\ UNCHANGED mem
    /\ UNCHANGED <<diskVars, part, loadVars, bios, ext_mem_count>>

PresentAt(a) == a < MB + bios.pages * 4096

\* Mutant: the last address tested, the first that is not there, is the size.
ProbePage_LastTested ==
    /\ pc = "probe"
    /\ \/ PresentAt(esi) /\ esi' = esi + 4096 /\ UNCHANGED <<pc, mem>>
       \/ ~PresentAt(esi) /\ mem' = esi + 16 /\ pc' = "kernel" /\ UNCHANGED esi
    /\ UNCHANGED <<diskVars, part, loadVars, bios, ext_mem_count>>

\* find_mem_size_probe: 16 bytes before the end of each page.
ProbePage ==
    /\ pc = "probe"
    /\ \/ PresentAt(esi) /\ esi' = esi + 4096 /\ UNCHANGED <<pc, mem>>
       \/ ~PresentAt(esi) /\ mem' = esi - 4096 + 16 /\ pc' = "kernel" /\ UNCHANGED esi
    /\ UNCHANGED <<diskVars, part, loadVars, bios, ext_mem_count>>

\* The loader's work is done: the kernel runs.
KernelRuns == pc = "kernel" /\ UNCHANGED vars

-----------------------------------------------------------------------------
LoaderStep ==
    \/ LoadStage2 \/ LoadFloppy \/ TryAgain \/ Retry \/ Okok \/ LoadKernel
    \/ FindMem \/ E820Entry \/ E820Carry \/ Code32 \/ ProbePage

Next == LoaderStep \/ Int13Ok \/ Int13Error \/ Reboot \/ KernelRuns

Spec == Init /\ [][Next]_vars

\* The CPU executes, the BIOS answers, and somebody presses the key fail waits
\* for.
FairSpec ==
    Spec /\ WF_vars(LoaderStep) /\ WF_vars(Int13Ok \/ Int13Error) /\ WF_vars(Reboot)

-----------------------------------------------------------------------------
(* Properties *)

Locations == {"start", "load_floppy", "tryagain", "int13", "okok", "error",
              "loaded", "fail", "e820", "code32", "probe", "kernel"}

TypeOK ==
    /\ size \in KernelSizes
    /\ sectors \in Word
    /\ pc \in Locations
    /\ part \in {"none", "stage2", "kernel"}
    /\ bh \in Byte /\ bl \in Byte /\ dh \in 0..1
    /\ cx \in Word
    /\ req \in [c : Byte, h : 0..1, s : Byte, n : Byte]
    /\ saved \in [cx : Word, bh : Byte, bl : Byte]
    /\ retrycnt \in 0..3
    /\ loaded \in Seq(Nat)
    /\ errors \in 0..MaxErrors
    /\ bios \in [entries : 0..MaxE820, pages : 0..MaxPages]
    /\ ext_mem_count \in Byte
    /\ esi \in Nat /\ mem \in Nat

\* The sector of the disk each part of the load begins at.
FirstLba == IF part = "stage2" THEN 1 ELSE 2

\* No read the loader asks for, when the last one did not fail, crosses the end
\* of a track or asks for nothing: that is all int 0x13 can do in one call.
ReadsStayInTrack == pc = "int13" /\ retrycnt = 3 => Readable(req)

\* What is in memory is at any time a gapless run of the disk from where the
\* part begins: no sector is skipped, read twice or put in another's place,
\* across heads and cylinders.
LoadedInOrder ==
    part # "none" => \A i \in 1..Len(loaded) : loaded[i] = FirstLba + i - 1

\* The kernel is entered only with every sector makeflop wrote of it in memory,
\* the partly filled last one included, and with a memory map or else the end
\* of memory.
KernelComplete ==
    pc = "kernel" =>
        /\ part = "kernel"
        /\ Len(loaded) * 512 >= size /\ (Len(loaded) - 1) * 512 < size
        /\ IF ext_mem_count # 0 THEN ext_mem_count = bios.entries
                                ELSE mem = MB + 4096 * bios.pages

\* A disk whose errors come to an end is booted from in the end.
BootsInTheEnd == <>(pc = "kernel")

\* bootblock.S:225 calls the jump back to tryagain a retry: the read it leads to
\* is the one that failed.
RetriesTheRead ==
    pc = "int13" /\ retrycnt < 3 =>
        req = [c |-> saved.bh, h |-> dh, s |-> saved.bl, n |-> Count(saved.bl, saved.cx)]

-----------------------------------------------------------------------------
(* The inductive invariant *)

\* The sectors of the part being loaded.
Total == IF part = "stage2" THEN 1 ELSE sectors

\* Registers of a call: the cylinder, head and sector to go on at are those of
\* the next sector of the part, and cx is what is left of it.
Position(c, h, s, left) ==
    /\ s \in 1..Spt
    /\ Lba(c, h, s) = FirstLba + Len(loaded)
    /\ left = Total - Len(loaded) /\ left > 0

\* Where the registers stand in the course of a load: before it, ...
AtStart == pc = "start" => retrycnt = 3

\* ... at the next sector, in bx and cx or saved on the stack, ...
AtCall ==
    /\ pc = "load_floppy" => retrycnt = 3 /\ Position(bh, dh, bl, cx)
    /\ pc \in {"tryagain", "int13", "okok", "error"} =>
          Position(saved.bh, dh, saved.bl, saved.cx)

\* ... at a read of that sector, or at a retry, which no BIOS can do, ...
AtRead ==
    /\ pc = "tryagain" =>
          \/ retrycnt = 3 /\ bh = saved.bh /\ bl = saved.bl /\ cx = saved.cx
          \/ retrycnt \in 1..2 /\ bl = 0
    /\ pc = "int13" =>
          \/ /\ retrycnt = 3
             /\ req = [c |-> saved.bh, h |-> dh, s |-> saved.bl,
                       n |-> Count(saved.bl, saved.cx)]
          \/ retrycnt \in 1..2 /\ req.s = 0
    /\ pc = "okok" =>
          req = [c |-> saved.bh, h |-> dh, s |-> saved.bl,
                 n |-> Count(saved.bl, saved.cx)]
    /\ pc = "error" => retrycnt \in 1..3
    /\ pc \in {"int13", "okok", "error"} => bl = 0

\* ... and with the whole part loaded.
AtEnd ==
    /\ pc \in {"load_floppy", "tryagain", "int13", "okok", "error", "loaded"} =>
          part \in {"stage2", "kernel"}
    /\ pc = "loaded" => retrycnt = 3 /\ Len(loaded) = Total
    /\ pc \in {"e820", "code32", "probe", "kernel"} =>
          part = "kernel" /\ Len(loaded) = sectors

\* How far the memory map or the probe has come.
MemInv ==
    /\ pc = "e820" => ext_mem_count <= bios.entries
    /\ pc = "code32" => ext_mem_count = bios.entries
    /\ pc = "probe" =>
          /\ ext_mem_count = 0
          /\ \E k \in 0..bios.pages : esi = ProbeStart + 4096 * k
    /\ pc = "kernel" =>
          IF ext_mem_count # 0 THEN ext_mem_count = bios.entries
                               ELSE mem = MB + 4096 * bios.pages

\* Whatever the reads, errors and retries (bootblock.S:198-245), the registers
\* point at the next sector of the part.
IInv ==
    /\ TypeOK /\ sectors = Patch(size)
    /\ LoadedInOrder
    /\ AtStart /\ AtCall /\ AtRead /\ AtEnd /\ MemInv
=============================================================================
