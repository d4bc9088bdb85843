------------------------------- MODULE Flash -------------------------------
(***************************************************************************)
(* The flash driver (src/src/flash/mod.rs) on the chip behind XPI and on    *)
(* the data cache between: the ROM routines erase and program the chip and  *)
(* leave the cache alone, and blocking_read copies from the address the     *)
(* chip is mapped at.  A byte has one bit; 1 is erased.                     *)
(***************************************************************************)
EXTENDS Naturals, FiniteSets

CONSTANTS
  FlashSectors, \* number of sectors on the chip
  FlashLine,    \* bytes of a cache line, 64 in the hardware
  FlashSizes,   \* sizes, in sectors, the application takes the chip to have
  FlashOffsets  \* offsets it reads from

ASSUME FlashAssumption ==
  FlashSectors \in Nat \ {0} /\ FlashLine \in Nat \ {0} /\ FlashSizes \subseteq Nat /\ FlashOffsets \subseteq Nat

VARIABLES
  fl_drv,       \* "none" before Flash::new, then "ok" or "refused"
  fl_mem,       \* the chip
  fl_cache,     \* cached line -> its bytes
  fl_call,      \* the erase under way: next sector and last one
  fl_seen,      \* what the last read returned, address -> byte
  fl_erased     \* the bytes that the last erase returned Ok for

flashVars == <<fl_drv, fl_mem, fl_cache, fl_call, fl_seen, fl_erased>>

\* A sector has one line: the cache and the erase meet at every boundary.
Bytes == 0 .. FlashSectors * FlashLine - 1
Lines == 0 .. FlashSectors - 1
LineOf(a) == a \div FlashLine
BytesOfLine(l) == {a \in Bytes : LineOf(a) = l}
NoCall == [next |-> 0, until |-> 0, from |-> 0, to |-> 0]

FlashInit ==
  /\ fl_drv = "none"
  /\ fl_mem \in [Bytes -> {1}]
  /\ fl_cache = <<>>
  /\ fl_call = NoCall
  /\ fl_seen = <<>> /\ fl_erased = {}

\* new: auto_config and the two properties come from ROM, each may fail; a size
\* that is not the chip's is refused.
FlashNew(size) ==
  /\ fl_drv = "none"
  /\ fl_drv' \in {"refused"} \cup (IF size = FlashSectors THEN {"ok"} ELSE {})
  /\ UNCHANGED <<fl_mem, fl_cache, fl_call, fl_seen, fl_erased>>

Ready == fl_drv = "ok" /\ fl_call = NoCall

AlignDown(x) == x - (x % FlashLine)
AlignUp(x) == AlignDown(x + FlashLine - 1)

\* Mutant of Invalidated: the length is aligned down.
Invalidated_Down(offset, len) ==
  {LineOf(a) : a \in {b \in Bytes : b >= AlignDown(offset) /\ b < AlignDown(offset) + AlignDown(len)}}

\* The lines dropped for a read; start and length are aligned on their own.
Invalidated(offset, len) ==
  {LineOf(a) : a \in {b \in Bytes : b >= AlignDown(offset) /\ b < AlignDown(offset) + AlignUp(len)}}

Filled(cache, lines) ==
  [l \in DOMAIN cache \cup lines |->
     IF l \in DOMAIN cache THEN cache[l] ELSE [a \in BytesOfLine(l) |-> fl_mem[a]]]

\* "The offset and buffer must be aligned" (line 122), which READ_SIZE = 1 of
\* ReadNorFlash does not say: FlashOffsets are the ones that callers use.
BlockingRead(offset, len) ==
  /\ Ready /\ offset \in FlashOffsets
  /\ LET range == {a \in Bytes : a >= offset /\ a < offset + len}
         kept == [l \in DOMAIN fl_cache \ Invalidated(offset, len) |-> fl_cache[l]]
         cache == Filled(kept, {LineOf(a) : a \in range})
     IN /\ fl_cache' = cache
        /\ fl_seen' = [a \in range |-> cache[LineOf(a)][a]]
  /\ UNCHANGED <<fl_drv, fl_mem, fl_call, fl_erased>>

\* The program reads a constant: a line gets cached.
Fetch(line) ==
  /\ line \notin DOMAIN fl_cache
  /\ fl_cache' = Filled(fl_cache, {line})
  /\ UNCHANGED <<fl_drv, fl_mem, fl_call, fl_seen, fl_erased>>

\* A dirty line never exists, so any line may be evicted.
Evict(line) ==
  /\ line \in DOMAIN fl_cache
  /\ fl_cache' = [l \in DOMAIN fl_cache \ {line} |-> fl_cache[l]]
  /\ UNCHANGED <<fl_drv, fl_mem, fl_call, fl_seen, fl_erased>>

\* The range the two ends stand for, when both are on sector boundaries.
SectorCount(from, to) == (to - from) \div FlashLine

\* blocking_erase by sectors; its loop is EraseSector.
BlockingErase(from, to) ==
  /\ Ready /\ from < to /\ from % FlashLine = 0 /\ to % FlashLine = 0
  /\ fl_call' = [next |-> LineOf(from), until |-> LineOf(from) + SectorCount(from, to),
                 from |-> from, to |-> to]
  /\ fl_seen' = <<>> /\ fl_erased' = {}
  /\ UNCHANGED <<fl_drv, fl_mem, fl_cache>>

Wiped(sectors) == [a \in Bytes |-> IF LineOf(a) \in sectors THEN 1 ELSE fl_mem[a]]

\* One call of erase_sector.  An error ends the loop, with the sector erased or
\* not.
EraseSector ==
  /\ fl_call.next < fl_call.until
  /\ \/ /\ fl_mem' = Wiped({fl_call.next})
        /\ fl_call' = [fl_call EXCEPT !.next = @ + 1]
     \/ /\ fl_mem' \in {fl_mem, Wiped({fl_call.next})}
        /\ fl_call' = NoCall
  /\ UNCHANGED <<fl_drv, fl_cache, fl_seen, fl_erased>>

EraseReturns ==
  /\ fl_call # NoCall /\ fl_call.next = fl_call.until
  /\ fl_erased' = {a \in Bytes : a >= fl_call.from /\ a < fl_call.to}
  /\ fl_call' = NoCall
  /\ UNCHANGED <<fl_drv, fl_mem, fl_cache, fl_seen>>

\* With an end inside a sector the ROM gets the whole range, and erases the
\* sectors it touches or fails.
RomErase(from, to) ==
  /\ Ready /\ from < to /\ ~(from % FlashLine = 0 /\ to % FlashLine = 0)
  /\ LET range == {a \in Bytes : a >= from /\ a < to}
         touched == {LineOf(a) : a \in range}
     IN \/ fl_mem' = Wiped(touched) /\ fl_erased' = range
        \/ \E part \in SUBSET touched : fl_mem' = Wiped(part) /\ fl_erased' = {}
  /\ fl_seen' = <<>>
  /\ UNCHANGED <<fl_drv, fl_cache, fl_call>>

\* blocking_write: programming clears bits; on an error any part is done.
BlockingWrite(offset, len) ==
  /\ Ready /\ len > 0
  /\ \E done \in {{a \in Bytes : a >= offset /\ a < offset + n} : n \in 0 .. len} :
       fl_mem' = [a \in Bytes |-> IF a \in done THEN 0 ELSE fl_mem[a]]
  /\ fl_seen' = <<>> /\ fl_erased' = {}
  /\ UNCHANGED <<fl_drv, fl_cache, fl_call>>

FlashNext ==
  \/ \E size \in FlashSizes : FlashNew(size)
  \/ \E offset \in Bytes, len \in 0 .. Cardinality(Bytes) : offset + len <= Cardinality(Bytes) /\
       (BlockingRead(offset, len) \/ BlockingWrite(offset, len))
  \/ \E line \in Lines : Fetch(line) \/ Evict(line)
  \/ \E from \in Bytes, to \in 0 .. Cardinality(Bytes) :
       BlockingErase(from, to) \/ RomErase(from, to)
  \/ EraseSector
  \/ EraseReturns

FlashSpec == FlashInit /\ [][FlashNext]_flashVars

(***************************************************************************)
(* Property.                                                                *)
(***************************************************************************)
\* erase and write never touch the cache, and the program fills it all the time
\* (blocking_read): a read from an aligned offset still returns what is on the chip, whatever was
\* cached before or between, and an erase that returned Ok, after any that
\* failed half way, left every byte of its range erased.
FlashHonest ==
  /\ \A a \in DOMAIN fl_seen : fl_seen[a] = fl_mem[a]
  /\ \A a \in fl_erased : fl_mem[a] = 1
============================================================================
