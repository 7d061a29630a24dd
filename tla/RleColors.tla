----------------------------- MODULE RleColors -----------------------------
(***************************************************************************)
(* The log of block colours of libs/objsize/c_objsize.c: a growing array   *)
(* of bits to which colours are written run-length encoded and from which  *)
(* they are read back in the order they were written.                      *)
(*                                                                         *)
(* The global variables of the C file are one record here:                 *)
(*   bits    the array colors, up to colors_writeindex                     *)
(*   bitcap  colors_bitcap                                                 *)
(*   ri      colors_readindex                                              *)
(*   prev, count   prev_color and repeat_count                             *)
(*   ok      FALSE once an ASSERT has failed (the program has exited)      *)
(***************************************************************************)
EXTENDS Integers, Sequences

CONSTANTS BITS_FOR_COUNT, BITS_FOR_ORDER,  \* widths of the two repeat forms
          COLORS_INIT_COUNT                \* colours the first array holds

ASSUME RleAssumption ==
  /\ BITS_FOR_COUNT \in Nat \ {0}
  /\ BITS_FOR_ORDER \in Nat \ {0}
  /\ COLORS_INIT_COUNT \in Nat /\ COLORS_INIT_COUNT >= 4  \* at least a byte

Col_white == 0
Col_gray  == 1
Col_blue  == 2
Col_black == 3

BITS_OF_CHAR == 8
SizeOfInt == 4

MAX_REPEAT_COUNT == 2 ^ BITS_FOR_COUNT
MAX_REPEAT_ORDER == 2 ^ BITS_FOR_ORDER

-----------------------------------------------------------------------------
(* bitarray.h: how many bytes back a number of bits.  The remainder is     *)
(* taken of the word by the size, not of the size by the word.             *)
wordalign(n) == LET m == SizeOfInt % n IN IF m = 0 THEN n ELSE n + SizeOfInt - m

sizebytes(n) == wordalign(n \div BITS_OF_CHAR)

(* colors_init and the allocation it makes, with rle_init.                 *)
NewLog ==
  [bits |-> <<>>, bitcap |-> COLORS_INIT_COUNT * 2, ri |-> 0,
   prev |-> Col_white, count |-> 0, ok |-> TRUE]

(* writeint: the lowest bit first; what does not fit the width is an error. *)
IntBits(arg, width) == [i \in 1..width |-> (arg \div 2^(i - 1)) % 2]

Fits(arg, width) == arg < 2^width

(* writebit, for the bits of a sequence: a full array doubles before the   *)
(* next bit is stored, in the bytes that were allocated.                   *)
WriteBits(log, bits, fit) ==
  LET windex == Len(log.bits) + Len(bits)
      Grown[n \in Nat] == IF n < windex THEN Grown[2 * n] ELSE n
      cap == Grown[log.bitcap]
  IN [log EXCEPT !.bits = @ \o bits, !.bitcap = cap,
                 !.ok = @ /\ fit /\ windex <= BITS_OF_CHAR * sizebytes(cap)]

(* readbit and readint: reading past what was written is an error.         *)
Power2Sum(bits) ==
  LET Value[i \in 0..Len(bits)] == IF i = 0 THEN 0 ELSE Value[i - 1] + bits[i] * 2^(i - 1)
  IN Value[Len(bits)]

readint(log, width) ==
  IF log.ri + width <= Len(log.bits)
  THEN [log |-> [log EXCEPT !.ri = @ + width],
        value |-> Power2Sum(SubSeq(log.bits, log.ri + 1, log.ri + width))]
  ELSE [log |-> [log EXCEPT !.ok = FALSE], value |-> 0]

-----------------------------------------------------------------------------
(* The order chosen for a long run: the inner while of rle_write_repeats.  *)
RepeatOrder(count) ==
  CHOOSE ord \in 0..MAX_REPEAT_ORDER - 1 :
    /\ \A k \in 0..ord - 1 : 2^k <= count \div 2
    /\ ord = MAX_REPEAT_ORDER - 1 \/ 2^ord > count \div 2

(* The two forms of a repeat, after a colour no block can have.            *)
LongRepeat(ord) ==
  IntBits(Col_blue, 2) \o IntBits(1, 1) \o IntBits(ord, BITS_FOR_ORDER)
ShortRepeat(count) ==
  IntBits(Col_blue, 2) \o IntBits(0, 1) \o IntBits(count, BITS_FOR_COUNT)

\* Mutant of RepeatBits: the longest run of the short form is one too long.
RepeatBitsOverlong(repeat_count) ==
  LET Bits[n \in 0..repeat_count] ==
        IF n > MAX_REPEAT_COUNT
        THEN LongRepeat(RepeatOrder(n)) \o Bits[n - 2^RepeatOrder(n)]
        ELSE IF n > 0 THEN ShortRepeat(n) ELSE <<>>
  IN Bits[repeat_count]

(* rle_write_repeats: long forms while the count does not fit a short one. *)
RepeatBits(repeat_count) ==
  LET Bits[n \in 0..repeat_count] ==
        IF n >= MAX_REPEAT_COUNT
        THEN LongRepeat(RepeatOrder(n)) \o Bits[n - 2^RepeatOrder(n)]
        ELSE IF n > 0 THEN ShortRepeat(n) ELSE <<>>
  IN Bits[repeat_count]

rle_write_flush(log) ==
  [WriteBits(log, RepeatBits(log.count), TRUE) EXCEPT !.count = 0]

rle_init(log) == [log EXCEPT !.prev = Col_white, !.count = 0]

(* writecolor and rle_write; neither accepts the colour of the marks.      *)
writecolor(log, color) ==
  IF log.prev = color
  THEN [log EXCEPT !.count = @ + 1, !.ok = @ /\ color # Col_blue]
  ELSE LET run == rle_write_flush(log)
           written == WriteBits(run, IntBits(color, 2), Fits(color, 2))
       IN [written EXCEPT !.prev = color, !.ok = @ /\ color # Col_blue]

(* The repeat after a blue mark: its length, in the short or the long form. *)
ReadRepeat(log) ==
  LET kind == readint(log, 1)
      arg  == readint(kind.log, IF kind.value = 0 THEN BITS_FOR_COUNT ELSE BITS_FOR_ORDER)
  IN [log |-> arg.log,
      value |-> IF kind.value = 0 THEN arg.value ELSE 2 ^ arg.value]

(* readcolor and rle_read; after a repeat has been read, rle_read calls    *)
(* itself and returns its first colour.                                    *)
readcolor(log) ==
  IF log.count > 0
  THEN [log |-> [log EXCEPT !.count = @ - 1], color |-> log.prev]
  ELSE LET c == readint(log, 2)
           n == ReadRepeat(c.log)
       IN IF c.value = Col_blue
          THEN [log |-> [n.log EXCEPT !.count = n.value - 1, !.ok = @ /\ n.value > 0],
                color |-> log.prev]
          ELSE [log |-> [c.log EXCEPT !.prev = c.value], color |-> c.value]

(* rle_read_flush: everything written has been read.                       *)
rle_read_flush(log) ==
  [log EXCEPT !.ok = @ /\ log.count = 0 /\ log.ri = Len(log.bits)]
=============================================================================
