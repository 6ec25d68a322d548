-------------------------------- MODULE Adler --------------------------------
(***************************************************************************)
(* The checksum of a message, mmrUtil::adler32 (BufConvert.cpp 107-175),   *)
(* with the widths of its types as parameters.  The code adds SIGNED chars *)
(* to an int and that to an unsigned long, and reduces both by an unsigned *)
(* BASE: a sum that is negative when it is reduced has wrapped around      *)
(* first, at 2^32 for the int, and for the long where the host has it.     *)
(***************************************************************************)
EXTENDS Integers, Sequences, SequencesExt, Bitwise

CONSTANTS Base,          \* BASE, 65521
          NMax,          \* NMAX, 5552
          Short,         \* the length from which blocks are summed, 16
          HalfMod        \* 2^16; an int is reduced by its square

IntMod == HalfMod * HalfMod

ASSUME AdlerAssumption ==
  /\ Base \in 2 .. HalfMod - 1 /\ NMax \in Nat \ {0} /\ Short \in Nat

\* What an int with the bits of n is, converted to a long.
Signed(n) == IF 2 * n < IntMod THEN n ELSE n - IntMod

\* DO1; adler and sum2 are kept as the unsigned numbers with their bits.
Do1(sums, b, longMod) ==
  LET adler == (sums.adler + b) % IntMod
  IN  [adler |-> adler, sum2 |-> (sums.sum2 + Signed(adler)) % longMod]

DoAll(sums, buf, longMod) ==
  LET add(acc, b) == Do1(acc, b, longMod) IN FoldLeft(add, sums, buf)

\* MOD of both sums.
Mod(sums) == [adler |-> sums.adler % Base, sum2 |-> sums.sum2 % Base]

\* The sums after the n-th block of NMAX bytes.
Blocks(buf, longMod) ==
  LET block(sums, k) == Mod(DoAll(sums, SubSeq(buf, (k - 1) * NMax + 1, k * NMax), longMod))
  IN  FoldLeft(block, [adler |-> 1, sum2 |-> 0], [k \in 1 .. Len(buf) \div NMax |-> k])

\* if (a >= BASE) a -= BASE, on unsigned numbers.
Lower(a, mod) == IF a >= Base THEN (a - Base) % mod ELSE a

\* A slip: what the blocks leave is not summed.
OnlyBlocks(buf) == <<>>

\* The bytes after the last whole block.
Rest(buf) == SubSeq(buf, (Len(buf) \div NMax) * NMax + 1, Len(buf))

Sums(buf, longMod) ==
  LET first == DoAll([adler |-> 1, sum2 |-> 0], buf, longMod)
  IN  IF Len(buf) = 1
      THEN LET adler == Lower(first.adler, IntMod)
           IN  [adler |-> adler, sum2 |-> Lower(Signed(adler) % longMod, longMod)]
      ELSE IF Len(buf) < Short
      THEN [adler |-> Lower(first.adler, IntMod), sum2 |-> first.sum2 % Base]
      ELSE IF Rest(buf) = <<>> THEN Blocks(buf, longMod)
      ELSE Mod(DoAll(Blocks(buf, longMod), Rest(buf), longMod))

adler32(buf, longMod) ==
  LET sums == Sums(buf, longMod)
  IN  sums.adler | ((sums.sum2 * HalfMod) % IntMod)

=============================================================================
