------------------------------ MODULE Strings -------------------------------
(***************************************************************************)
(* Strings of the abstract machine (simulator/mcstring.c): a header with   *)
(* the length and the characters up to the first NUL.  A character is      *)
(* <<"ch", code>>; a name that is printed and read as a unit, a constant   *)
(* or a variable, counts as one character:                                 *)
(*   <<"id", c>>      a name that is no variable's                         *)
(*   <<"up", x, n>>   a name with an upper case initial: X, W1             *)
(*   <<"us", x, n>>   a name with an initial _: _T1, _1234                 *)
(*   <<"av">>         _                                                    *)
(* and so does what is printed but cannot be read:                         *)
(*   <<"lc", n, u>>   the n-th nameless constant printed, of universe u    *)
(*   <<"bv", i>>      a bound variable that no binder was printed for      *)
(*   <<"stream", s>>  a stream                                             *)
(*   <<"text", x>>    a message                                            *)
(***************************************************************************)
EXTENDS HeadNorm

CONSTANTS WordSize,      \* characters a word holds
          IntWidth       \* bits of an integer

ASSUME WordSizeAssumption == WordSize \in Nat \ {0}
ASSUME IntWidthAssumption == IntWidth \in Nat \ {0}

Ch(code) == <<"ch", code>>
Space == Ch(32)
Newline == Ch(10)
Quote == Ch(34)
Period == Ch(46)

\* A number in two's complement.
IntBase == 2^IntWidth
Wrap(i) == LET r == i % IntBase IN IF 2 * r >= IntBase THEN r - IntBase ELSE r

StrHeadSize == 2
NumWords(n) == (n + WordSize) \div WordSize + 1

StrLength(m, s) == m.h[s].len
StrChars(m, s) == m.h[s].chars

\* The string of len characters made at the address at, for which size
\* characters are reserved.  The heap top moves past it.
MakeString(m, at, len, chars, size) ==
    [Write(m, at, StrData(len, chars)) EXCEPT !.hreg = at + StrHeadSize + NumWords(size),
                                              !.rt = at]

NewString(m, chars) == MakeString(m, m.hreg, Len(chars), chars, Len(chars))

StrConcat(m, s, t) ==
    LET len == StrLength(m, s) + StrLength(m, t)
    IN MakeString(m, m.hreg, len, StrChars(m, s) \o StrChars(m, t), len)

\* As many words are taken as the whole string has.
SubString(m, s, start, end) ==
    IF start < 0 \/ end > StrLength(m, s) \/ end < start THEN Error(m, "SUBSTRING")
    ELSE MakeString(m, m.hreg, end - start, SubSeq(StrChars(m, s), start + 1, end),
                  StrLength(m, s))

Chr(m, i) ==
    LET code == i % 256
    IN MakeString(m, m.hreg, 1, IF code = 0 THEN <<>> ELSE <<Ch(code)>>, 1)

\* A char is signed.
Ord(m, s) ==
    LET code == IF StrChars(m, s) = <<>> THEN 0 ELSE StrChars(m, s)[1][2]
    IN IF code >= 128 THEN code - 256 ELSE code

\* strcmp: negative, zero or positive.  Characters are compared unsigned.
Compare(cs, ds) ==
    LET at == {i \in 1..Len(cs) : i > Len(ds) \/ cs[i] # ds[i]}
        first == CHOOSE i \in at : \A j \in at : i <= j
    IN CASE at = {} -> Len(cs) - Len(ds)
         [] at # {} /\ first > Len(ds) -> 1
         [] OTHER -> cs[first][2] - ds[first][2]

CompareStrs(m, s, t) == Compare(StrChars(m, s), StrChars(m, t))

-----------------------------------------------------------------------------
(* Numbers written out.                                                    *)

Digits[n \in Nat] == IF n < 10 THEN <<Ch(48 + n)>>
                     ELSE Append(Digits[n \div 10], Ch(48 + (n % 10)))

IntChars(i) == IF i < 0 THEN <<Ch(45)>> \o Digits[-i] ELSE Digits[i]

\* A real is a number of quarters; it is written with six decimals.
RealChars(x) ==
    LET n == IF x < 0 THEN -x ELSE x
        places == [q \in 0..3 |-> CASE q = 0 -> <<Ch(48), Ch(48)>>
                                    [] q = 1 -> <<Ch(50), Ch(53)>>
                                    [] q = 2 -> <<Ch(53), Ch(48)>>
                                    [] q = 3 -> <<Ch(55), Ch(53)>>]
    IN (IF x < 0 THEN <<Ch(45)>> ELSE <<>>) \o Digits[n \div 4] \o <<Period>>
       \o places[n % 4] \o [i \in 1..4 |-> Ch(48)]
=============================================================================
