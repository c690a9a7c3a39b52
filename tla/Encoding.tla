------------------------------ MODULE Encoding ------------------------------
(***************************************************************************)
(* The two text forms the signing endpoint signs over and answers in: the  *)
(* canonical JSON of pkg/transpareo/signer/internal/jcs and the base58btc  *)
(* of internal/base58.  Both have to come out the same wherever and in     *)
(* whatever order they are computed, or signatures do not verify.          *)
(*                                                                         *)
(* A string is the sequence of its code points; a number is its sign, its  *)
(* significant digits and the place of its decimal point, which strconv    *)
(* finds; a text in base58 is the places of its characters in the          *)
(* alphabet.  Arrays and the nesting of values are left out.               *)
(***************************************************************************)
EXTENDS Integers, SequencesExt

CONSTANTS
  KeyChars,     \* characters of object keys
  StringChars,  \* characters of string values
  DigitRuns,    \* significant digits of numbers
  Points,       \* places of the decimal point
  ByteValues,   \* values of the bytes given to base58
  TextValues,   \* places in the alphabet of the characters read back
  MaxKeys, MaxChars, MaxBytes,  \* bounds on keys, their length, and base58
  NoText        \* nothing written yet, or an error

Strings(chars, max) == UNION {[1..n -> chars] : n \in 0..max}

\* Go's runes of a string hold no surrogate: what is not UTF-8 becomes U+FFFD.
IsRune(c) == c \in Nat /\ (c < 55296 \/ 57344 <= c) /\ c < 1114112

ASSUME EncodingAssumption ==
  /\ \A c \in KeyChars \cup StringChars : IsRune(c)
  /\ DigitRuns \subseteq Seq(0..9)
  /\ \A d \in DigitRuns : d # <<>> /\ d[1] # 0 /\ d[Len(d)] # 0
  /\ Points \subseteq Int
  /\ ByteValues \subseteq 0..255 /\ TextValues \subseteq Nat
  /\ MaxKeys \in Nat /\ MaxChars \in Nat /\ MaxBytes \in Nat

Numbers == [negative: BOOLEAN, digits: DigitRuns, point: Points]
Zeros == [negative: BOOLEAN, digits: {<<>>}, point: {0}]

VARIABLES
  sample,   \* the value, and which function it is given to
  text      \* what the function writes

encodingVars == <<sample, text>>

EncodingInit ==
  /\ text = NoText
  /\ \/ \E keys \in [1..MaxKeys -> Strings(KeyChars, MaxChars)] :
          sample = [kind |-> "object", value |-> Range(keys)]
     \/ \E x \in Numbers \cup Zeros : sample = [kind |-> "number", value |-> x]
     \/ \E s \in Strings(StringChars, MaxChars) :
          sample = [kind |-> "string", value |-> s]
     \/ \E b \in Strings(ByteValues, MaxBytes) :
          sample = [kind |-> "bytes", value |-> b]
     \/ \E s \in Strings(TextValues, MaxBytes) :
          sample = [kind |-> "base58", value |-> s]

-----------------------------------------------------------------------------
(* jcs: objects *)

\* utf16.Encode
CodeUnits(c) ==
  IF c < 65536 THEN <<c>>
  ELSE <<55296 + (c - 65536) \div 1024, 56320 + ((c - 65536) % 1024)>>

UTF16(s) == FlattenSeq([i \in DOMAIN s |-> CodeUnits(s[i])])

\* Sequences of numbers in the order of a dictionary.
Before(s, t) ==
  \/ \E i \in DOMAIN s \cap DOMAIN t :
       s[i] < t[i] /\ \A j \in 1..i - 1 : s[j] = t[j]
  \/ Len(s) < Len(t) /\ \A j \in DOMAIN s : s[j] = t[j]

\* Mutant of LessUTF16: the keys in the order of their characters.
LessRunes(s, t) == Before(s, t)

LessUTF16(s, t) == Before(UTF16(s), UTF16(t))

\* sort.Slice over the keys of a map: any order without an inversion.
SortedKeys(keys) ==
  {s \in SetToSeqs(keys) :
     \A i, j \in DOMAIN s : i < j => ~LessUTF16(s[j], s[i])}

-----------------------------------------------------------------------------
(* jcs: numbers and strings *)

Digits0(n) == [i \in 1..n |-> 0]

\* Mutant of Written: one place too many stays positional.
WrittenLong(d, n) ==
  LET k == Len(d)
  IN IF k <= n + 1 /\ n <= 21 THEN [whole |-> d \o Digits0(n - k), frac |-> <<>>, exp |-> 0]
     ELSE IF 0 < n /\ n <= 21
     THEN [whole |-> SubSeq(d, 1, n), frac |-> SubSeq(d, n + 1, k), exp |-> 0]
     ELSE IF -6 < n /\ n <= 0
     THEN [whole |-> <<0>>, frac |-> Digits0(-n) \o d, exp |-> 0]
     ELSE [whole |-> <<d[1]>>, frac |-> Tail(d), exp |-> n - 1]

\* The digits before and behind the point, and the exponent behind the "e",
\* where 0 is for none.
Written(d, n) ==
  LET k == Len(d)
  IN IF k <= n /\ n <= 21 THEN [whole |-> d \o Digits0(n - k), frac |-> <<>>, exp |-> 0]
     ELSE IF 0 < n /\ n <= 21
     THEN [whole |-> SubSeq(d, 1, n), frac |-> SubSeq(d, n + 1, k), exp |-> 0]
     ELSE IF -6 < n /\ n <= 0
     THEN [whole |-> <<0>>, frac |-> Digits0(-n) \o d, exp |-> 0]
     ELSE [whole |-> <<d[1]>>, frac |-> Tail(d), exp |-> n - 1]

WrittenNumber(x) ==
  LET t == IF x.digits = <<>> THEN [whole |-> <<0>>, frac |-> <<>>, exp |-> 0]
           ELSE Written(x.digits, x.point)
  IN [minus |-> x.negative /\ x.digits # <<>>,
      whole |-> t.whole, frac |-> t.frac, exp |-> t.exp]

Quote == 34
Backslash == 92
LetterU == 117

\* The letters behind the backslash: b, t, n, f, r and the two themselves.
Short ==
  [c \in {8, 9, 10, 12, 13, Quote, Backslash} |->
     CASE c = 8 -> 98 [] c = 9 -> 116 [] c = 10 -> 110 [] c = 12 -> 102 [] c = 13 -> 114
       [] OTHER -> c]

HexDigit(v) == IF v < 10 THEN 48 + v ELSE 87 + v

\* Mutant of EscapedChar: a backslash is written as it is.
EscapedCharButBackslash(c) ==
  IF c \in DOMAIN Short \ {Backslash} THEN <<Backslash, Short[c]>>
  ELSE IF c < 32 THEN <<Backslash, LetterU, 48, 48, HexDigit(c \div 16), HexDigit(c % 16)>>
  ELSE <<c>>

EscapedChar(c) ==
  IF c \in DOMAIN Short THEN <<Backslash, Short[c]>>
  ELSE IF c < 32 THEN <<Backslash, LetterU, 48, 48, HexDigit(c \div 16), HexDigit(c % 16)>>
  ELSE <<c>>

WrittenString(s) == FlattenSeq([i \in DOMAIN s |-> EscapedChar(s[i])])

-----------------------------------------------------------------------------
(* base58 *)

ValueIn(base, digits) ==
  LET v[j \in 0..Len(digits)] ==
        IF j = 0 THEN 0 ELSE v[j - 1] * base + digits[j]
  IN v[Len(digits)]

DigitsIn(base, n) ==
  LET d[m \in 0..n] == IF m = 0 THEN <<>> ELSE Append(d[m \div base], m % base)
  IN d[n]

LeadingZeros(s) ==
  CHOOSE n \in 0..Len(s) :
    /\ \A i \in 1..n : s[i] = 0
    /\ n < Len(s) => s[n + 1] # 0

\* Mutant of Recoded: the zeros in front are part of the number.
RecodedBare(s, from, to) == DigitsIn(to, ValueIn(from, s))

\* Encode from 256 to 58 and Decode from 58 to 256: the zeros in front are
\* kept one for one.
Recoded(s, from, to) ==
  Digits0(LeadingZeros(s)) \o DigitsIn(to, ValueIn(from, s))

-----------------------------------------------------------------------------
Writes(kind, t) ==
  /\ text = NoText /\ sample.kind = kind
  /\ text' = t
  /\ UNCHANGED sample

EncodeObject == \E s \in SortedKeys(sample.value) : Writes("object", s)
EncodeNumber == Writes("number", WrittenNumber(sample.value))
EncodeString == Writes("string", WrittenString(sample.value))
EncodeBase58 == Writes("bytes", Recoded(sample.value, 256, 58))

\* A character that is not of the alphabet is an error.
DecodeBase58 ==
  /\ \A i \in DOMAIN sample.value : sample.value[i] < 58
  /\ Writes("base58", Recoded(sample.value, 58, 256))

EncodingNext ==
  \/ sample.kind = "object" /\ EncodeObject
  \/ sample.kind = "number" /\ EncodeNumber
  \/ sample.kind = "string" /\ EncodeString
  \/ sample.kind = "bytes" /\ EncodeBase58
  \/ sample.kind = "base58" /\ DecodeBase58

EncodingSpec == EncodingInit /\ [][EncodingNext]_encodingVars

-----------------------------------------------------------------------------
\* The big-endian bytes of a key's UTF-16 form.
Bytes(s) ==
  LET u == UTF16(s)
  IN [i \in 1..2 * Len(u) |->
        IF i % 2 = 1 THEN u[(i + 1) \div 2] \div 256 ELSE u[i \div 2] % 256]

(* In whichever order a Go map hands out its keys, they are written in the *)
(* one order of RFC 8785, that of their UTF-16 bytes, characters outside   *)
(* the basic plane included (jcs.go encodeObject, lessUTF16).              *)
KeysInOneOrder ==
  sample.kind = "object" /\ text # NoText =>
    \A i \in 2..Len(text) : Before(Bytes(text[i - 1]), Bytes(text[i]))

\* What a reader makes of a number's text.
ReadNumber(t) ==
  LET all == t.whole \o t.frac
      held == {i \in DOMAIN all : all[i] # 0}
      first == CHOOSE i \in held : \A j \in held : i <= j
      last == CHOOSE i \in held : \A j \in held : j <= i
  IN IF held = {} THEN [negative |-> t.minus, digits |-> <<>>, point |-> 0]
     ELSE [negative |-> t.minus, digits |-> SubSeq(all, first, last),
           point |-> Len(t.whole) - (first - 1) + t.exp]

(* Every number is written so that it reads back as itself, and in one way *)
(* only: no needless zeros, an exponent just where ECMAScript puts one,    *)
(* and one zero for both signs (jcs.go encodeNumber).                      *)
NumbersReadBack ==
  sample.kind = "number" /\ text # NoText =>
    LET x == sample.value
        size == Len(text.whole) + Len(text.frac)
    IN /\ ReadNumber(text) = IF x.digits = <<>> THEN [x EXCEPT !.negative = FALSE] ELSE x
       /\ text.frac = <<>> \/ text.frac[Len(text.frac)] # 0
       /\ text.whole[1] = 0 => text.whole = <<0>>
       /\ text.exp # 0 => Len(text.whole) = 1 /\ text.exp \notin -6..20

\* What a reader makes of the text of a string: of its last n characters.
HexValue(h) == IF h < 58 THEN h - 48 ELSE h - 87

ReadString(t) ==
  LET read[n \in 0..Len(t)] ==
        LET i == Len(t) - n + 1
        IN IF n = 0 THEN <<>>
           ELSE IF t[i] # Backslash THEN <<t[i]>> \o read[n - 1]
           ELSE IF n >= 6 /\ t[i + 1] = LetterU
           THEN <<16 * HexValue(t[i + 4]) + HexValue(t[i + 5])>> \o read[n - 6]
           ELSE IF n >= 2 /\ \E c \in DOMAIN Short : Short[c] = t[i + 1]
           THEN <<CHOOSE c \in DOMAIN Short : Short[c] = t[i + 1]>> \o read[n - 2]
           ELSE <<>>
  IN read[Len(t)]

(* Every string reads back as itself, with no control character and no     *)
(* bare quote left in its text (jcs.go encodeString).                      *)
StringsReadBack ==
  sample.kind = "string" /\ text # NoText =>
    /\ ReadString(text) = sample.value
    /\ \A i \in DOMAIN text :
         text[i] >= 32 /\ (text[i] = Quote => i > 1 /\ text[i - 1] = Backslash)

(* Base58 and the bytes behind it are one to one, both ways, zeros in      *)
(* front included (base58.go Encode and Decode).                           *)
Base58OneToOne ==
  text # NoText =>
    /\ sample.kind = "bytes" => Recoded(text, 58, 256) = sample.value
    /\ sample.kind = "base58" => Recoded(text, 256, 58) = sample.value

(* One text for each value and one value for each text, in both forms      *)
(* (jcs.go encode, base58.go Encode and Decode).                           *)
TextsReadBack ==
  KeysInOneOrder /\ NumbersReadBack /\ StringsReadBack /\ Base58OneToOne

=============================================================================
