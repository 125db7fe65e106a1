-------------------------------- MODULE Text --------------------------------
(***************************************************************************)
(* The conversions of text in suil/utils: base64 (b64.cpp), URL encoding   *)
(* (url.cpp), hexadecimal digits, trimming and splitting (utils.cpp).      *)
(* Text is a sequence of bytes, built up byte by byte.                     *)
(***************************************************************************)
EXTENDS Integers, Sequences, SequencesExt, Bitwise

CONSTANTS ByteSet,       \* the bytes text is made of
          MaxText,       \* bound: its length
          Delims         \* delimiters to split at

VARIABLE text

Ch(c) == CASE c = "A" -> 65 [] c = "a" -> 97 [] c = "0" -> 48 [] c = "+" -> 43 [] c = "/" -> 47
           [] c = "=" -> 61 [] c = "%" -> 37 [] c = " " -> 32
IsAlnum(c) == c \in 48 .. 57 \/ c \in 65 .. 90 \/ c \in 97 .. 122

\* b64table[] and ASCII_LOOKUP[], 64 for what is not in the alphabet.
B64Char(v) == IF v < 26 THEN Ch("A") + v ELSE IF v < 52 THEN Ch("a") + v - 26
              ELSE IF v < 62 THEN Ch("0") + v - 52 ELSE IF v = 62 THEN Ch("+") ELSE Ch("/")
Lookup(c) == IF c \in 65 .. 90 THEN c - 65 ELSE IF c \in 97 .. 122 THEN c - 71
             ELSE IF c \in 48 .. 57 THEN c + 4 ELSE IF c = 43 THEN 62 ELSE IF c = 47 THEN 63 ELSE 64

\* B64::encode(): groups of three bytes, the last one padded.
B64Encode(s) ==
    LET at(i) == IF i <= Len(s) THEN s[i] ELSE 0
        group(g) ==
            LET a == at(3 * g - 2)  b == at(3 * g - 1)  c == at(3 * g)
                left == Len(s) - (3 * g - 3)
            IN  <<B64Char(a \div 4), B64Char((a % 4) * 16 + b \div 16),
                  IF left = 1 THEN Ch("=") ELSE B64Char((b % 16) * 4 + c \div 64),
                  IF left <= 2 THEN Ch("=") ELSE B64Char(c % 64)>>
    IN  FlattenSeq([g \in 1 .. (Len(s) + 2) \div 3 |-> group(g)])

\* B64::decode() of a nonempty text that `after' follows in memory.  All groups but
\* the last must be of the alphabet; the last is read up to its padding, and one
\* byte further when it has none.  How many bytes it makes of the last group is
\* unsigned: of a single letter, as of no text, it makes three.
Invalid == <<-1>>
B64Decode_full(s, after) ==
    LET full == Len(s) \div 4
        v(i) == Lookup(s[i])
        bytes(g) == <<((v(4*g-3) * 4) | (v(4*g-2) \div 16)) % 256,
                      ((v(4*g-2) * 16) | (v(4*g-1) \div 4)) % 256,
                      ((v(4*g-1) * 64) | v(4*g)) % 256>>
    IN  FlattenSeq([g \in 1 .. full |-> bytes(g)])
B64Decode(s, after) ==
    LET full == (Len(s) - 1) \div 4
        v(i) == IF i <= Len(s) THEN Lookup(s[i]) ELSE Lookup(after)
        bytes(g) == <<((v(4*g-3) * 4) | (v(4*g-2) \div 16)) % 256,
                      ((v(4*g-2) * 16) | (v(4*g-1) \div 4)) % 256,
                      ((v(4*g-1) * 64) | v(4*g)) % 256>>
        sz == Len(s) - 4 * full
        ends(i) == LET c == IF 4 * full + i + 1 <= Len(s) THEN s[4 * full + i + 1] ELSE after
                   IN  Lookup(c) = 64
        i == IF \E k \in 0 .. 4 : ends(k) THEN CHOOSE k \in 0 .. 4 : ends(k) /\ \A j \in 0 .. k - 1 : ~ends(j)
             ELSE 5
        stop == IF 4 * full + i + 1 <= Len(s) THEN s[4 * full + i + 1] ELSE after
        out == sz - (4 - i)
    IN  IF \E k \in 1 .. 4 * full : v(k) = 64 THEN Invalid
        ELSE IF sz # i /\ stop # Ch("=") THEN Invalid
        ELSE FlattenSeq([g \in 1 .. full |-> bytes(g)])
             \o SubSeq(bytes(full + 1), 1, IF out \notin 0 .. 4 THEN 3 ELSE IF out > 1 THEN out - 1 ELSE 0)

\* URL::encode() and URL::decode(): strchr() finds the NUL of "-_.~", too.
HexChar(v) == IF v < 10 THEN 48 + v ELSE 55 + v
Plain(c) == IsAlnum(c) \/ c \in {45, 95, 46, 126, 0}
UrlEncode(s) ==
    FlattenSeq([i \in DOMAIN s |-> IF Plain(s[i]) THEN <<s[i]>>
                                   ELSE <<Ch("%"), HexChar(s[i] \div 16), HexChar(s[i] % 16)>>])
HexValue(c) == IF c \in 48 .. 57 THEN c - 48 ELSE IF c \in 97 .. 102 THEN c - 87
               ELSE IF c \in 65 .. 70 THEN c - 55 ELSE 16
UrlDecode(s) ==
    LET step(r, i) ==
            IF i < r[2] THEN r
            ELSE IF s[i] = Ch("%") /\ i + 2 <= Len(s) /\ HexValue(s[i+1]) < 16 /\ HexValue(s[i+2]) < 16
            THEN <<Append(r[1], 16 * HexValue(s[i+1]) + HexValue(s[i+2])), i + 3>>
            ELSE <<Append(r[1], IF s[i] = Ch("+") THEN Ch(" ") ELSE s[i]), i + 1>>
    IN  FoldLeftDomain(step, <<<<>>, 1>>, s)[1]

\* i2c(), c2i() and hexstr().
I2c(v, caps) == IF v < 10 THEN v + 48 ELSE v + (IF caps THEN 55 ELSE 87)
C2i(c) == HexValue(c)
HexStr(s) == FlattenSeq([i \in DOMAIN s |-> <<I2c(s[i] \div 16, FALSE), I2c(s[i] % 16, FALSE)>>])

\* trim(), strip(): strchr() finds the NUL in every set.
Trim(s, what) ==
    LET keep == {i \in DOMAIN s : s[i] \notin what \cup {0}}
        lo == CHOOSE i \in keep : \A j \in keep : i <= j
        hi == CHOOSE i \in keep : \A j \in keep : j <= i
    IN  IF keep = {} THEN <<>> ELSE SubSeq(s, lo, hi)
Strip(s, what) == SelectSeq(s, LAMBDA c : c \notin what \cup {0})

\* split() and parts(): strstr() from a position, 0 when there is none before the
\* NUL; a part is kept before each delimiter, and at the end only if not empty.
At(s, d, i) == i + Len(d) - 1 <= Len(s) /\ SubSeq(s, i, i + Len(d) - 1) = d
Parts(s, d) ==
    LET end == IF \E i \in DOMAIN s : s[i] = 0 THEN SelectInSeq(s, LAMBDA c : c = 0) ELSE Len(s) + 1
        step(r, i) == IF i < r[2] \/ i >= end \/ ~At(s, d, i) THEN r
                      ELSE <<Append(r[1], SubSeq(s, r[2], i - 1)), i + Len(d)>>
        r == FoldLeftDomain(step, <<<<>>, 1>>, s)
    IN  IF r[2] <= Len(s) THEN Append(r[1], SubSeq(s, r[2], Len(s))) ELSE r[1]

TextInit == text = <<>>
AddByte(b) == Len(text) < MaxText /\ text' = Append(text, b)
TextNext == \E b \in ByteSet : AddByte(b)
-----------------------------------------------------------------------------
Joined(parts, d) ==
    FoldLeftDomain(LAMBDA s, i : s \o (IF i = 1 THEN <<>> ELSE d) \o parts[i], <<>>, parts)

\* What is encoded is what is decoded, if there is any, whatever its length and its
\* place in a group (what decode() makes of other text is not claimed); the
\* encoded forms have only letters of their alphabets; and the parts of a text,
\* joined, are the text, but for a delimiter at its end.
TextSurvives ==
    /\ text # <<>> => B64Decode(B64Encode(text), 0) = text
    /\ UrlDecode(UrlEncode(text)) = text
    /\ \A i \in DOMAIN UrlEncode(text) : UrlEncode(text)[i] = Ch("%") \/ Plain(UrlEncode(text)[i])
    /\ \A i \in DOMAIN text : C2i(HexStr(text)[2 * i - 1]) * 16 + C2i(HexStr(text)[2 * i]) = text[i]
    /\ \A d \in Delims : LET p == Parts(text, d)
                         IN  text \in {Joined(p, d), Joined(p, d) \o d}
    /\ \A c \in ByteSet : Strip(Trim(text, {c}), {c}) = Strip(text, {c})
=============================================================================
