----------------------------- MODULE Sanitizer -----------------------------
(***************************************************************************)
(* SanitizePII (compliance/sanitizer.go).  A text is a sequence of         *)
(* symbols: a digit, a separator, or anything else, of which a whole       *)
(* phrase is one symbol and a redaction tag another, since no pattern      *)
(* looks inside them.  A pattern is the set of the shapes it accepts, a    *)
(* shape being a sequence of sets of symbols.                              *)
(***************************************************************************)
EXTENDS Integers, Sequences

CONSTANT MaxSpaces   \* the bound on \s* in the phone pattern

ASSUME SanitizerAssumption == MaxSpaces \in Nat

Digit == {"1", "9"}   \* one, and every other digit
Space == {" "}

Repeat(n, symbols) == [i \in 1 .. n |-> symbols]
Digits(n)          == Repeat(n, Digit)

---------------------------------------------------------------------------

SsnPattern == {Digits(3) \o <<{"-"}>> \o Digits(2) \o <<{"-"}>> \o Digits(4)}

CcPattern ==
    LET separator == {<<>>, <<Space \cup {"-"}>>}
    IN  {Digits(4) \o s[1] \o Digits(4) \o s[2] \o Digits(4) \o s[3] \o Digits(4) :
            s \in [1 .. 3 -> separator]}

PhonePattern ==
    LET international == <<{"+"}, {"1"}>> \o Digits(10)
        bracketed(n) == <<{"("}>> \o Digits(3) \o <<{")"}>> \o Repeat(n, Space)
                            \o Digits(3) \o <<{"-"}>> \o Digits(4)
        plain == Digits(3) \o <<{"-", "."}>> \o Digits(3) \o <<{"-", "."}>> \o Digits(4)
    IN  {international, plain} \cup {bracketed(n) : n \in 0 .. MaxSpaces}

---------------------------------------------------------------------------

MatchesAt(shape, text, i) ==
    /\ i + Len(shape) <= Len(text) + 1
    /\ \A j \in 1 .. Len(shape) : text[i + j - 1] \in shape[j]

ShapesAt(pattern, text, i) == {s \in pattern : MatchesAt(s, text, i)}

\* Wrong variant: only the first match is replaced.
ReplaceFirst(pattern, text, tag) ==
    LET from[i \in 1 .. Len(text) + 1] ==
            IF i > Len(text) THEN <<>>
            ELSE IF ShapesAt(pattern, text, i) = {} THEN <<text[i]>> \o from[i + 1]
            ELSE LET shape == CHOOSE s \in ShapesAt(pattern, text, i) : TRUE
                 IN  <<tag>> \o SubSeq(text, i + Len(shape), Len(text))
    IN  from[1]

\* ReplaceAllString: leftmost matches that do not overlap.  At most one shape
\* of a pattern fits a place, so the choice has one candidate.
ReplaceAll(pattern, text, tag) ==
    LET from[i \in 1 .. Len(text) + 1] ==
            IF i > Len(text) THEN <<>>
            ELSE IF ShapesAt(pattern, text, i) = {} THEN <<text[i]>> \o from[i + 1]
            ELSE LET shape == CHOOSE s \in ShapesAt(pattern, text, i) : TRUE
                 IN  <<tag>> \o from[i + Len(shape)]
    IN  from[1]

SanitizePII(text) ==
    LET noCards == ReplaceAll(CcPattern, text, "[CC_REDACTED]")
        noSsns  == ReplaceAll(SsnPattern, noCards, "[SSN_REDACTED]")
    IN  ReplaceAll(PhonePattern, noSsns, "[PHONE_REDACTED]")

\* A card number, a social security number or a phone number is in the text.
ShowsPII(text) ==
    \E i \in 1 .. Len(text) :
        ShapesAt(CcPattern \cup SsnPattern \cup PhonePattern, text, i) # {}

=============================================================================
