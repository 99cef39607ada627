-------------------------------- MODULE Atoi ---------------------------------
(***************************************************************************)
(* The number parser of src/util/atoi.c: one character per step, and the   *)
(* conversions to int, uint32_t, uint64_t and size_t, which saturate.  The *)
(* widths are parameters; the characters are chosen as they are read.      *)
(***************************************************************************)
EXTENDS Integers, Sequences

CONSTANTS U64Max, U32Max, IntMax,  \* the largest values of the types
          Digit,   \* the digits that occur: a function from characters to 0..9
          MaxLen   \* bound: characters of a string, without the terminator

IntMin == -IntMax - 1
Blank == {" "}
Signs == {"+", "-"}
Other == {"x"}
Chars == ((Blank \cup Signs) \cup Other) \cup DOMAIN Digit

VARIABLES str,        \* what has been read
          val, is_signed, read_char, read_digit,
          parsed,     \* "reading", "ok" or "invalid"
          overflow

atoiVars == <<str, val, is_signed, read_char, read_digit, parsed, overflow>>

AtoiInit ==
  /\ str = <<>> /\ val = 0
  /\ is_signed = FALSE /\ read_char = FALSE /\ read_digit = FALSE
  /\ parsed = "reading" /\ overflow = FALSE

Read(c) == parsed = "reading" /\ Len(str) < MaxLen /\ str' = Append(str, c)

SkipBlank(c) ==
  /\ Read(c) /\ c \in Blank /\ ~read_char
  /\ UNCHANGED <<val, is_signed, read_char, read_digit, parsed, overflow>>

\* Each minus sign flips the sign.
ReadSign(c) ==
  /\ Read(c) /\ c \in Signs /\ ~read_digit
  /\ read_char' = TRUE
  /\ is_signed' = IF c = "-" THEN ~is_signed ELSE is_signed
  /\ UNCHANGED <<val, read_digit, parsed, overflow>>

\* Mutant: only the multiplication is tested.
OverflowsMul(d) == val > U64Max \div 10

Overflows(d) == val > U64Max \div 10 \/ val * 10 > U64Max - d

ReadDigit(c) ==
  /\ Read(c) /\ c \in DOMAIN Digit
  /\ read_char' = TRUE /\ read_digit' = TRUE
  /\ IF Overflows(Digit[c])
     THEN overflow' = TRUE /\ val' = U64Max /\ parsed' = "ok"
     ELSE val' = (val * 10 + Digit[c]) % (U64Max + 1) /\ UNCHANGED <<overflow, parsed>>
  /\ UNCHANGED is_signed

\* Any other character, and the terminator, ends the number.
Finish ==
  /\ parsed' = IF read_digit THEN "ok" ELSE "invalid"
  /\ UNCHANGED <<val, is_signed, read_char, read_digit, overflow>>

StopAt(c) ==
  /\ Read(c) /\ Finish
  /\ c \in Other \/ (c \in Blank /\ read_char) \/ (c \in Signs /\ read_digit)

Terminator == parsed = "reading" /\ Finish /\ UNCHANGED str

AtoiNext ==
  \/ \E c \in Chars : SkipBlank(c) \/ ReadSign(c) \/ ReadDigit(c) \/ StopAt(c)
  \/ Terminator

-----------------------------------------------------------------------------
(* The conversions of a sign, a magnitude and an overflow of 64 bits       *)

Outcome(v, o) == [val |-> v, overflow |-> o]

ToInt(signed, v, o) ==
  IF signed
  THEN IF v > -IntMin THEN Outcome(IntMin, TRUE) ELSE Outcome(-v, o)
  ELSE IF v > IntMax THEN Outcome(IntMax, TRUE) ELSE Outcome(v, o)

ToUint32(signed, v, o) ==
  IF signed THEN Outcome(0, v # 0 \/ o)
  ELSE IF v > U32Max THEN Outcome(U32Max, TRUE) ELSE Outcome(v, o)

ToUint64(signed, v, o) ==
  IF signed THEN Outcome(0, v # 0 \/ o) ELSE Outcome(v, o)

\* size_t has 64 bits.
ToSize(signed, v, o) == ToUint64(signed, v, o)

-----------------------------------------------------------------------------
(* What a number is: blanks, then signs, then digits, then anything.       *)

Decimal(s) ==
  LET upTo[n \in 0..Len(s)] == IF n = 0 THEN 0 ELSE 10 * upTo[n - 1] + Digit[s[n]]
  IN upTo[Len(s)]

AllIn(s, i, j, S) == \A k \in i..j : s[k] \in S

\* The ends of the blanks, the signs and the digits of s: each part is as long
\* as can be.
Parts(s) ==
  CHOOSE p \in (0..Len(s)) \X (0..Len(s)) \X (0..Len(s)) :
    LET Whole(i, j, S) == AllIn(s, i + 1, j, S) /\ (j < Len(s) => s[j + 1] \notin S)
    IN /\ p[1] <= p[2] /\ p[2] <= p[3]
       /\ Whole(0, p[1], Blank) /\ Whole(p[1], p[2], Signs) /\ Whole(p[2], p[3], DOMAIN Digit)

Number(s) ==
  LET p == Parts(s)
      minuses == {k \in (p[1] + 1)..p[2] : s[k] = "-"}
      even[S \in SUBSET minuses] ==
        IF S = {} THEN TRUE ELSE ~even[S \ {CHOOSE k \in S : TRUE}]
  IN IF p[2] = p[3] THEN [is |-> FALSE, val |-> 0]
     ELSE [is |-> TRUE,
           val |-> IF even[minuses] THEN Decimal(SubSeq(s, p[2] + 1, p[3]))
                   ELSE -Decimal(SubSeq(s, p[2] + 1, p[3]))]

Saturated(v, least, most) ==
  Outcome(IF v < least THEN least ELSE IF v > most THEN most ELSE v, v < least \/ v > most)

(***************************************************************************)
(* The parser accepts exactly the strings that begin with a number, and    *)
(* every conversion returns it, or the nearest value of its type and the   *)
(* overflow flag, up to the very limits of the types (ABTU_atoi,           *)
(* ABTU_atoui32, ABTU_atoui64, ABTU_atosz).                                *)
(***************************************************************************)
ParsedExactly ==
  parsed # "reading" =>
    LET n == Number(str)
    IN /\ parsed = IF n.is THEN "ok" ELSE "invalid"
       /\ n.is =>
            /\ ToInt(is_signed, val, overflow) = Saturated(n.val, IntMin, IntMax)
            /\ ToUint32(is_signed, val, overflow) = Saturated(n.val, 0, U32Max)
            /\ ToUint64(is_signed, val, overflow) = Saturated(n.val, 0, U64Max)
            /\ ToSize(is_signed, val, overflow) = Saturated(n.val, 0, U64Max)
=============================================================================
