------------------------------- MODULE Texts -------------------------------
(***************************************************************************)
(* Texts of the ini file and of requests: sequences of characters and of   *)
(* macros.  A macro is {%name} or {$name}, perhaps with a cut [i:j]; a     *)
(* value that holds the characters of a macro holds the macro.  Digests,   *)
(* times and encrypted bytes are opaque.                                   *)
(***************************************************************************)
EXTENDS SequencesExt, Integers

CONSTANTS
  DigestLen,  \* characters of a digest: 32 for MD5, the rest alike
  MaxInt      \* the largest number that is read: 2^63 - 1 in the code

ASSUME TextsAssumption == DigestLen \in Nat /\ MaxInt \in Nat

Char(c) == [kind |-> "char", id |-> c]

Macro(kind, id, cut) == [kind |-> kind, id |-> id, cut |-> cut]

Opaque(kind, of) == [kind |-> kind, of |-> of]

Dead == [kind |-> "dead"]   \* stands for a panic, or a stack that overflows

Digits ==   \* the digits that are worth 0, 1, ..., 15
  <<{"0"}, {"1"}, {"2"}, {"3"}, {"4"}, {"5"}, {"6"}, {"7"}, {"8"}, {"9"},
    {"a", "A"}, {"b", "B"}, {"c", "C"}, {"d", "D"}, {"e", "E"}, {"f", "F"}>>

OfBase(base) == {Char(c) : c \in UNION {Digits[k] : k \in 1 .. base}}

Hex == OfBase(16)

LowerHex == Hex \ {Char(c) : c \in {"A", "B", "C", "D", "E", "F"}}

Worth(digit) == CHOOSE k \in 0 .. 15 : digit.id \in Digits[k + 1]

Comma == Char(",")

Colon == Char(":")

Sign == {Char("+"), Char("-")}

(* {%PKSENC}, {%MD5SUM}, {%BASE64ENC} and the settings they are made from. *)
Input == [pks |-> "PKSInput", md5 |-> "Md5Input", b64 |-> "Base64Input"]

Digest == DOMAIN Input

IsMacro(t) == t.kind \in {"env", "args", "var"} \cup Digest

IsList(s) == s \in Seq(ToSet(s))

IsText(t) == IsList(t) /\ Dead \notin ToSet(t)

(* A text of the ini file: the numbers of a cut are matched by \d+.        *)
IsTemplate(t) ==
  /\ IsText(t)
  /\ \A m \in ToSet(t) : IsMacro(m) =>
       m = Macro(m.kind, m.id, m.cut) /\ (m.cut = << >> \/ m.cut \in Nat \X Nat)

(* parts[1] \o ... \o parts[n].                                             *)
Join(parts, n) ==
  LET joined[k \in 0 .. n] == IF k = 0 THEN << >> ELSE joined[k - 1] \o parts[k] IN joined[n]

(* The macros of a text in the order in which they are registered: every   *)
(* {%..} and then every {$..}.                                             *)
OfKind(text, kinds) ==
  Join([i \in DOMAIN text |-> IF text[i].kind \in kinds THEN <<text[i]>> ELSE << >>], Len(text))

Found(text) == OfKind(text, {"args", "var"} \cup Digest) \o OfKind(text, {"env"})

(* A table: what arrayContains finds in it is not appended again.          *)
Distinct(macros) ==
  Join([n \in DOMAIN macros |->
          IF macros[n] \in {macros[k] : k \in 1 .. n - 1} THEN << >> ELSE <<macros[n]>>],
       Len(macros))

Uncut(m) == [m EXCEPT !.cut = << >>]

(* result[i:j] of a value.                                                 *)
Cut(text, cut) ==
  CASE cut = << >>                                             -> text
    [] cut # << >> /\ cut[1] <= cut[2] /\ cut[2] <= Len(text)
         /\ text # <<Dead>>                                    -> SubSeq(text, cut[1] + 1, cut[2])
    [] OTHER                                                   -> <<Dead>>

(* Every macro that has a value gives way to it.                           *)
AtOnce(text, value) ==
  Join([i \in DOMAIN text |-> IF text[i] \in DOMAIN value THEN value[text[i]] ELSE <<text[i]>>],
       Len(text))

(* strings.Replace of every occurrence of m.                               *)
Substitute(text, m, v) ==
  Join([i \in DOMAIN text |-> IF text[i] = m THEN v ELSE <<text[i]>>], Len(text))

(* One macro after the other, each in what the ones before it have left.   *)
(* All are evaluated, in the text or not.                                  *)
Expand(text, macros, value) ==
  LET left[n \in 0 .. Len(macros)] ==
        IF n = 0 THEN text ELSE Substitute(left[n - 1], macros[n], value[macros[n]])
  IN IF \E m \in ToSet(macros) : Contains(value[m], Dead) THEN <<Dead>> ELSE left[Len(macros)]

(* An integer: digits, perhaps after a sign.                               *)
Unsigned(text) == IF Len(text) > 0 /\ text[1] \in Sign THEN Tail(text) ELSE text

IsNumber(text, base) == Len(Unsigned(text)) > 0 /\ Unsigned(text) \in Seq(OfBase(base))

(* What ParseInt does not find out of range.                               *)
Fits(text, base) ==
  LET size == FoldLeft(LAMBDA n, digit : n * base + Worth(digit), 0, Unsigned(text))
  IN size <= MaxInt + IF text[1] = Char("-") THEN 1 ELSE 0

(* pwd,key,keyexp, the last two in hexadecimal.  RSA itself is left out.   *)
PksReads(text) ==
  \E i, j \in DOMAIN text :
    /\ i < j /\ {k \in DOMAIN text : text[k] = Comma} = {i, j}
    /\ IsNumber(SubSeq(text, i + 1, j - 1), 16)
    /\ LET exp == SubSeq(text, j + 1, Len(text)) IN IsNumber(exp, 16) /\ Fits(exp, 16)

(* What a digest is replaced by: an input of PKSENC that cannot be read by *)
(* the text of the error.                                                  *)
Encode(d, text) ==
  LET kind == IF d = "pks" /\ ~PksReads(text) THEN "error" ELSE d
  IN IF text = <<Dead>> THEN text
     ELSE [i \in 1 .. DigestLen |-> [kind |-> kind, of |-> text, at |-> i]]
=============================================================================
