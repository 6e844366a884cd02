---------------------------- MODULE PolicyValues ----------------------------
\* The validators of attribute values, as policy.js writes them (Js...) and as
\* lean/Guard/Validators does (Lean...).  A value is a sequence of characters;
\* the name of a transform function counts as one.  A validator returns the
\* canonical value to emit, or Null.
EXTENDS Integers, Sequences, SequencesExt

CONSTANTS
  MaxIntDigits,       \* digits of an integer part (7)
  MaxMagnitude,       \* LIMITS.maxNumberMagnitude
  MaxIntegerDigits,   \* digits of an int (15)
  MaxPathNumbers,     \* LIMITS.maxPathNumbers
  MaxAttrValueLength, \* LIMITS.maxAttrValueLength
  LongFactor,         \* what a value of any kind may exceed it by (10)
  MaxTransforms,      \* functions in one transform list (8)
  MaxIdentLength,     \* characters of an identifier (64)
  MaxIdRefs,          \* ids in one list (8)
  Classes,            \* the class allowlist of this build
  HalfUlpOfOne,       \* the digits of 2^-53 after the point
  HalfLeastDouble     \* the digits of 2^-1075 after the point

Null == <<"null">>

DigitNames == <<"0", "1", "2", "3", "4", "5", "6", "7", "8", "9">>
Digit == Range(DigitNames)
Space == {" "}
Control == {"~"}   \* stands for the control and bidi characters
Letter == {"a", "b", "g", "M", "L"}

Number(ds) ==
  FoldLeft(LAMBDA n, d : 10 * n + (CHOOSE k \in 0..9 : DigitNames[k + 1] = d), 0, ds)

From(s, n) == SubSeq(s, n, Len(s))

\* Of two fractions, given by their digits after the point, f is no more than g:
\* wherever f has the larger digit, an earlier one was smaller.
NoMore(f, g) ==
  LET digit(s, i) == IF i \in DOMAIN s THEN Number(<<s[i]>>) ELSE 0
  IN \A i \in DOMAIN f :
       digit(f, i) > digit(g, i) => \E j \in 1..(i - 1) : digit(f, j) < digit(g, j)

ASSUME DoubleAssumption ==
  /\ HalfUlpOfOne \in Seq(Digit) /\ HalfLeastDouble \in Seq(Digit)
  /\ NoMore(HalfLeastDouble, HalfUlpOfOne)

\* The longest prefix of s over S, and what follows it.
Span(s, S) ==
  CHOOSE n \in 0..Len(s) : /\ \A i \in 1..n : s[i] \in S
                           /\ n < Len(s) => s[n + 1] \notin S
Prefix(s, S) == SubSeq(s, 1, Span(s, S))
After(s, S) == From(s, Span(s, S) + 1)
Trim(s) == Reverse(After(Reverse(After(s, Space)), Space))
CleanText(s) == SelectSeq(s, LAMBDA c : c \notin Control)

\* join(" ")
Spaced(parts) ==
  IF parts = <<>> THEN <<>>
  ELSE FoldLeft(LAMBDA acc, p : acc \o <<" ">> \o p, Head(parts), Tail(parts))

\* A list is valid when each of its parts is.
AllOrNull(parts) == IF Null \in Range(parts) THEN Null ELSE Spaced(parts)

-----------------------------------------------------------------------------
(***************************************************************************
 policy.js: what the regular expressions match.
 ***************************************************************************)
AllDigits(s, i, j) == \A k \in i..j : s[k] \in Digit

\* NUM_RE: where the sign and the integer part end.
NumberMatches(t) ==
  {m \in (0..1) \X (0..Len(t)) :
     /\ m[1] <= m[2]
     /\ m[1] = 1 => t[1] = "-"
     /\ AllDigits(t, m[1] + 1, m[2])
     /\ m[2] < Len(t) => /\ t[m[2] + 1] = "."
                         /\ m[2] + 2 <= Len(t)
                         /\ AllDigits(t, m[2] + 2, Len(t))}

\* Seeded bug: trailing zeros of the fraction stay.
Bug_KeepTrailingZeros(v) ==
  LET t == Trim(v) IN IF NumberMatches(t) = {} THEN Null ELSE t

JsNumber(v) ==
  LET t == Trim(v)
      m == CHOOSE m \in NumberMatches(t) : TRUE
      int == SubSeq(t, m[1] + 1, m[2])
      frac == From(t, m[2] + 2)
      zeros == \A i \in DOMAIN int : int[i] = "0"
      whole == IF zeros THEN <<"0">> ELSE After(int, {"0"})
      part == Reverse(After(Reverse(frac), {"0"}))
      n == Number(whole)
  IN IF NumberMatches(t) = {} THEN Null
     ELSE IF int = <<>> /\ frac = <<>> THEN Null
     ELSE IF Len(int) > MaxIntDigits THEN Null
     ELSE IF n > MaxMagnitude \/ (n = MaxMagnitude /\ part # <<>>) THEN Null
     ELSE IF zeros /\ part = <<>> THEN <<"0">>
     ELSE SubSeq(t, 1, m[1]) \o whole
          \o (IF part = <<>> THEN <<>> ELSE <<".">> \o part)

\* Number(n) of a canonical decimal n, written as a decimal again where comparing
\* it with 0 and 1 can tell it from n: what is too small is 0 or -0, what exceeds 1
\* by too little is 1 (round to nearest, ties to even).
ToDouble(n) ==
  LET size == IF Head(n) = "-" THEN Tail(n) ELSE n
      whole == Prefix(size, Digit)
      fraction == From(size, Len(whole) + 2)
  IN CASE whole = <<"0">> /\ NoMore(fraction, HalfLeastDouble) -> <<"0">>
       [] whole = <<"1">> /\ size = n /\ NoMore(fraction, HalfUlpOfOne) -> <<"1">>
       [] OTHER -> n

NotNegative(n) == IF n # Null /\ Head(ToDouble(n)) = "-" THEN Null ELSE n
JsNonNegative(v) == NotNegative(JsNumber(v))

\* trim().split(separators).filter(Boolean): the maximal runs of v.
Runs(v, separators) ==
  LET starts == {i \in DOMAIN v : /\ v[i] \notin separators
                                  /\ i > 1 => v[i - 1] \in separators}
      run(i) == SubSeq(v, i, CHOOSE j \in i..Len(v) :
                               /\ \A k \in i..j : v[k] \notin separators
                               /\ j < Len(v) => v[j + 1] \in separators)
      order == SetToSortSeq(starts, <)
  IN [k \in DOMAIN order |-> run(order[k])]

JsNumberList(max, v) ==
  LET parts == Runs(v, Space \cup {","})
  IN IF parts = <<>> \/ Len(parts) > max THEN Null
     ELSE AllOrNull([i \in DOMAIN parts |-> JsNumber(parts[i])])

\* PATH_NUMBER_RE takes the longest prefix of this form.
IsPathNumber(s) ==
  LET u == IF s # <<>> /\ Head(s) = "-" THEN Tail(s) ELSE s
      whole == Prefix(u, Digit)
      rest == After(u, Digit)
  IN \/ whole # <<>> /\ rest = <<>>
     \/ /\ rest # <<>> /\ Head(rest) = "."
        /\ AllDigits(rest, 2, Len(rest))
        /\ whole # <<>> \/ Len(rest) > 1

PathCommand == {"M", "L"}

RECURSIVE JsPathTokens(_, _)
JsPathTokens(v, numbers) ==
  LET prefixes == {k \in 1..Len(v) : IsPathNumber(SubSeq(v, 1, k))}
      length == CHOOSE k \in prefixes : \A j \in prefixes : j <= k
  IN IF v = <<>> THEN <<>>
     ELSE IF Head(v) \in Space \cup {","} THEN JsPathTokens(Tail(v), numbers)
     ELSE IF Head(v) \in PathCommand THEN <<<<Head(v)>>>> \o JsPathTokens(Tail(v), numbers)
     ELSE IF prefixes = {} \/ numbers = MaxPathNumbers THEN <<Null>>
     ELSE <<JsNumber(SubSeq(v, 1, length))>>
          \o JsPathTokens(From(v, length + 1), numbers + 1)

JsPathOf(t, out) ==
  IF Len(t) > LongFactor * MaxAttrValueLength \/ out = <<>> \/ Head(out) # <<"M">>
  THEN Null ELSE AllOrNull(out)
JsPath(v) == JsPathOf(Trim(v), JsPathTokens(Trim(v), 0))

\* TRANSFORM_ARITY, of two of the functions.
Arity == [scale |-> 1..2, rotate |-> {1, 2, 3}]

\* The functions of v, read in the order they stand in; a last part Null where
\* reading fails.
RECURSIVE JsTransforms(_, _)
JsTransforms(v, count) ==
  LET s == After(v, Space)
      open == After(Tail(s), Space)
      close == {i \in 2..Len(open) : open[i] = ")"}
      end == CHOOSE i \in close : \A j \in close : i <= j
      args == SubSeq(open, 2, end - 1)
      nums == JsNumberList(6, args)
  IN IF s = <<>> THEN <<>>
     ELSE IF count = MaxTransforms THEN <<Null>>
     ELSE IF Head(s) \notin DOMAIN Arity THEN <<Null>>
     ELSE IF open = <<>> \/ Head(open) # "(" \/ close = {} THEN <<Null>>
     ELSE IF "(" \in Range(args) \/ nums = Null THEN <<Null>>
     ELSE IF Len(Runs(nums, Space)) \notin Arity[Head(s)] THEN <<Null>>
     ELSE <<<<Head(s), "(">> \o nums \o <<")">>>>
          \o JsTransforms(From(open, end + 1), count + 1)

JsTransformOf(t, out) ==
  IF out = <<>> \/ Len(t) > MaxAttrValueLength THEN Null ELSE AllOrNull(out)
JsTransform(v) == JsTransformOf(Trim(v), JsTransforms(Trim(v), 0))

JsViewBoxOf(nums) ==
  LET parts == Runs(nums, Space)
      positive(n) == Head(ToDouble(n)) # "-" /\ ToDouble(n) # <<"0">>
  IN IF nums = Null \/ Len(parts) # 4 THEN Null
     ELSE IF positive(parts[3]) /\ positive(parts[4]) THEN nums ELSE Null
JsViewBox(v) == JsViewBoxOf(JsNumberList(4, v))

\* f >= 0 && f <= 1
InUnit(f) == f \in {<<"0">>, <<"1">>} \/ IsPrefix(<<"0", ".">>, f)
UnitOnly(n) == IF n # Null /\ InUnit(ToDouble(n)) THEN n ELSE Null
JsUnit(v) == UnitOnly(JsNumber(v))

\* What f makes of v, its percent sign aside.
WithPercent(f(_), v) ==
  LET t == Trim(v)
      n == f(Front(t))
  IN IF t = <<>> \/ Last(t) # "%" THEN f(t)
     ELSE IF n = Null THEN Null ELSE Append(n, "%")
JsLengthOrPercent(v) == WithPercent(JsNumber, v)

JsInteger(lo, hi, v) ==
  LET t == Trim(v)
      minus == t # <<>> /\ Head(t) = "-"
      digits == IF minus THEN Tail(t) ELSE t
      n == IF minus THEN 0 - Number(digits) ELSE Number(digits)
      shown == After(digits, {"0"})
  IN IF digits = <<>> \/ ~AllDigits(digits, 1, Len(digits)) \/ Len(digits) > MaxIntegerDigits
     THEN Null
     ELSE IF n \notin lo..hi THEN Null
     ELSE IF n = 0 THEN <<"0">> ELSE IF minus THEN <<"-">> \o shown ELSE shown

\* IDENT_RE, and an id with the prefix "g-".
IsIdent(s) == /\ s # <<>>
              /\ Head(s) \in Letter
              /\ Range(s) \subseteq Letter \cup Digit \cup {"-"}
              /\ Len(s) <= MaxIdentLength

JsIdent(v) == IF IsIdent(Trim(v)) THEN Trim(v) ELSE Null

JsId(v) ==
  LET t == Trim(v)
  IN IF IsPrefix(<<"g", "-">>, t) /\ IsIdent(From(t, 3)) THEN t
     ELSE IF IsIdent(t) THEN <<"g", "-">> \o t
     ELSE Null

JsIdList(v) ==
  LET parts == Runs(v, Space)
  IN IF Len(parts) \notin 1..MaxIdRefs THEN Null
     ELSE AllOrNull([i \in DOMAIN parts |-> JsId(parts[i])])

\* A class of the allowlist is one character; the others are not kept.
JsClasses(allowed, v) ==
  LET kept == SelectSeq(Runs(v, Space), LAMBDA c : c \in {<<n>> : n \in allowed})
  IN IF kept = <<>> THEN Null ELSE Spaced(kept)

JsLang(v) ==
  LET t == Trim(v)
      parts == Runs(t, {"-"})
      sized(p, lo, hi) == Len(p) \in lo..hi
  IN IF /\ parts # <<>> /\ Spaced(parts) = [i \in DOMAIN t |-> IF t[i] = "-" THEN " " ELSE t[i]]
        /\ sized(Head(parts), 2, 3) /\ Range(Head(parts)) \subseteq Letter
        /\ Len(parts) <= 4
        /\ \A p \in Range(Tail(parts)) : sized(p, 2, 8) /\ Range(p) \subseteq Letter \cup Digit
     THEN t ELSE Null

\* A named, hexadecimal or rgb() colour is one character here: the capital
\* letters of all but the hexadecimal ones are lowered.
Colors == [none |-> "none", RED |-> "red", red |-> "red", FFF |-> "FFF",
           currentcolor |-> "currentColor", currentColor |-> "currentColor"]
Color(v) ==
  LET t == Trim(v)
  IN IF Len(t) = 1 /\ t[1] \in DOMAIN Colors THEN <<Colors[t[1]]>> ELSE Null

JsText(v) == IF Len(v) > MaxAttrValueLength THEN Null ELSE CleanText(v)

JsKeyword(words, v) == IF Trim(v) \in words THEN Trim(v) ELSE Null

\* resolveValidator: what the validator of a descriptor makes of v.
JsValidator(d, v) ==
  CASE d.kind = "num" -> JsNumber(v)
    [] d.kind = "nonNeg" -> JsNonNegative(v)
    [] d.kind = "unit" -> JsUnit(v)
    [] d.kind = "lenPct" -> JsLengthOrPercent(v)
    [] d.kind = "path" -> JsPath(v)
    [] d.kind = "transform" -> JsTransform(v)
    [] d.kind = "viewBox" -> JsViewBox(v)
    [] d.kind = "color" -> Color(v)
    [] d.kind = "text" -> JsText(v)
    [] d.kind = "ident" -> JsIdent(v)
    [] d.kind = "id" -> JsId(v)
    [] d.kind = "idRefs" -> JsIdList(v)
    [] d.kind = "cls" -> JsClasses(Classes, v)
    [] d.kind = "lang" -> JsLang(v)
    [] d.kind = "int" -> JsInteger(d.lo, d.hi, v)
    [] d.kind = "numList" -> JsNumberList(d.max, v)
    [] d.kind = "oneOf" -> JsKeyword(d.values, v)
    [] d.kind = "fixed" -> d.value

-----------------------------------------------------------------------------
(***************************************************************************
 lean/Guard/Validators: recursion over lists of characters.
 ***************************************************************************)
Unsigned(s) == IF s # <<>> /\ Head(s) = "-" THEN Tail(s) ELSE s
Sign(s) == IF s # <<>> /\ Head(s) = "-" THEN <<"-">> ELSE <<>>

DropLeadingZeros(ds) ==
  LET r == After(ds, {"0"}) IN IF r = <<>> THEN <<"0">> ELSE r

\* canonicalFromParts
FromParts(sign, ints, fracs) ==
  LET int == DropLeadingZeros(ints)
      frac == Reverse(After(Reverse(fracs), {"0"}))
      n == Number(int)
  IN IF \/ ints = <<>> /\ fracs = <<>>
        \/ Len(ints) > MaxIntDigits
        \/ n > MaxMagnitude
        \/ n = MaxMagnitude /\ frac # <<>>
     THEN Null
     ELSE IF int = <<"0">> /\ frac = <<>> THEN int
     ELSE sign \o int \o (IF frac = <<>> THEN <<>> ELSE <<".">> \o frac)

LeanNumber(v) ==
  LET t == Trim(v)
      ints == Prefix(Unsigned(t), Digit)
      rest == After(Unsigned(t), Digit)
  IN IF rest = <<>> THEN FromParts(Sign(t), ints, <<>>)
     ELSE IF Head(rest) = "." /\ Len(rest) > 1 /\ Range(Tail(rest)) \subseteq Digit THEN
            FromParts(Sign(t), ints, Tail(rest))
     ELSE Null

Signless(n) == IF n = Null \/ Sign(n) # <<>> THEN Null ELSE n
LeanNonNegative(v) == Signless(LeanNumber(v))

\* splitRuns
SplitRuns(cs, separators) ==
  LET go == FoldLeft(LAMBDA st, c :
              IF c \notin separators THEN [st EXCEPT !.cur = Append(@, c)]
              ELSE IF st.cur = <<>> THEN st
              ELSE [cur |-> <<>>, acc |-> Append(st.acc, st.cur)],
              [cur |-> <<>>, acc |-> <<>>], cs)
  IN IF go.cur = <<>> THEN go.acc ELSE Append(go.acc, go.cur)

LeanNumberList(max, v) ==
  LET parts == SplitRuns(Trim(v), Space \cup {","})
  IN IF Len(parts) \notin 1..max THEN Null
     ELSE AllOrNull([i \in DOMAIN parts |-> LeanNumber(parts[i])])

LeanViewBoxOf(nums) ==
  LET parts == SplitRuns(nums, Space)
  IN IF nums = Null \/ Len(parts) # 4 THEN Null
     ELSE IF \A i \in 3..4 : Sign(parts[i]) = <<>> /\ parts[i] # <<"0">> THEN nums ELSE Null
LeanViewBox(v) == LeanViewBoxOf(LeanNumberList(4, v))

LeanUnitOf(n) ==
  CASE n = Null \/ Sign(n) # <<>> -> Null
    [] n \in {<<"1">>, <<"0">>} -> n
    [] IsPrefix(<<"0", ".">>, n) -> n
    [] OTHER -> Null
LeanUnit(v) == LeanUnitOf(LeanNumber(v))

LeanLengthOrPercent(v) == WithPercent(LeanNumber, v)

\* intParse and boundedInt
LeanInteger(lo, hi, v) ==
  LET t == Trim(v)
      ds == Unsigned(t)
      n == Number(ds)
      signed == IF Sign(t) = <<>> THEN n ELSE -n
  IN IF ds = <<>> \/ Span(ds, Digit) < Len(ds) \/ Len(ds) > MaxIntegerDigits THEN Null
     ELSE IF signed < lo \/ signed > hi THEN Null
     ELSE (IF signed < 0 THEN <<"-">> ELSE <<>>) \o DropLeadingZeros(ds)

\* takeNumberToken: the length of the number cs begins with, 0 if none.
NumberToken(cs) ==
  LET s == Len(Sign(cs))
      r == Unsigned(cs)
      ds == Span(r, Digit)
      dot == ds < Len(r) /\ r[ds + 1] = "."
      fs == Span(From(r, ds + 2), Digit)
  IN IF ds = 0 /\ ~(dot /\ fs > 0) THEN 0
     ELSE IF dot THEN s + ds + 1 + fs
     ELSE s + ds

RECURSIVE LeanPathTokens(_, _, _)
LeanPathTokens(cs, count, acc) ==
  LET length == NumberToken(cs)
      n == LeanNumber(SubSeq(cs, 1, length))
  IN IF cs = <<>> THEN acc
     ELSE IF Head(cs) \in Space \cup {","} THEN LeanPathTokens(Tail(cs), count, acc)
     ELSE IF Head(cs) \in PathCommand
       THEN LeanPathTokens(Tail(cs), count, Append(acc, <<Head(cs)>>))
     ELSE IF length = 0 \/ count + 1 > MaxPathNumbers \/ n = Null THEN <<Null>>
     ELSE LeanPathTokens(From(cs, length + 1), count + 1, Append(acc, n))

LeanPathOf(t, tokens) ==
  IF /\ Len(t) <= LongFactor * MaxAttrValueLength
     /\ tokens # <<>>
     /\ Head(tokens) = <<"M">>
  THEN Spaced(tokens) ELSE Null
LeanPath(v) == LeanPathOf(Trim(v), LeanPathTokens(Trim(v), 0, <<>>))

\* transformParts and transformGroup.
RECURSIVE LeanTransforms(_, _, _)
LeanTransforms(fuel, cs, acc) ==
  LET s == After(cs, Space)
      r == After(Tail(s), Space)
      args == Prefix(Tail(r), {c \in Range(r) : c \notin {"(", ")"}})
      rest == From(r, Len(args) + 2)
      nums == LeanNumberList(6, args)
  IN IF s = <<>> THEN acc
     ELSE IF \/ fuel = 0
             \/ Head(s) \notin DOMAIN Arity
             \/ r = <<>> \/ Head(r) # "("
             \/ rest = <<>> \/ Head(rest) # ")"
             \/ nums = Null
             \/ Len(SplitRuns(nums, Space)) \notin Arity[Head(s)]
       THEN <<>>
     ELSE LeanTransforms(fuel - 1, Tail(rest),
                         Append(acc, <<Head(s), "(">> \o nums \o <<")">>))

LeanTransformOf(t, out) ==
  IF Len(t) > MaxAttrValueLength \/ out = <<>> THEN Null ELSE Spaced(out)
LeanTransform(v) == LeanTransformOf(Trim(v), LeanTransforms(MaxTransforms, Trim(v), <<>>))

\* idValueChars
LeanId(v) ==
  LET cs == Trim(v)
      prefixed == Len(cs) >= 2 /\ cs[1] = "g" /\ cs[2] = "-"
  IN IF prefixed /\ IsIdent(From(cs, 3)) THEN cs
     ELSE IF IsIdent(cs) THEN <<"g", "-">> \o cs ELSE Null

LeanIdList(v) ==
  LET parts == SplitRuns(Trim(v), Space)
  IN IF parts = <<>> \/ Len(parts) > MaxIdRefs THEN Null
     ELSE AllOrNull([i \in DOMAIN parts |-> LeanId(parts[i])])

LeanClasses(allowed, v) ==
  LET kept == SelectSeq(SplitRuns(Trim(v), Space), LAMBDA c : Len(c) = 1 /\ c[1] \in allowed)
  IN IF kept = <<>> THEN Null ELSE Spaced(kept)

\* splitOnChar keeps the empty parts.
SplitOnChar(cs, separator) ==
  FoldLeft(LAMBDA parts, c : IF c = separator THEN Append(parts, <<>>)
                             ELSE [parts EXCEPT ![Len(parts)] = Append(@, c)],
           <<<<>>>>, cs)

LeanLang(v) ==
  LET parts == SplitOnChar(Trim(v), "-")
  IN IF /\ Len(Head(parts)) \in {2, 3} /\ Range(Head(parts)) \subseteq Letter
        /\ Len(parts) <= 4
        /\ \A p \in Range(Tail(parts)) : Len(p) \in 2..8 /\ Range(p) \subseteq Letter \cup Digit
     THEN Trim(v) ELSE Null

LeanText(v) == IF Len(v) > MaxAttrValueLength THEN Null ELSE CleanText(v)

\* Val.apply
LeanValidator(d, v) ==
  CASE d.kind = "num" -> LeanNumber(v)
    [] d.kind = "nonNeg" -> LeanNonNegative(v)
    [] d.kind = "unit" -> LeanUnit(v)
    [] d.kind = "lenPct" -> LeanLengthOrPercent(v)
    [] d.kind = "path" -> LeanPath(v)
    [] d.kind = "transform" -> LeanTransform(v)
    [] d.kind = "viewBox" -> LeanViewBox(v)
    [] d.kind = "color" -> Color(v)
    [] d.kind = "text" -> LeanText(v)
    [] d.kind = "ident" -> IF IsIdent(Trim(v)) THEN Trim(v) ELSE Null
    [] d.kind = "id" -> LeanId(v)
    [] d.kind = "idRefs" -> LeanIdList(v)
    [] d.kind = "cls" -> LeanClasses(Classes, v)
    [] d.kind = "lang" -> LeanLang(v)
    [] d.kind = "int" -> LeanInteger(d.lo, d.hi, v)
    [] d.kind = "numList" -> LeanNumberList(d.max, v)
    [] d.kind = "oneOf" -> IF Trim(v) \in d.values THEN Trim(v) ELSE Null
    [] d.kind = "fixed" -> d.value
=============================================================================
