--------------------------- MODULE Configuration ---------------------------
(***************************************************************************)
(* CConfiguration: the settings and the parser that reads them from a      *)
(* file.  A text is a sequence of tokens: a run of letters or of digits,   *)
(* or a single other character.  The parser consumes runs as a whole, so   *)
(* a round of its loop is a step here whatever the lengths (the buffers'   *)
(* sizes are left out); "nul" ends the text.                               *)
(***************************************************************************)
EXTENDS Naturals, Sequences, FiniteSetsExt

CONSTANTS
  Word,         \* runs of letters
  Digits,       \* runs of digits
  Lower(_),     \* ToLower of a word
  NumberOf(_)   \* the number that begins a run of digits

ASSUME TextAssumption ==
  /\ Word \cap Digits = {}
  /\ (Word \cup Digits) \cap {" ", "=", "#", "\r", "\n", "nul"} = {}
  /\ \A w \in Word : Lower(w) \in Word
  /\ \A d \in Digits : NumberOf(d) \in Nat

VARIABLES
  m_values,  \* the settings: lower-case key -> ConfigurationValue
  buf,       \* the text being parsed
  ptr,       \* where in it
  layout     \* whether the build places `temp' below `temp2'

configVars == <<m_values, buf, ptr, layout>>

Blank == {" "}

ConfigInit ==
  /\ m_values = <<>> /\ buf = <<>> /\ ptr = 1
  /\ layout \in BOOLEAN

At(i) == IF i <= Len(buf) THEN buf[i] ELSE "nul"

(***************************************************************************)
(* The first position from i on whose token is not in S.                   *)
(***************************************************************************)
Skip(i, S) == Min({j \in i..(Len(buf) + 1) : At(j) \notin S})

SkipWhitespace(i) == Skip(i, Blank)

(***************************************************************************)
(* A value without its trailing blanks.  The loop that removes them stops  *)
(* at the beginning of `temp', another array than the value's: where that  *)
(* lies above `temp2' nothing is removed.                                  *)
(***************************************************************************)
TrimEnd(s) ==
  SubSeq(s, 1, Max({0} \cup {n \in 1..Len(s) : s[n] \notin Blank}))

Trim(s) == IF layout THEN TrimEnd(s) ELSE s

(***************************************************************************)
(* "yes" and "no" are booleans, what sscanf finds a number in is one, the  *)
(* rest are strings.                                                       *)
(***************************************************************************)
ConfigurationValue(s) ==
  IF s = <<"yes">> THEN [cvtType |-> "BOOLEAN", szValue |-> s, intValue |-> 1]
  ELSE IF s = <<"no">> THEN [cvtType |-> "BOOLEAN", szValue |-> s, intValue |-> 0]
  ELSE IF s[1] \in Digits
    THEN [cvtType |-> "NUMBER", szValue |-> s, intValue |-> NumberOf(s[1])]
    ELSE [cvtType |-> "STRING", szValue |-> s, intValue |-> 0]

With(values, key, value) ==
  [k \in DOMAIN values \cup {key} |-> IF k = key THEN value ELSE values[k]]

-----------------------------------------------------------------------------
(***************************************************************************)
(* The rounds of ParseConfiguration.                                       *)
(***************************************************************************)
ParseComment ==
  /\ At(ptr) = "#"
  /\ ptr' = Min({j \in (ptr + 1)..(Len(buf) + 1) : j > Len(buf) \/ buf[j - 1] = "\n"})
  /\ UNCHANGED <<m_values, buf, layout>>

\* "Key = value" at ptr
Equals == SkipWhitespace(ptr + 1)
First == SkipWhitespace(Equals + 1)
Ending == Skip(First, Word \cup Digits \cup Blank)
Value == Trim(SubSeq(buf, First, Ending - 1))

IsSetting == At(ptr) \in Word /\ At(Equals) = "=" /\ Value # <<>>

ParseSettingLastWins ==    \* mutant: a key may be set again
  /\ IsSetting
  /\ m_values' = With(m_values, Lower(buf[ptr]), ConfigurationValue(Value))
  /\ ptr' = Ending + 1
  /\ UNCHANGED <<buf, layout>>

ParseSetting ==
  /\ IsSetting
  /\ LET key == Lower(buf[ptr]) IN
     m_values' = IF key \in DOMAIN m_values THEN m_values
                 ELSE With(m_values, key, ConfigurationValue(Value))
  /\ ptr' = Ending + 1    \* the token behind the value is passed over
  /\ UNCHANGED <<buf, layout>>

ParseBlank ==
  /\ At(ptr) \in {" ", "\r", "\n"}
  /\ ptr' = ptr + 1
  /\ UNCHANGED <<m_values, buf, layout>>

ParseRound == ParseComment \/ ParseSetting \/ ParseBlank

\* ParseConfiguration returns false
Corrupt ==
  /\ ptr <= Len(buf)
  /\ At(ptr) \notin {"#", " ", "\r", "\n"} /\ ~IsSetting

Parsed == ptr > Len(buf)

(***************************************************************************)
(* Load: the settings are forgotten before the file is looked at.          *)
(***************************************************************************)
Clear(text) == m_values' = <<>> /\ buf' = text /\ ptr' = 1 /\ UNCHANGED layout

-----------------------------------------------------------------------------
(***************************************************************************)
(* GetValue, for each type.                                                *)
(***************************************************************************)
Has(name, types) ==
  Lower(name) \in DOMAIN m_values /\ m_values[Lower(name)].cvtType \in types

HasNumber(name) == Has(name, {"NUMBER"})
HasNumeral(name) == Has(name, {"NUMBER"})    \* mutant of HasBoolean
HasBoolean(name) == Has(name, {"NUMBER", "BOOLEAN"})
HasText(name) == Has(name, {"NUMBER", "BOOLEAN", "STRING"})

Number(name) == m_values[Lower(name)].intValue
Boolean(name) == m_values[Lower(name)].intValue # 0
Text(name) == m_values[Lower(name)].szValue

-----------------------------------------------------------------------------
(***************************************************************************)
(* What a file says, line by line, by the rules its default contents       *)
(* follow: a line sets a key, or is a comment, or is blank.                *)
(***************************************************************************)
Trimmed(s) ==
  LET e == TrimEnd(s)
      inner == {n \in 1..Len(e) : e[n] \notin Blank}
  IN IF inner = {} THEN <<>> ELSE SubSeq(e, Min(inner), Len(e))

Sets(line, key, value) ==
  \E n \in 1..Len(line) :
    /\ line[n] = "=" /\ Trimmed(SubSeq(line, 1, n - 1)) = <<key>>
    /\ key \in Word
    /\ value = Trimmed(SubSeq(line, n + 1, Len(line)))
    /\ value # <<>> /\ \A i \in 1..Len(value) : value[i] \in Word \cup Digits \cup Blank

Values(line) ==
  {Trimmed(SubSeq(line, n + 1, Len(line))) : n \in {m \in 1..Len(line) : line[m] = "="}}

SettingLine(line) == \E key \in Word, v \in Values(line) : Sets(line, key, v)

CommentOrBlank(line) == Trimmed(line) = <<>> \/ Trimmed(line)[1] = "#"

WellFormed(lines) ==
  \A i \in 1..Len(lines) : SettingLine(lines[i]) \/ CommentOrBlank(lines[i])

\* the n-th line is the first that sets k, to v
FirstSets(lines, n, k, v) ==
  /\ \E key \in Word : Lower(key) = k /\ Sets(lines[n], key, v)
  /\ \A i \in 1..(n - 1), key \in Word :
       Lower(key) = k => \A w \in Values(lines[i]) : ~Sets(lines[i], key, w)

Means(lines, values) ==
  /\ \A k \in DOMAIN values : \E n \in 1..Len(lines) : \E v \in Values(lines[n]) :
       FirstSets(lines, n, k, v) /\ values[k] = ConfigurationValue(v)
  /\ \A n \in 1..Len(lines), key \in Word : \A v \in Values(lines[n]) :
       Sets(lines[n], key, v) => Lower(key) \in DOMAIN values
=============================================================================
