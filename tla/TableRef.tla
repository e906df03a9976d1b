------------------------------ MODULE TableRef ------------------------------
(***************************************************************************)
(* Package tables: a reference to a table with parameters, its text, and   *)
(* the back-ticks a query language puts around it.  A text is a sequence   *)
(* of characters; what is not reserved, blank or a back-tick stands for    *)
(* all characters that the package treats alike.                           *)
(***************************************************************************)
EXTENDS Integers, SequencesExt

CONSTANTS
  Characters,  \* the characters, in the order of sort.Strings
  Blank,       \* a space or a tab
  WideBlank    \* any other Unicode white space, a line break say

Tick       == "tick"
Backslash  == "\\"
Separators == {"(", ")", ",", "="}
Reserved   == Separators \cup {Backslash}
White      == {Blank, WideBlank}

\* What At says at the end of a text, and what becomes of a text that is not
\* wrapped, are no characters.
ASSUME CharactersAssumption ==
  /\ Characters \in Seq(ToSet(Characters))
  /\ Reserved \cup {Tick} \cup White \subseteq ToSet(Characters)
  /\ IsInjective(Characters)
  /\ Blank # WideBlank /\ White \cap (Reserved \cup {Tick}) = {}
  /\ {"end", "error"} \cap ToSet(Characters) = {}

Text == Seq(ToSet(Characters))

\* A reference: params maps keys to values; nil and the empty map are one.
Ref(table, params) == [table |-> table, params |-> params]
NoParams == [k \in {} |-> <<>>]

----------------------------------------------------------------------------
(* TableRef.String.                                                        *)

\* Mutant of Escape: the escape character itself is not escaped.
EscapeButBackslash(t) ==
  FlattenSeq([i \in DOMAIN t |-> IF t[i] \in Separators THEN <<Backslash, t[i]>> ELSE <<t[i]>>])

Escape(t) ==
  FlattenSeq([i \in DOMAIN t |-> IF t[i] \in Reserved THEN <<Backslash, t[i]>> ELSE <<t[i]>>])

\* The order of texts; an end comes before every character.
Place(t, i) == IF i \in DOMAIN t THEN CHOOSE p \in DOMAIN Characters : Characters[p] = t[i] ELSE 0
Precedes(t, u) ==
  \E i \in DOMAIN u : Place(t, i) < Place(u, i) /\ \A j \in 1 .. i - 1 : Place(t, j) = Place(u, j)

\* sort.Strings of the keys of a map.
Sorted(K) ==
  CHOOSE keys \in [1 .. Cardinality(K) -> K] :
    \A i, j \in DOMAIN keys : i < j => Precedes(keys[i], keys[j])

\* A reference as it may be written: sep[c] stands for the separator c.
Written(ref, sep) ==
  LET keys    == Sorted(DOMAIN ref.params)
      Pair(i) == sep[IF i = 1 THEN "(" ELSE ","]
                 \o Escape(keys[i]) \o sep["="] \o Escape(ref.params[keys[i]])
      list    == FlattenSeq([i \in DOMAIN keys |-> Pair(i)]) \o sep[")"]
  IN  Escape(ref.table) \o (IF DOMAIN ref.params = {} THEN <<>> ELSE list)

\* The encoder writes separators bare.
String(ref) == Written(ref, [c \in Separators |-> <<c>>])

----------------------------------------------------------------------------
(* Parse, whose errors are ErrSyntax and ErrDuplicateKey.                  *)

SyntaxError  == [error |-> "syntax"]
DuplicateKey == [error |-> "duplicate key"]
Failed(r)    == "error" \in DOMAIN r

At(s, i) == IF i \in DOMAIN s THEN s[i] ELSE "end"

\* The text between the first and the last position in K.
Span(s, K) == IF K = {} THEN <<>> ELSE SubSeq(s, Min(K), Max(K))

\* strings.TrimSpace, and strings.TrimRight of spaces and tabs.
TrimSpace(s) == Span(s, {i \in DOMAIN s : s[i] \notin {Blank, WideBlank}})
TrimRight(s) == Span(s, {i \in DOMAIN s : \E j \in i .. Len(s) : s[j] # Blank})

\* Mutant of SkipWS: nothing is skipped.
SkipNothing(s, i) == i

\* The first position from i on that is not a blank.
SkipWS(s, i) == Min({j \in i .. Len(s) + 1 : At(s, j) # Blank})

\* readChars from a position on: what it read, and the position where it
\* stopped; 0 if it found an escape or a reserved character that may not stand
\* there.
ReadChars(s, from, topLevel) ==
  LET stops      == IF topLevel THEN {"("} ELSE {",", "=", ")"}
      Go(c, rest) == [rest EXCEPT !.text = <<c>> \o @]
      read[i \in 1 .. Len(s) + 1] ==
        IF i > Len(s) \/ At(s, i) \in stops THEN [text |-> <<>>, next |-> i]
        ELSE IF s[i] = Backslash /\ At(s, i + 1) \in Reserved THEN Go(s[i + 1], read[i + 2])
        ELSE IF s[i] \in Reserved THEN [text |-> <<>>, next |-> 0]
        ELSE Go(s[i], read[i + 1])
  IN  read[from]

\* The parameters from a position on, up to a syntax error or to the end, where
\* the list is closed.
ReadParams(s, from) ==
  LET params[i \in 1 .. Len(s) + 1] ==
        LET k    == ReadChars(s, SkipWS(s, i), FALSE)
            v    == ReadChars(s, SkipWS(s, k.next + 1), FALSE)
            key  == TrimRight(k.text)
            pair == [key |-> key, value |-> TrimRight(v.text)]
        IN  IF k.next = 0 \/ key = <<>> \/ At(s, k.next) # "=" \/ v.next = 0
            THEN [pairs |-> <<>>, closed |-> FALSE]
            ELSE IF At(s, v.next) = ","
            THEN LET rest == params[v.next + 1] IN [rest EXCEPT !.pairs = <<pair>> \o @]
            ELSE [pairs |-> <<pair>>, closed |-> At(s, v.next) = ")" /\ v.next = Len(s)]
  IN  params[from]

\* A key that is given twice, which is found as soon as it has been read.
Repeated(pairs) == \E i, j \in DOMAIN pairs : i < j /\ pairs[i].key = pairs[j].key

Collected(pairs) ==
  [k \in {p.key : p \in ToSet(pairs)} |-> (CHOOSE p \in ToSet(pairs) : p.key = k).value]

Parse(text) ==
  LET s     == TrimSpace(text)
      t     == ReadChars(s, 1, TRUE)
      table == TrimRight(t.text)
      first == SkipWS(s, t.next + 1)
      list  == ReadParams(s, first)
  IN  IF t.next = 0 \/ table = <<>> THEN SyntaxError
      ELSE IF t.next > Len(s) \/ (At(s, first) = ")" /\ first = Len(s)) THEN Ref(table, NoParams)
      ELSE IF At(s, first) = ")" THEN SyntaxError
      ELSE IF Repeated(list.pairs) THEN DuplicateKey
      ELSE IF ~list.closed THEN SyntaxError
      ELSE Ref(table, Collected(list.pairs))

Canonicalize(text) ==
  LET r == Parse(text) IN IF Failed(r) THEN r ELSE String(r)

----------------------------------------------------------------------------
(* WrapInBackticks and UnwrapFromBackticks.                                *)

WrapInBackticks(s) ==
  <<Tick>> \o FlattenSeq([i \in DOMAIN s |-> IF s[i] = Tick THEN <<Tick, Tick>> ELSE <<s[i]>>])
  \o <<Tick>>

NotWrapped == <<"error">>

\* Mutant of Undouble: a single back-tick is let through.
UndoubleLoosely(s) ==
  LET from[i \in 1 .. Len(s) + 1] ==
        IF i > Len(s) THEN <<>>
        ELSE IF s[i] = Tick /\ At(s, i + 1) = Tick THEN <<Tick>> \o from[i + 2]
        ELSE <<s[i]>> \o from[i + 1]
  IN  from[1]

\* s with its doubled back-ticks made single, or a text that ends in an error.
Undouble(s) ==
  LET from[i \in 1 .. Len(s) + 1] ==
        IF i > Len(s) THEN <<>>
        ELSE IF s[i] # Tick THEN <<s[i]>> \o from[i + 1]
        ELSE IF At(s, i + 1) # Tick THEN NotWrapped
        ELSE <<Tick>> \o from[i + 2]
  IN  from[1]

UnwrapFromBackticks(s) ==
  LET inner == Undouble(SubSeq(s, 2, Len(s) - 1)) IN
  IF Len(s) < 2 \/ s[1] # Tick \/ s[Len(s)] # Tick \/ Contains(inner, "error")
  THEN NotWrapped
  ELSE inner
=============================================================================
