------------------------------ MODULE RefTexts ------------------------------
(***************************************************************************)
(* Texts typed character by character, and references written out: what    *)
(* the package's documentation says of them.                               *)
(***************************************************************************)
EXTENDS TableRef

CONSTANTS
  Typed,      \* the characters that are typed
  Beginning,  \* how longer texts begin
  MaxLength,  \* of a text that is typed,
  MaxLonger,  \* and of one that goes on from Beginning
  Refs        \* references that are written

IsRef(r) ==
  /\ r = Ref(r.table, r.params) /\ r.table \in Text
  /\ IsFiniteSet(DOMAIN r.params) /\ DOMAIN r.params \subseteq Text
  /\ r.params \in [DOMAIN r.params -> Text]

ASSUME RefsAssumption ==
  /\ Typed \subseteq ToSet(Characters)
  /\ \A r \in Refs : IsRef(r)

VARIABLES ref, text
vars == <<ref, text>>

None == [none |-> TRUE]

Init == ref = None /\ text = <<>>

Type ==
  /\ ref = None
  /\ Len(text) < IF IsPrefix(Beginning, text) THEN MaxLonger ELSE MaxLength
  /\ \E c \in Typed : text' = Append(text, c)
  /\ UNCHANGED ref

Write ==
  /\ ref = None /\ text = <<>>
  /\ ref' \in Refs
  /\ text' = String(ref')

Clear ==
  /\ text # <<>>
  /\ ref' = None /\ text' = <<>>

Next == Type \/ Write \/ Clear

Spec == Init /\ [][Next]_vars

----------------------------------------------------------------------------
(* What a text means, by the grammar of tables/doc.go:26-40: the bare      *)
(* separators cut it into names and values.                                *)

\* The positions that follow the backslash of an escape.
Escaped(s) ==
  LET esc[i \in DOMAIN s] == i > 1 /\ s[i - 1] = Backslash /\ ~esc[i - 1]
  IN  {i \in DOMAIN s : esc[i]}

Bare(s, C) == {i \in DOMAIN s \ Escaped(s) : s[i] \in C}

\* The first bare separator after position i, or the end.
Cut(s, i) == Min({j \in Bare(s, Separators) : j > i} \cup {Len(s) + 1})

\* The characters from position i up to position j, without what escapes them.
Unescaped(s, i, j) ==
  FlattenSeq([k \in 1 .. j - i |->
                IF i + k - 1 \in Bare(s, {Backslash}) THEN <<>> ELSE <<s[i + k - 1]>>])

Trim(s) == Span(s, {i \in DOMAIN s : s[i] # Blank})

\* The name or value after position i.
Part(s, i) == Trim(Unescaped(s, i + 1, Cut(s, i)))

\* What may come after what: the beginning and the end are both the "end".
Sequels == {<<"end", "(">>, <<"end", "end">>, <<"(", "=">>, <<"(", ")">>, <<"=", ",">>,
            <<"=", ")">>, <<",", "=">>, <<")", "end">>}

\* The separators that open a key.
Opening(s) == {i \in Bare(s, Separators) : At(s, Cut(s, i)) = "="}

\* The text of a reference by the grammar, or one with an empty list, which
\* tables/doc.go:12-13 allows besides.
WellFormed(s) ==
  /\ \A i \in Bare(s, {Backslash}) : At(s, i + 1) \in Reserved
  /\ \A i \in {0} \cup Bare(s, Separators) : <<At(s, i), At(s, Cut(s, i))>> \in Sequels
  /\ \A i \in Bare(s, {")"}) : i = Len(s)
  /\ Part(s, 0) # <<>>
  /\ \A i \in Bare(s, {"(", ","}) : i \notin Opening(s) => Part(s, i) = <<>>

\* What Parse asks of keys and the grammar does not (tables.go:128, 147): that
\* none is empty and none is given twice.
Keyed(s) ==
  /\ \A i \in Opening(s) : Part(s, i) # <<>>
  /\ \A i, j \in Opening(s) : Part(s, i) = Part(s, j) => i = j

\* What such a text means.
Meaning(s) ==
  LET Key(k) == CHOOSE i \in Opening(s) : Part(s, i) = k
  IN  Ref(Part(s, 0), [k \in {Part(s, i) : i \in Opening(s)} |-> Part(s, Cut(s, Key(k)))])

----------------------------------------------------------------------------
(* Properties.                                                             *)

\* Of the texts of the grammar, Parse accepts exactly those whose keys are
\* neither empty nor repeated, and reads their meaning; it accepts no others.
\* (The grammar, key = chars, lets a key be empty: tables/doc.go:29, 31.)
ParsesTheGrammar ==
  LET s == TrimSpace(text) IN
  IF WellFormed(s) /\ Keyed(s) THEN Parse(text) = Meaning(s) ELSE Failed(Parse(text))

\* A table name that is the whole text loses its outer white space.
Settled(r) ==
  /\ At(r.table, 1) # WideBlank
  /\ r.params = NoParams => At(r.table, Len(r.table)) # WideBlank

\* Canonicalising twice is canonicalising once, so that canonical forms can
\* be compared (tables.go:240-246), for exactly those texts whose table name
\* does not end, as the whole of the form, in white space other than blanks;
\* the others have to be canonicalised twice.
CanonicalFormIsFixed ==
  ~Failed(Parse(text)) =>
    LET form  == Canonicalize(text)
        again == Canonicalize(form)
    IN  /\ ~Failed(Parse(form))
        /\ again = form <=> Settled(Parse(text))
        /\ Canonicalize(again) = again

\* A reference as someone may type it, with blanks on both sides of some
\* separators, and around it.
Padded(r, C) ==
  <<WideBlank>>
  \o Written(r, [c \in Separators |-> IF c \in C THEN <<Blank, c, Blank>> ELSE <<c>>])
  \o <<Blank>>

\* Neither begins nor ends with a blank.
Clean(t) == At(t, 1) # Blank /\ At(t, Len(t)) # Blank

\* Encoding loses no part of such a reference.
Lasting(r) ==
  /\ r.table # <<>> /\ Settled(r) /\ Clean(r.table)
  /\ \A k \in DOMAIN r.params : k # <<>> /\ Clean(k) /\ Clean(r.params[k])

\* A reference is read back from its text, whatever reserved characters its
\* names hold and wherever separators are padded; only names and values with
\* outer blanks are lost (tables/doc.go:47-65).
RefsComeBack ==
  ref # None /\ Lasting(ref) =>
    Parse(text) = ref /\ \A C \in SUBSET Separators : Parse(Padded(ref, C)) = ref

\* Any text comes back out of back-ticks, and nothing else is unwrapped than
\* what they were put around.
BackticksComeBack ==
  LET inner == UnwrapFromBackticks(text) IN
  /\ UnwrapFromBackticks(WrapInBackticks(text)) = text
  /\ inner # NotWrapped => WrapInBackticks(inner) = text
=============================================================================
