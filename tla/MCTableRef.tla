----------------------------- MODULE MCTableRef -----------------------------
(* Texts and references for TLC.                                           *)
EXTENDS RefTexts

----------------------------------------------------------------------------
(* The values of the constants.                                            *)

InByteOrder == <<" ", "(", ")", ",", "=", "\\", "tick", "a", "b", "wide">>

Names  == {<<"a">>, <<"b">>, <<"a", " ", "a">>, <<"(", ")">>, <<"=", ",">>,
           <<"a", "\\">>, <<"tick">>, <<" ", "a">>, <<"a", "wide">>}
Keys   == {<<"a">>, <<"b">>, <<"b", "a">>, <<"=">>, <<"\\", "b">>}
Values == {<<>>, <<"a">>, <<"wide">>, <<")">>, <<"\\">>, <<"b", " ">>}

AllButB == ToSet(InByteOrder) \ {"b"}
AList   == <<"a", "(", "a", "=">>

SomeRefs ==
  {Ref(t, p) : t \in Names,
               p \in UNION {[K -> Values] : K \in {K \in SUBSET Keys : Cardinality(K) <= 2}}}
=============================================================================
