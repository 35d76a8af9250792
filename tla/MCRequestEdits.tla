-------------------------- MODULE MCRequestEdits --------------------------
(* Texts of up to three sections for TLC.                                  *)
EXTENDS RequestEdits

MCLower == [w \in {"A", "Copy"} |-> IF w = "A" THEN "a" ELSE "copy"]

U == Target("GET", "u")
V == Target("POST", "v")

Plain == <<Separator(<<"a">>), Blank, U, Word("h")>>
Noted == <<Separator(<<"a">>), Note, U, Word("h")>>
Starred == <<Separator(<<"a">>), Favorite("false"), Note, Favorite("true"), U>>
StarredBelow == <<Separator(<<"a">>), U, Favorite("true")>>
Other == <<Separator(<<"b">>), V, Blank, Word("y"), Note>>
Copied == <<Separator(<<"a", "copy">>), V>>
Malformed == <<Separator(<<"b", "Copy">>), Word("z")>>
Leading == <<Note, U, Blank>>
Added == <<Separator(<<"New Request">>), V>>

MCContents ==
  {Empty, Plain \o Other \o Empty, Noted \o Other \o Empty, Plain \o Other,
   Other \o Plain \o Empty, Plain \o Malformed \o Other, Plain \o Copied \o Empty,
   Leading \o Starred \o Empty, StarredBelow \o Other \o Empty, Leading \o Added}

MCNames == {<<"A">>, <<"b", "copy">>, <<"c">>}

Symmetry == Permutations(Commands)

\* What the names of copies and new requests rest on, for the numbers met here.
ASSUME NumeralsApart ==
  /\ \A k \in 1..50 : ToString(k) \notin DOMAIN Lower
  /\ \A j, k \in 1..50 : j # k => ToString(j) # ToString(k)
=============================================================================
