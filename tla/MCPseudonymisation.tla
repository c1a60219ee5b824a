------------------------- MODULE MCPseudonymisation -------------------------
(* A small instance for TLC: a record in which a name stands in two        *)
(* spellings, and one of three segments with that name again.              *)
EXTENDS Pseudonymisation

CONSTANTS r1, r2

a == <<"text", "a">>
A == <<"text", "A">>
b == <<"text", "b">>
z == <<"text", "z">>

SmallFold == (a :> a) @@ (A :> a) @@ (b :> b) @@ (z :> z)

SmallTexts == (r1 :> << <<a, z, b>>, <<A>> >>) @@ (r2 :> << <<a>>, <<z>>, <<b>> >>)

SmallPlaces ==
    (r1 :> {Span(1, 0, 1, "PERSON"), Span(1, 2, 3, "PERSON"), Span(1, 0, 3, "PERSON"), Span(2, 0, 1, "PERSON"),
            Span(1, 1, 3, "LOCATION"), Span(2, 0, 2, "PERSON")})
    @@ (r2 :> {Span(1, 0, 1, "PERSON"), Span(3, 0, 1, "LOCATION")})

SmallPolicies ==
    {("PERSON" :> "pseudonym") @@ ("LOCATION" :> "coarsen"),
     ("PERSON" :> "keep") @@ ("LOCATION" :> "pseudonym"),
     ("PERSON" :> "pseudonym") @@ ("LOCATION" :> "remove")}

Work(r, mark, cases) == [rec |-> r, mark |-> mark, cases |-> cases]

(* one record edited at length; both records, and the first again *)
SmallPlans == {<<Work(r1, 3, 2)>>, <<Work(r1, 2, 0), Work(r2, 1, 0), Work(r1, 1, 0)>>}
=============================================================================
