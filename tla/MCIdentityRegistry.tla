--------------------------- MODULE MCIdentityRegistry ---------------------------
EXTENDS IdentityRegistry

MCOrder == <<"sec:a", "sec:b", "sec:prov:1", "sec:prov:2", "sec:zeta">>
MCProvisional == <<"sec:prov:1", "sec:prov:2">>

(* Who owns an identifier before and from a day on.                        *)
Owned(before, day, after) == [d \in Days |-> IF d < day THEN before ELSE after]

Auto == [x \in SecurityIds |-> "auto"]
Revision(first, second, review, continuities) ==
    [owner |-> <<first, second>>, review |-> review, continuities |-> continuities]

P1 == Owned("sec:prov:1", 0, "sec:prov:1")
P2 == Owned("sec:prov:2", 0, "sec:prov:2")
A == Owned("sec:a", 0, "sec:a")
AB == Owned("sec:a", 3, "sec:b")
BZ == Owned("sec:b", 2, "sec:zeta")

MCRegistries ==
    {Revision(P1, P2, Auto, {}),
     Revision(A, P2, [Auto EXCEPT !["sec:a"] = "reviewed"],
              {[value |-> 1, from |-> 1, to |-> 4]}),
     Revision(AB, A, Auto, {}),
     Revision(AB, BZ, [Auto EXCEPT !["sec:b"] = "disputed"], {})}

Seen(v, d, e) == [value |-> v, day |-> d, entity |-> e]
MCFiles == {{Seen(1, 0, "x"), Seen(1, 4, "y")},
            {Seen(1, 2, None), Seen(2, 1, "x"), Seen(2, 2, "y")}}

MCLists == [q \in {1} |-> {{2}, {1, 2}}]
MCQuarter == [q \in {1} |-> [from |-> 1, to |-> 4]]
MCHoldings == {<<1, 4>>, <<2, 2>>}

(* One security is split up in the revision that gives it another          *)
(* identifier.                                                             *)
BLateZ == Owned("sec:b", 3, "sec:zeta")
SwapRegistries == {Revision(A, P2, Auto, {}), Revision(BLateZ, A, Auto, {})}
=============================================================================
