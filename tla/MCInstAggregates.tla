---------------------------- MODULE MCInstAggregates ----------------------------
EXTENDS InstAggregates

(* Two share lines and an option of one issuer, a second security with the *)
(* first one's CUSIP, an unresolved line, a bond, and two unkeyed rows     *)
(* that spell one name differently.                                        *)
Line(sid, cusip, entity, value, shares, unit, option, ticker) ==
    [sid |-> sid, cusip |-> cusip, block |-> 1, entity |-> entity,
     spelling |-> 1, name |-> 1, value |-> value, shares |-> shares, unit |-> unit,
     option |-> option, ticker |-> ticker]

A    == Line(1, 11, None, 5, 6, "SH", "LONG", "AAA")
AGap == Line(None, 11, None, 5, 6, "SH", "LONG", "AAA")
ABond == Line(1, 11, None, 5, 6, "PRN", "LONG", "AAA")
ANew == Line(1, 12, 7, 7, 7, "SH", "LONG", "AAA")
APut == Line(1, 11, None, 2, 3, "SH", "PUT", "AAA")
B    == Line(2, 11, 7, None, 4, "SH", "LONG", None)
BGap == Line(None, 12, None, 4, None, None, "LONG", "AAA")
Odd  == Line(None, None, None, 3, 1, "SH", "LONG", None)
OddToo == [Odd EXCEPT !.spelling = 2, !.value = 5]
Short == Line(3, 13, None, -2, 2, "SH", "LONG", None)

Upto(n, S) == UNION {kSubset(k, S) : k \in 0..n}

(* Manager 1 is succeeded by manager 2; manager 3 files once or twice.     *)
MCOffers ==
    << << {{}, {A}, {AGap, APut}}, {{A}}, {} >>,
       << {}, Upto(2, {A, AGap, ABond, ANew, B, Odd, OddToo, APut}),
          Upto(2, {A, AGap, ABond, ANew, B, BGap}) \cup {{A, Short}} >>,
       << {}, {{A}}, {{B, ANew}} >> >>

MCFiledOn == [x \in (1..3) \X (1..3) |->
                IF x = <<3, 3>> THEN 50 ELSE x[2] * 10 + 3]
MCDeadline == [q \in 1..3 |-> q * 10 + 5]
MCPredecessors == <<{}, {1}, {}>>
MCNamed == <<{}, {3}, {}>>
MCManagers == [active |-> {2, 3}, retired |-> {1}, notable |-> {2}]

=============================================================================
