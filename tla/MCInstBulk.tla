------------------------------- MODULE MCInstBulk -------------------------------
EXTENDS InstBulk

(* Manager 1 files a base and an amendment, manager 2 one holdings report  *)
(* that may name manager 3, and manager 3 a notice.  The cover of Added    *)
(* does not say that it amends, and that of Stray says so in a filing that *)
(* is none.                                                                *)
Doc(c, form, filed, type, no, total, resolved, others, readable) ==
    [cik |-> c, form |-> form, period |-> 1, filed |-> filed,
     declared |-> type = "RESTATEMENT", type |-> type,
     no |-> no, total |-> total, resolved |-> resolved, others |-> others,
     readable |-> readable]

Base == Doc(1, "HR", 1, None, 0, 20, 21, {}, "all")
Restated == Doc(1, "HR/A", 2, "RESTATEMENT", 1, 30, 30, {2}, "all")
Added == Doc(1, "HR/A", 1, "NEW HOLDINGS", 1, 5, 9, {2}, "all")
Stray == [Base EXCEPT !.declared = TRUE]
Other == Doc(2, "HR", 1, None, 0, 25, 20, {3}, "all")
Broken == Doc(2, "HR", 1, None, 0, 25, 20, {3}, "cover")
Blank == Doc(2, "HR", 1, None, 0, 25, 20, {3}, "nothing")
Notice == Doc(3, "NT", 2, None, 0, None, 0, {2}, "all")

MCWorlds == {<<Base, Restated, Other, Notice>>,
             <<Base, Added, Broken, Notice>>,
             <<Stray, Restated, Blank, Notice>>}

MCAccessions == 1..4
=============================================================================
