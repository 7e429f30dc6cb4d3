----------------------------- MODULE MCBuildAssembly -----------------------------
EXTENDS BuildAssembly

CONSTANTS old, new, inline, none

MCInst == {old, new, inline, none}
MCExternal == {old, new}
MCVerdict == [i \in MCInst |-> CASE i = old -> "withheld" [] i = new -> "served"
                                 [] i = inline -> "refused" [] OTHER -> "empty"]
=============================================================================
