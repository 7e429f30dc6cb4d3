-------------------------- MODULE MCRunnerController --------------------------
(***************************************************************************)
(* Two tools in two manifest directories; the toolchain is as the manifest *)
(* lists it, shadowed by an unlisted uv, or altered.                       *)
(***************************************************************************)
EXTENDS RunnerController

CONSTANTS daemon, operator, uv, node, first, second

BothTools == {uv, node}
ManifestPath == <<first, second>>
ManifestDirs == [t \in BothTools |-> IF t = node THEN first ELSE second]
ToolLayouts ==
    {Sound,
     [Sound EXCEPT ![first][uv] = "other"],
     [Sound EXCEPT ![first][node] = "other"]}
=============================================================================
