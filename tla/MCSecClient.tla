------------------------------ MODULE MCSecClient ------------------------------
(***************************************************************************)
(* Instances of SecClient: two threads, a url that is cached for a while   *)
(* and one that never is, and two backoffs before giving up.               *)
(***************************************************************************)
EXTENDS SecClient

CONSTANTS archive, live

MCUrls == {archive, live}
MCTTL == [u \in MCUrls |-> IF u = archive THEN 1 ELSE 0]
MCBackoff == <<1, 2>>
=============================================================================
