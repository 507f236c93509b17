------------------------------ MODULE MCPaging ------------------------------
EXTENDS Paging, TLC
CONSTANTS t1, t2, t3, t4, t5
MCAttachedAt == (t1 :> 1) @@ (t2 :> 2) @@ (t3 :> 2) @@ (t4 :> 3) @@ (t5 :> 4)
MCParts == (t1 :> 2) @@ (t2 :> 1) @@ (t3 :> 3) @@ (t4 :> 2) @@ (t5 :> 1)
=============================================================================
