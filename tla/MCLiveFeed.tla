----------------------------- MODULE MCLiveFeed -----------------------------
EXTENDS LiveFeed, TLC
MCTouches == [t \in Tx |-> Addr]
(* A transaction touches one address, and two share none. *)
MCTouchesApart == CHOOSE f \in [Tx -> {{a} : a \in Addr}] : \A s, t \in Tx : f[s] = f[t] => s = t
HandlerSymmetry == Permutations(Handler)
=============================================================================
