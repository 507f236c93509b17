------------------------------ MODULE MCRooms ------------------------------
EXTENDS Rooms, TLC
MCEventOf == ("nodeUpdates" :> "nodeUpdates") @@ ("activeWallets" :> "numberOfActiveAddresses")
Symmetry == Permutations(Client) \cup Permutations(Kind)
=============================================================================
