------------------------- MODULE MCGroupMembership -------------------------
(* Bounds for GroupMembership: symmetric users, channels and requests, and *)
(* the mixes of requests that make one question each.                      *)
EXTENDS GroupMembership, TLC

Owners == {"kick", "leave", "transfer", "role", "depart"}
Rooms == {"kick", "leave", "role", "channel", "drop", "delete"}
Departures == {"kick", "channel", "depart"}

MCMixes == {Owners, Rooms, Departures}
MCOwners == {Owners}
MCRooms == {Rooms}

Symmetry == Permutations(Users) \union Permutations(Channels) \union Permutations(Requests)
=============================================================================
