--------------------------- MODULE MCAppProfiles ---------------------------
(***************************************************************************)
(* AppProfiles for TLC: all profiles, and the networks that make a         *)
(* difference: none configured, one given by an address inside it, one     *)
(* beside IPv6 and IPv4 written as IPv6, and only IPv6.                    *)
(***************************************************************************)
EXTENDS AppProfiles

MCApps == {"nginx", "mysql", "redis", "goapp", "proxy", "generic"}

IPv6Network == [family |-> 6, address |-> 0, prefix |-> 64]
Inside == [family |-> 4, address |-> 10 * 2^24 + 2^8 + 77, prefix |-> 24]
Mapped == [family |-> 4, address |-> 10 * 2^24, prefix |-> 104]
Wide == [family |-> 4, address |-> 100 * 2^24 + 127 * 2^16, prefix |-> 12]

MCConfiguredCIDRs == {<<>>, <<Inside>>, <<IPv6Network, Mapped, Wide>>, <<IPv6Network>>}

\* The first host of every range, and the last of the configured ones.
MCHostNumbers == {1, 2^8 - 1, 2^20 - 1}

\* Every severity has a share.
MCSeverityWeights == <<5, 30, 80, 90, 98, 100>>
MCRolls == {0, 4, 5, 29, 79, 89, 97, 98, 99}
=============================================================================
