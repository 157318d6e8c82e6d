------------------------------- MODULE IPPool -------------------------------
(***************************************************************************)
(* The addresses a pool may hold (src/logsgenreceiver/internal/loggen,     *)
(* buildIPPool).  A CIDR is [family, address, prefix].  Its family is 4 if *)
(* To4 takes its address, 6 if not, and 0 for text that is no CIDR; its    *)
(* address is any one in the network, as a 32-bit number.  To4 also takes  *)
(* the IPv4 addresses that are written as IPv6 ones, ::ffff:10.0.0.0/104:  *)
(* their prefix is that of 128 bits, 96 and more.                          *)
(***************************************************************************)
EXTENDS Naturals, SequencesExt

(***************************************************************************)
(* What net.ParseCIDR cannot read and what is not IPv4 is left out.  A     *)
(* range is its network address, which ParseCIDR masks, and its largest    *)
(* host number, told by the first four bytes of the mask, which leave no   *)
(* host in a mask of 128 bits; 10.0.0.0/8 if no range is left.             *)
(***************************************************************************)
HostBits(cidr) == (IF cidr.prefix > 32 THEN 128 ELSE 32) - cidr.prefix
HostMax(cidr) == IF cidr.prefix > 32 THEN 0 ELSE 2^HostBits(cidr) - 1
IPv4(cidrs) == {c \in ToSet(cidrs) : c.family = 4}

BaseUnmasked(cidr) == cidr.address  \* bug: the address of ParseCIDR, not of its network
Base(cidr) == cidr.address - (cidr.address % 2^HostBits(cidr))

NetworkTen == [family |-> 4, address |-> 10 * 2^24, prefix |-> 8]

Ranges(cidrs) ==
    {[base |-> Base(c), hostMax |-> HostMax(c)] :
        c \in IF IPv4(cidrs) = {} THEN {NetworkTen} ELSE IPv4(cidrs)}

(***************************************************************************)
(* base | host, for a host number from 1 to the largest: the bits of the   *)
(* two do not overlap.                                                     *)
(***************************************************************************)
Address(range, host) == range.base + host

(***************************************************************************)
(* The ranges an application draws from: the configured ones if there are  *)
(* any, else those in its profile.                                         *)
(***************************************************************************)
SharedAddressSpace == [family |-> 4, address |-> 100 * 2^24 + 64 * 2^16, prefix |-> 10]

PoolCIDRs(app, configured) ==
    CASE configured # <<>> -> configured
      [] configured = <<>> /\ app = "proxy" -> <<NetworkTen, SharedAddressSpace>>
      [] OTHER -> <<NetworkTen>>
=============================================================================
