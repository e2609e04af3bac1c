----------------------------- MODULE ConfigRules -----------------------------
(***************************************************************************)
(* Subscription configurations (src/config.rs, src/raw/config.rs): which   *)
(* ones validate, and the membership a configuration is converted to when  *)
(* a socket joins or leaves.                                               *)
(*                                                                         *)
(* An address is the sequence of its octets, 4 for IPv4 and 16 for IPv6,   *)
(* so that the family is the length.  A configuration is a record          *)
(*   [group, source, interface, interface_index, dst_port]                 *)
(* with NoAddr for SourceFilter::Any and for an interface that is not      *)
(* given, NoIndex for an index that is not given.                          *)
(***************************************************************************)
EXTENDS Integers, Sequences

NoAddr  == <<>>
NoIndex == -1

Family(address)       == Len(address)
SameFamily(a, b)      == Family(a) = Family(b)
IsIpv4(address)       == Family(address) = 4
IsUnspecified(address) == \A i \in DOMAIN address : address[i] = 0
IsBroadcast(address)  == IsIpv4(address) /\ \A i \in DOMAIN address : address[i] = 255
IsMulticast(address)  == IF IsIpv4(address) THEN address[1] \in 224..239 ELSE address[1] = 255

(* is_ipv4_ssm_group: 232/8 *)
IsIpv4SsmGroup(group) == group[1] = 232

(* is_ipv6_ssm_group: ff3x::/32 *)
IsIpv6SsmGroup(group) ==
  /\ group[1] = 255
  /\ group[2] \div 16 = 3
  /\ group[3] = 0
  /\ group[4] = 0

IsSsmGroup(group) == IF IsIpv4(group) THEN IsIpv4SsmGroup(group) ELSE IsIpv6SsmGroup(group)

(* is_valid_source_address *)
IsValidSourceAddress(source) ==
  ~(IsUnspecified(source) \/ IsMulticast(source) \/ IsBroadcast(source))

Mutant_SourceOfAnyFamily(group, source, interface, interface_index) ==
  /\ IsMulticast(group)
  /\ source = NoAddr => ~IsSsmGroup(group)
  /\ source # NoAddr => IsValidSourceAddress(source) /\ IsSsmGroup(group)
  /\ interface # NoAddr => SameFamily(group, interface)
  /\ interface_index # NoIndex => interface_index # 0 /\ ~IsIpv4(group)

(* validate_multicast_selection *)
ValidSelection(group, source, interface, interface_index) ==
  /\ IsMulticast(group)
  /\ source = NoAddr => ~IsSsmGroup(group)
  /\ source # NoAddr =>
       /\ IsValidSourceAddress(source)
       /\ SameFamily(group, source)
       /\ IsSsmGroup(group)
  /\ interface # NoAddr => SameFamily(group, interface)
  /\ interface_index # NoIndex => interface_index # 0 /\ ~IsIpv4(group)

Validate(config) ==
  /\ config.dst_port # 0
  /\ ValidSelection(config.group, config.source, config.interface, config.interface_index)

(* RawSubscriptionConfig::validate: a raw configuration has no port. *)
RawValidate(config) ==
  ValidSelection(config.group, config.source, config.interface, config.interface_index)

(* RawSubscriptionConfig::membership_compat_config *)
MembershipCompatConfig(config) ==
  [group |-> config.group, source |-> config.source, dst_port |-> 1,
   interface |-> config.interface, interface_index |-> config.interface_index]

-----------------------------------------------------------------------------
(* Conversion to a membership.  A part of another family than the group's  *)
(* has no conversion, and the socket call would fail with                  *)
(* InvalidSubscriptionAddressFamily.                                       *)
NoMembership == [family |-> 0]

OfFamily(address, family) == address = NoAddr \/ Family(address) = family

Ipv4Membership(config) ==
  IF IsIpv4(config.group) /\ OfFamily(config.source, 4) /\ OfFamily(config.interface, 4)
    THEN [family |-> 4, group |-> config.group, source |-> config.source,
          interface |-> config.interface]
    ELSE NoMembership

Ipv6Membership(config) ==
  IF ~IsIpv4(config.group) /\ OfFamily(config.source, 16) /\ OfFamily(config.interface, 16)
    THEN [family |-> 16, group |-> config.group, source |-> config.source,
          interface |-> config.interface, interface_index |-> config.interface_index]
    ELSE NoMembership

Membership(config) ==
  IF IsIpv4(config.group) THEN Ipv4Membership(config) ELSE Ipv6Membership(config)
==============================================================================
