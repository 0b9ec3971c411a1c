--------------------------- MODULE AccessControl ----------------------------
(***************************************************************************)
(* The access control lists of a rule (networking/acl.rs).  An address is  *)
(* a number of AddrBits bits.  An entry of a list is the text of a network *)
(* ("10.0.0.0/8"), the text of a single address, or a text that is neither.*)
(***************************************************************************)
EXTENDS Naturals, Sequences

CONSTANT AddrBits

ASSUME AddrBitsAssumption == AddrBits \in Nat

(* Laws of powers, which the proofs need and the provers do not know.      *)
ASSUME PowersAssumption ==
    \A k \in 0..AddrBits : 2^k \in Nat \ {0} /\ 2^(k + 1) = 2 * 2^k

IpAddr == 0..(2^AddrBits - 1)

Unparsable == [text |-> "other"]
Cidr(b, n) == [text |-> "cidr", base |-> b, len |-> n]
Single(b)  == [text |-> "ip", base |-> b]
Entry == {Unparsable} \union {Single(b) : b \in IpAddr}
         \union {Cidr(b, n) : b \in IpAddr, n \in 0..AddrBits}

(* A network keeps the address it was written with; the bits after the     *)
(* prefix are not compared.                                                *)
Contains(net, ip) ==
    LET host == 2^(AddrBits - net.len) IN net.base \div host = ip \div host

(* IpNet::from_str, else a single address as a network of full length.     *)
ParseEntry(e) ==
    IF e.text = "cidr" THEN [base |-> e.base, len |-> e.len]
                       ELSE [base |-> e.base, len |-> AddrBits]

(* An entry that does not parse is dropped with a warning.  A list is only *)
(* searched and asked whether it is empty, so a set stands for it.         *)
ParseCidrs(list) ==
    {ParseEntry(list[i]) : i \in {j \in DOMAIN list : list[j] # Unparsable}}

Acl(allowList, denyList) ==
    [allow |-> ParseCidrs(allowList), deny |-> ParseCidrs(denyList)]

Matches(nets, ip) == \E net \in nets : Contains(net, ip)

(* Mutant: an address on the allow list is let in whatever the deny list   *)
(* says.                                                                   *)
IsAllowedFirst(acl, ip) ==
    Matches(acl.allow, ip) \/ (acl.allow = {} /\ ~Matches(acl.deny, ip))

(* The deny list first; then everybody if the allow list is empty (also if *)
(* none of its entries parsed), else the addresses it matches.             *)
IsAllowed(acl, ip) ==
    /\ ~Matches(acl.deny, ip)
    /\ acl.allow = {} \/ Matches(acl.allow, ip)

-----------------------------------------------------------------------------
(* The addresses that an entry of a list is meant to name: itself, or the  *)
(* ones that agree with it in the bits of the prefix; and those of a list. *)
Bit(x, k) == (x \div 2^k) % 2

Named(e) ==
    CASE e.text = "ip"   -> {e.base}
      [] e.text = "cidr" -> {x \in IpAddr :
                                \A k \in (AddrBits - e.len)..(AddrBits - 1) :
                                    Bit(x, k) = Bit(e.base, k)}
      [] OTHER           -> {}

NamedBy(list) == UNION {Named(list[i]) : i \in DOMAIN list}

(* The addresses that a pair of lists excludes: the denied ones, and if    *)
(* the allow list names anybody, the ones it does not name.                *)
Excluded(allowList, denyList, x) ==
    \/ x \in NamedBy(denyList)
    \/ NamedBy(allowList) # {} /\ x \notin NamedBy(allowList)
=============================================================================
