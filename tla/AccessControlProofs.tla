------------------------ MODULE AccessControlProofs -------------------------
(***************************************************************************)
(* The access control lists let in whom they are meant to, for addresses   *)
(* of any number of bits and lists of any length.                          *)
(***************************************************************************)
EXTENDS AccessControl, TLAPS, WellFoundedInduction

(* Induction, with a set in the place of a predicate.                      *)
LEMMA SetInduction ==
    ASSUME NEW S, 0 \in S, \A n \in Nat : n \in S => n + 1 \in S
    PROVE  Nat \subseteq S
  <1> DEFINE T == Nat \ S
             R == OpToRel(<, Nat)
  <1> SUFFICES ASSUME T # {} PROVE FALSE
    OBVIOUS
  <1>1. IsWellFoundedOn(R, Nat)
    BY NatLessThanWellFounded
  <1>2. \A x, y \in Nat : y < x => <<y, x>> \in R
    BY DEF OpToRel
  <1> HIDE DEF R
  <1>3. PICK x \in T : \A y \in T : ~ (<<y, x>> \in R)
    BY <1>1, WFMin, Zenon
  <1>4. x # 0
    OBVIOUS
  <1>5. x - 1 \in Nat /\ x - 1 < x /\ (x - 1) + 1 = x
    BY <1>4
  <1>6. x - 1 \in S
    BY <1>2, <1>3, <1>5
  <1> QED
    BY <1>5, <1>6

-----------------------------------------------------------------------------
(* Halving and its remainder.                                              *)
LEMMA DivMod2 ==
    ASSUME NEW q \in Nat
    PROVE  q = 2 * (q \div 2) + (q % 2) /\ q % 2 \in {0, 1}
  <1>1. q % 2 \in 0..1
    OBVIOUS
  <1>2. q = 2 * (q \div 2) + (q % 2)
    OBVIOUS
  <1> QED
    BY <1>1, <1>2

(* Dividing by twice p is dividing by p and halving.                       *)
LEMMA Halving ==
    ASSUME NEW p \in Nat \ {0}, NEW x \in Nat
    PROVE  /\ x \div p \in Nat
           /\ (x \div p) \div 2 = x \div (2 * p)
           /\ x \div p = 2 * (x \div (2 * p)) + ((x \div p) % 2)
           /\ (x \div p) % 2 \in {0, 1}
  <1>1. x \div p \in Nat /\ (x \div p) \div 2 = x \div (2 * p)
    OBVIOUS
  <1> DEFINE q == x \div p
  <1>2. q \in Nat
    BY <1>1
  <1> HIDE DEF q
  <1>3. q = 2 * (q \div 2) + (q % 2) /\ q % 2 \in {0, 1}
    BY <1>2, DivMod2
  <1> QED
    BY <1>1, <1>3 DEF q

(* A number is its half and its last bit.                                  *)
LEMMA HalfAndBit ==
    ASSUME NEW a \in Nat, NEW b \in Nat, NEW s \in {0, 1}, NEW t \in {0, 1}
    PROVE  2 * a + s = 2 * b + t <=> s = t /\ a = b
  OBVIOUS

(* Two addresses agree in their bits from h on.                            *)
SameBits(x, y, h) == \A k \in h..(AddrBits - 1) : Bit(x, k) = Bit(y, k)

(* Comparing quotients, as Contains does, is comparing the bits of the     *)
(* prefix one by one.                                                      *)
LEMMA PrefixBits ==
    ASSUME NEW h \in 0..AddrBits, NEW x \in IpAddr, NEW y \in IpAddr
    PROVE  SameBits(x, y, h) <=> x \div 2^h = y \div 2^h
  <1> DEFINE Agree(j) == SameBits(x, y, j) <=> x \div 2^j = y \div 2^j
             S == {j \in Nat : j <= AddrBits => Agree(AddrBits - j)}
  <1>1. x \in Nat /\ y \in Nat /\ x < 2^AddrBits /\ y < 2^AddrBits
        /\ 2^AddrBits \in Nat \ {0}
    <2>1. 2^AddrBits \in Nat \ {0}
      BY PowersAssumption, AddrBitsAssumption
    <2>2. x \in 0..(2^AddrBits - 1) /\ y \in 0..(2^AddrBits - 1)
      BY DEF IpAddr
    <2> QED
      BY <2>1, <2>2
  <1>2. 0 \in S
    <2>1. Agree(AddrBits)
      <3>1. SameBits(x, y, AddrBits)
        BY AddrBitsAssumption DEF SameBits
      <3>2. \A p \in Nat \ {0} : \A z \in Nat : z < p => z \div p = 0
        OBVIOUS
      <3> QED
        BY <1>1, <3>1, <3>2
    <2> QED
      BY <2>1, AddrBitsAssumption
  <1>3. ASSUME NEW n \in Nat, n \in S
        PROVE  n + 1 \in S
    <2> SUFFICES ASSUME n + 1 <= AddrBits PROVE Agree(AddrBits - (n + 1))
      OBVIOUS
    <2> DEFINE j == AddrBits - (n + 1)
               p == 2^j
    <2>1. j \in 0..AddrBits /\ j + 1 = AddrBits - n /\ j <= AddrBits - 1
      BY AddrBitsAssumption
    <2>2. p \in Nat \ {0} /\ 2^(j + 1) = 2 * p
      BY <2>1, PowersAssumption
    <2>3. SameBits(x, y, j + 1) <=> x \div (2 * p) = y \div (2 * p)
      BY <1>3, <2>1, <2>2, AddrBitsAssumption
    <2>4. SameBits(x, y, j) <=>
              Bit(x, j) = Bit(y, j) /\ SameBits(x, y, j + 1)
      BY <2>1, AddrBitsAssumption DEF SameBits
    <2>5. /\ x \div p = 2 * (x \div (2 * p)) + Bit(x, j)
          /\ y \div p = 2 * (y \div (2 * p)) + Bit(y, j)
          /\ Bit(x, j) \in {0, 1} /\ Bit(y, j) \in {0, 1}
      BY <1>1, <2>2, Halving DEF Bit
    <2>6. x \div (2 * p) \in Nat /\ y \div (2 * p) \in Nat
      BY <1>1, <2>2
    <2> HIDE DEF p
    <2>7. x \div p = y \div p <=>
              Bit(x, j) = Bit(y, j) /\ x \div (2 * p) = y \div (2 * p)
      <3> DEFINE a == x \div (2 * p)
                 b == y \div (2 * p)
                 s == Bit(x, j)
                 t == Bit(y, j)
      <3>1. 2 * a + s = 2 * b + t <=> s = t /\ a = b
        BY <2>5, <2>6, HalfAndBit
      <3> QED
        BY <2>5, <3>1, Zenon
    <2> QED
      BY <2>3, <2>4, <2>7 DEF p
  <1>4. Nat \subseteq S
    <2> HIDE DEF S
    <2> QED
      BY <1>2, <1>3, SetInduction
  <1>5. AddrBits - h \in Nat /\ AddrBits - h <= AddrBits
        /\ AddrBits - (AddrBits - h) = h
    BY AddrBitsAssumption
  <1>6. Agree(AddrBits - (AddrBits - h))
    BY <1>4, <1>5, Zenon
  <1> QED
    BY <1>5, <1>6, Zenon

-----------------------------------------------------------------------------
(* A parsed entry contains the addresses it names, and an entry that does  *)
(* not parse names none.                                                   *)
LEMMA EntryExact ==
    ASSUME NEW e \in Entry, NEW x \in IpAddr
    PROVE  x \in Named(e) <=> e # Unparsable /\ Contains(ParseEntry(e), x)
  <1>0. IpAddr \subseteq Nat
    BY DEF IpAddr
  <1>1. CASE e = Unparsable
    BY <1>1 DEF Named, Unparsable
  <1>2. ASSUME NEW b \in IpAddr, e = Single(b)
        PROVE  x \in Named(e) <=> e # Unparsable /\ Contains(ParseEntry(e), x)
    <2>1. e.text = "ip" /\ e.base = b /\ e # Unparsable
      BY <1>2 DEF Single, Unparsable
    <2>2. Named(e) = {b}
      BY <2>1 DEF Named
    <2>3. ParseEntry(e).base = b /\ ParseEntry(e).len = AddrBits
      BY <2>1 DEF ParseEntry
    <2>4. AddrBits - AddrBits = 0 /\ 2^0 = 1
      BY AddrBitsAssumption
    <2>5. Contains(ParseEntry(e), x) <=> b \div 1 = x \div 1
      BY <2>3, <2>4, Zenon DEF Contains
    <2>6. b \div 1 = b /\ x \div 1 = x
      BY <1>0
    <2> QED
      BY <2>1, <2>2, <2>5, <2>6
  <1>3. ASSUME NEW b \in IpAddr, NEW n \in 0..AddrBits, e = Cidr(b, n)
        PROVE  x \in Named(e) <=> e # Unparsable /\ Contains(ParseEntry(e), x)
    <2>1. e.text = "cidr" /\ e.base = b /\ e.len = n /\ e # Unparsable
      BY <1>3 DEF Cidr, Unparsable
    <2>2. ParseEntry(e).base = b /\ ParseEntry(e).len = n
      BY <2>1 DEF ParseEntry
    <2>3. x \in Named(e) <=> SameBits(x, b, AddrBits - n)
      BY <2>1 DEF Named, SameBits
    <2>4. AddrBits - n \in 0..AddrBits
      BY AddrBitsAssumption
    <2>5. SameBits(x, b, AddrBits - n) <=>
              x \div 2^(AddrBits - n) = b \div 2^(AddrBits - n)
      BY <2>4, PrefixBits, Zenon
    <2>6. Contains(ParseEntry(e), x) <=>
              b \div 2^(AddrBits - n) = x \div 2^(AddrBits - n)
      BY <2>2, Zenon DEF Contains
    <2> QED
      BY <2>1, <2>3, <2>5, <2>6, Zenon
  <1> QED
    BY <1>1, <1>2, <1>3 DEF Entry

(* An entry that parses names at least the address it was written with.    *)
LEMMA EntryNamesItself ==
    ASSUME NEW e \in Entry, e # Unparsable
    PROVE  Named(e) # {}
  <1>1. ASSUME NEW b \in IpAddr, e = Single(b)
        PROVE  Named(e) # {}
    BY <1>1 DEF Named, Single
  <1>2. ASSUME NEW b \in IpAddr, NEW n \in 0..AddrBits, e = Cidr(b, n)
        PROVE  Named(e) # {}
    <2>1. e.text = "cidr" /\ e.base = b
      BY <1>2 DEF Cidr
    <2>2. b \in Named(e)
      BY <2>1 DEF Named
    <2> QED
      BY <2>2
  <1> QED
    BY <1>1, <1>2 DEF Entry

(* A list matches the addresses that its entries name.                     *)
LEMMA ListExact ==
    ASSUME NEW list \in Seq(Entry), NEW x \in IpAddr
    PROVE  /\ Matches(ParseCidrs(list), x) <=> x \in NamedBy(list)
           /\ ParseCidrs(list) = {} <=> NamedBy(list) = {}
  <1>1. \A i \in DOMAIN list : list[i] \in Entry
    OBVIOUS
  <1>2. Matches(ParseCidrs(list), x) <=>
            \E i \in DOMAIN list : list[i] # Unparsable /\ Contains(ParseEntry(list[i]), x)
    BY DEF Matches, ParseCidrs
  <1>3. x \in NamedBy(list) <=> \E i \in DOMAIN list : x \in Named(list[i])
    BY DEF NamedBy
  <1>4. \A e \in Entry : x \in Named(e) <=> e # Unparsable /\ Contains(ParseEntry(e), x)
    BY EntryExact
  <1>5. Matches(ParseCidrs(list), x) <=> x \in NamedBy(list)
    BY <1>1, <1>2, <1>3, <1>4, Zenon
  <1>6. Named(Unparsable) = {}
    BY DEF Named, Unparsable
  <1>7. ParseCidrs(list) = {} <=> NamedBy(list) = {}
    <2>1. ParseCidrs(list) = {} <=> \A i \in DOMAIN list : list[i] = Unparsable
      BY DEF ParseCidrs
    <2>2. NamedBy(list) = {} <=> \A i \in DOMAIN list : Named(list[i]) = {}
      BY DEF NamedBy
    <2>3. \A i \in DOMAIN list : Named(list[i]) = {} <=> list[i] = Unparsable
      BY <1>1, <1>6, EntryNamesItself
    <2> QED
      BY <2>1, <2>2, <2>3, Zenon
  <1> QED
    BY <1>5, <1>7

(* is_allowed refuses exactly the addresses that the lists exclude         *)
(* (acl.rs:23-48).                                                         *)
THEOREM AclExact ==
    ASSUME NEW a \in Seq(Entry), NEW d \in Seq(Entry), NEW x \in IpAddr
    PROVE  IsAllowed(Acl(a, d), x) <=> ~Excluded(a, d, x)
  <1>1. Acl(a, d).allow = ParseCidrs(a) /\ Acl(a, d).deny = ParseCidrs(d)
    BY DEF Acl
  <1> QED
    BY <1>1, ListExact, Zenon DEF IsAllowed, Excluded
=============================================================================
