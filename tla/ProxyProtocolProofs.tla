------------------------ MODULE ProxyProtocolProofs -------------------------
(***************************************************************************)
(* What a receiver of the PROXY header reads, for all addresses and ports  *)
(* and whatever follows the header.                                        *)
(***************************************************************************)
EXTENDS ProxyProtocol, TLAPS, SequenceTheorems

(* u is s followed by t: each byte of u is found in its part.              *)
Joins(u, s, t) ==
    /\ u \in Seq(Nat)
    /\ Len(u) = Len(s) + Len(t)
    /\ \A i \in 1..Len(s) : u[i] = s[i]
    /\ \A i \in 1..Len(t) : u[Len(s) + i] = t[i]
    /\ \A j, k \in 1..Len(s) : SubSeq(u, j, k) = SubSeq(s, j, k)
    /\ \A j, k \in 1..Len(t) : SubSeq(u, Len(s) + j, Len(s) + k) = SubSeq(t, j, k)

(* The concatenation is that.                                              *)
LEMMA ConcatJoins ==
    ASSUME NEW s, NEW t, s \in Seq(Nat), t \in Seq(Nat)
    PROVE  Joins(s \o t, s, t)
  <1> DEFINE st == s \o t
             m  == Len(s)
             n  == Len(t)
  <1>1. /\ st \in Seq(Nat) /\ Len(st) = m + n
        /\ \A i \in 1..(m + n) : st[i] = IF i <= m THEN s[i] ELSE t[i - m]
    BY ConcatProperties
  <1>2. m \in Nat /\ n \in Nat
    OBVIOUS
  <1>3. \A j, k \in 1..m : SubSeq(st, j, k) = SubSeq(s, j, k)
    BY <1>2, SubSeqOfConcat1
  <1>6. \A j, k \in 1..n : SubSeq(st, m + j, m + k) = SubSeq(t, j, k)
    <2> SUFFICES ASSUME NEW j \in 1..n, NEW k \in 1..n
                 PROVE  SubSeq(st, m + j, m + k) = SubSeq(t, j, k)
      OBVIOUS
    <2>1. /\ m + j \in (m + 1)..(m + n) /\ (m + j) - m = j
          /\ m + k \in (m + 1)..(m + n) /\ (m + k) - m = k
      BY <1>2
    <2>2. SubSeq(st, m + j, m + k) = SubSeq(t, (m + j) - m, (m + k) - m)
      BY <2>1, SubSeqOfConcat2
    <2> QED
      BY <2>1, <2>2, Zenon
  <1> HIDE DEF st, m, n
  <1>4. \A i \in 1..m : st[i] = s[i]
    BY <1>1, <1>2
  <1>5. \A i \in 1..n : st[m + i] = t[i]
    <2> SUFFICES ASSUME NEW i \in 1..n PROVE st[m + i] = t[i]
      OBVIOUS
    <2>1. m + i \in 1..(m + n) /\ ~(m + i <= m) /\ (m + i) - m = i
      BY <1>2
    <2> QED
      BY <1>1, <2>1
  <1> QED
    BY <1>1, <1>3, <1>4, <1>5, <1>6, Zenon DEF st, m, n, Joins

(* Bytes may be joined in any order of the joins.                          *)
LEMMA ConcatBytes ==
    ASSUME NEW s \in Seq(Nat), NEW t \in Seq(Nat), NEW u \in Seq(Nat)
    PROVE  (s \o t) \o u = s \o (t \o u)
  BY ConcatAssociative

-----------------------------------------------------------------------------
(* The 16 fixed bytes: signature, command, family and a length below 256.  *)
Fixed(family, len) == (V2Sig \o <<33>>) \o (<<family>> \o U16(len))

(* A receiver finds each of them at its place.                             *)
LEMMA FixedBytes ==
    ASSUME NEW f \in Nat, NEW n \in 0..255
    PROVE  /\ Fixed(f, n) \in Seq(Nat) /\ Len(Fixed(f, n)) = 16
           /\ SubSeq(Fixed(f, n), 1, 12) = V2Sig
           /\ Fixed(f, n)[13] = 33
           /\ Fixed(f, n)[15] = 0 /\ Fixed(f, n)[16] = n
  <1> DEFINE cmd == <<33>>
             fam == <<f>>
             len == U16(n)
             a == V2Sig \o cmd
             b == fam \o len
             h == a \o b
  <1>1. V2Sig \in Seq(Nat) /\ Len(V2Sig) = 12
    BY DEF V2Sig
  <1>2. cmd \in Seq(Nat) /\ Len(cmd) = 1 /\ cmd[1] = 33
    OBVIOUS
  <1>3. fam \in Seq(Nat) /\ Len(fam) = 1
    OBVIOUS
  <1>4. len \in Seq(Nat) /\ Len(len) = 2 /\ len[1] = 0 /\ len[2] = n
    <2>1. n \div 256 = 0 /\ n % 256 = n
      OBVIOUS
    <2> QED
      BY <2>1 DEF U16
  <1>5. Fixed(f, n) = h
    BY DEF Fixed
  <1> HIDE DEF cmd, fam, len
  <1>6. Joins(a, V2Sig, cmd) /\ Joins(b, fam, len)
    BY <1>1, <1>2, <1>3, <1>4, ConcatJoins, Zenon
  <1> HIDE DEF a, b
  <1>7. a \in Seq(Nat) /\ Len(a) = 13 /\ a[13] = 33
    BY <1>1, <1>2, <1>6 DEF Joins
  <1>8. SubSeq(a, 1, 12) = V2Sig
    <2>1. SubSeq(V2Sig, 1, 12) = V2Sig
      BY <1>1, SubSeqFull
    <2>2. SubSeq(a, 1, 12) = SubSeq(V2Sig, 1, 12)
      <3>1. 1 \in 1..Len(V2Sig) /\ 12 \in 1..Len(V2Sig)
        BY <1>1
      <3> QED
        BY <1>6, <3>1, Zenon DEF Joins
    <2> QED
      BY <2>1, <2>2, Zenon
  <1>9. b \in Seq(Nat) /\ Len(b) = 3 /\ b[2] = 0 /\ b[3] = n
    BY <1>3, <1>4, <1>6 DEF Joins
  <1>10. Joins(h, a, b)
    BY <1>7, <1>9, ConcatJoins, Zenon
  <1> HIDE DEF h
  <1> QED
    BY <1>5, <1>7, <1>8, <1>9, <1>10 DEF Joins

(* Octets of an IPv4 and of an IPv6 address; an address, with its port.    *)
Octets == {4, 16}
IsAddr(a, n) == a.octets \in Seq(Nat) /\ Len(a.octets) = n /\ a.port \in Nat

(* An address block: the source's octets come first.                       *)
LEMMA AddressBytes ==
    ASSUME NEW n \in Octets, NEW src, NEW dst, IsAddr(src, n), IsAddr(dst, n)
    PROVE  /\ Addresses(src, dst) \in Seq(Nat)
           /\ Len(Addresses(src, dst)) = 2 * n + 4
           /\ SubSeq(Addresses(src, dst), 1, n) = src.octets
  <1> DEFINE s == src.octets
             d == dst.octets
             p == U16(src.port)
             q == U16(dst.port)
             sd  == s \o d
             sdp == sd \o p
             all == sdp \o q
  <1>1. p \in Seq(Nat) /\ Len(p) = 2 /\ q \in Seq(Nat) /\ Len(q) = 2
    BY DEF U16, IsAddr
  <1>2. s \in Seq(Nat) /\ Len(s) = n /\ d \in Seq(Nat) /\ Len(d) = n
    BY DEF IsAddr
  <1>3. Addresses(src, dst) = all
    BY DEF Addresses
  <1>4. SubSeq(s, 1, n) = s
    BY <1>2, SubSeqFull
  <1> HIDE DEF s, d, p, q
  <1>5. Joins(sd, s, d)
    BY <1>2, ConcatJoins, Zenon
  <1> HIDE DEF sd
  <1>6. sd \in Seq(Nat) /\ Len(sd) = 2 * n /\ SubSeq(sd, 1, n) = s
    BY <1>2, <1>4, <1>5 DEF Joins, Octets
  <1>7. Joins(sdp, sd, p)
    BY <1>1, <1>6, ConcatJoins, Zenon
  <1> HIDE DEF sdp
  <1>8. sdp \in Seq(Nat) /\ Len(sdp) = 2 * n + 2 /\ SubSeq(sdp, 1, n) = s
    BY <1>1, <1>6, <1>7 DEF Joins, Octets
  <1>9. Joins(all, sdp, q)
    BY <1>1, <1>8, ConcatJoins, Zenon
  <1> HIDE DEF all
  <1>10. all \in Seq(Nat) /\ Len(all) = 2 * n + 4 /\ SubSeq(all, 1, n) = s
    BY <1>1, <1>8, <1>9 DEF Joins, Octets
  <1> QED
    BY <1>3, <1>10 DEF s

-----------------------------------------------------------------------------
(* For addresses of one family the header is the fixed part, with the      *)
(* length of the address block, and the address block.                     *)
LEMMA HeaderParts ==
    ASSUME NEW n \in Octets, NEW src, NEW dst, IsAddr(src, n), IsAddr(dst, n)
    PROVE  CreateV2Header(src, dst) =
               Fixed(IF n = 4 THEN 17 ELSE 33, 2 * n + 4) \o Addresses(src, dst)
  <1> DEFINE x == V2Sig \o <<33>>
             z == Addresses(src, dst)
  <1>1. x \in Seq(Nat) /\ z \in Seq(Nat)
    <2>1. V2Sig \in Seq(Nat) /\ <<33>> \in Seq(Nat)
      BY DEF V2Sig
    <2> QED
      BY <2>1, AddressBytes, ConcatProperties
  <1>2. \A f, len \in Nat : <<f>> \o U16(len) \in Seq(Nat)
    <2> SUFFICES ASSUME NEW f \in Nat, NEW len \in Nat
                 PROVE  <<f>> \o U16(len) \in Seq(Nat)
      OBVIOUS
    <2>1. <<f>> \in Seq(Nat) /\ U16(len) \in Seq(Nat)
      BY DEF U16
    <2> QED
      BY <2>1, ConcatProperties
  <1>3. \A f, len \in Nat : Fixed(f, len) \o z = x \o ((<<f>> \o U16(len)) \o z)
    <2> SUFFICES ASSUME NEW f \in Nat, NEW len \in Nat
                 PROVE  Fixed(f, len) \o z = x \o ((<<f>> \o U16(len)) \o z)
      OBVIOUS
    <2> DEFINE y == <<f>> \o U16(len)
    <2>1. y \in Seq(Nat) /\ Fixed(f, len) = x \o y
      BY <1>2 DEF Fixed
    <2> HIDE DEF x, y, z
    <2>2. (x \o y) \o z = x \o (y \o z)
      BY <1>1, <2>1, ConcatBytes, Zenon
    <2> QED
      BY <2>1, <2>2, Zenon DEF y
  <1> HIDE DEF x, z
  <1>4. CASE n = 4
    <2>1. CreateV2Header(src, dst) = x \o ((<<17>> \o U16(12)) \o z)
      BY <1>4 DEF CreateV2Header, Family, IsAddr, x, z
    <2>2. 17 \in Nat /\ 12 \in Nat /\ 2 * n + 4 = 12
      BY <1>4
    <2>3. Fixed(17, 12) \o z = x \o ((<<17>> \o U16(12)) \o z)
      BY <1>3, <2>2, Zenon
    <2> QED
      BY <1>4, <2>1, <2>2, <2>3, Zenon DEF z
  <1>5. CASE n = 16
    <2>1. CreateV2Header(src, dst) = x \o ((<<33>> \o U16(36)) \o z)
      BY <1>5 DEF CreateV2Header, Family, IsAddr, x, z
    <2>2. 33 \in Nat /\ 36 \in Nat /\ 2 * n + 4 = 36 /\ n # 4
      BY <1>5
    <2>3. Fixed(33, 36) \o z = x \o ((<<33>> \o U16(36)) \o z)
      BY <1>3, <2>2, Zenon
    <2> QED
      BY <1>5, <2>1, <2>2, <2>3, Zenon DEF z
  <1> QED
    BY <1>4, <1>5 DEF Octets

LEMMA OctetsSize == \A n \in Octets : n \in Nat /\ n >= 4 /\ n <= 16
  BY DEF Octets

(* What a receiver makes of bytes h that look like a header of n octets    *)
(* for each address, followed by t.                                        *)
LEMMA ReceiverReads ==
    ASSUME NEW n \in Octets, NEW h \in Seq(Nat), NEW t \in Seq(Nat), NEW w,
           Joins(w, h, t), Len(h) = 2 * n + 20, SubSeq(h, 1, 12) = V2Sig,
           h[13] = 33, h[15] = 0, h[16] = 2 * n + 4
    PROVE  /\ IsHeader(w)
           /\ SubSeq(w, 17, 16 + n) = SubSeq(h, 17, 16 + n)
           /\ Payload(w) = t
  <1>0. n \in Nat /\ n >= 4
    BY OctetsSize
  <1>1. /\ w \in Seq(Nat) /\ Len(t) \in Nat /\ Len(w) = 2 * n + 20 + Len(t)
        /\ w[13] = 33 /\ w[15] = 0 /\ w[16] = 2 * n + 4
    <2>1. 13 \in 1..Len(h) /\ 15 \in 1..Len(h) /\ 16 \in 1..Len(h)
      BY <1>0
    <2>2. w[13] = 33 /\ w[15] = 0 /\ w[16] = 2 * n + 4
      BY <2>1, Zenon DEF Joins
    <2>3. w \in Seq(Nat) /\ Len(w) = Len(h) + Len(t)
      BY Zenon DEF Joins
    <2> QED
      BY <1>0, <2>2, <2>3
  <1>2. /\ 1 \in 1..Len(h) /\ 12 \in 1..Len(h)
        /\ 17 \in 1..Len(h) /\ 16 + n \in 1..Len(h)
    BY <1>0
  <1>3. SubSeq(w, 1, 12) = V2Sig /\ SubSeq(w, 17, 16 + n) = SubSeq(h, 17, 16 + n)
    BY <1>2, Zenon DEF Joins
  <1>4. SubSeq(w, Len(h) + 1, Len(w)) = t
    <2>1. CASE t = <<>>
      BY <1>0, <1>1, <2>1, SubSeqEmpty
    <2>2. CASE t # <<>>
      <3>1. 1 \in 1..Len(t) /\ Len(t) \in 1..Len(t) /\ Len(w) = Len(h) + Len(t)
        BY <1>0, <1>1, <2>2
      <3>2. SubSeq(t, 1, Len(t)) = t
        BY SubSeqFull
      <3> QED
        BY <3>1, <3>2, Zenon DEF Joins
    <2> QED
      BY <2>1, <2>2
  <1>5. HeaderLen(w) = Len(h)
    BY <1>0, <1>1 DEF HeaderLen
  <1>6. IsHeader(w)
    BY <1>0, <1>1, <1>3 DEF IsHeader
  <1> QED
    BY <1>3, <1>4, <1>5, <1>6, Zenon DEF Payload

(* A receiver recognises w as a header, reads the source's address behind  *)
(* the fixed part, and takes t for payload.                                *)
ReadsAs(w, octets, t) ==
    /\ IsHeader(w)
    /\ SubSeq(w, 17, 16 + Len(octets)) = octets
    /\ Payload(w) = t

(* Whatever follows the header, a receiver recognises it, reads the        *)
(* source's address behind the fixed part, and takes for payload exactly   *)
(* what follows: for IPv4 and for IPv6 (proxy_protocol.rs).                *)
THEOREM HeaderDecodes ==
    ASSUME NEW n \in Octets, NEW src, NEW dst, IsAddr(src, n), IsAddr(dst, n),
           NEW t \in Seq(Nat)
    PROVE  ReadsAs(CreateV2Header(src, dst) \o t, src.octets, t)
  <1> DEFINE fam == IF n = 4 THEN 17 ELSE 33
             len == 2 * n + 4
             f == Fixed(fam, len)
             a == Addresses(src, dst)
             h == f \o a
  <1>0. CreateV2Header(src, dst) = h
    BY HeaderParts, Zenon
  <1>1. /\ f \in Seq(Nat) /\ Len(f) = 16 /\ SubSeq(f, 1, 12) = V2Sig
        /\ f[13] = 33 /\ f[15] = 0 /\ f[16] = 2 * n + 4
    <2>1. fam \in Nat /\ len \in 0..255 /\ len = 2 * n + 4
      BY DEF Octets
    <2> HIDE DEF fam, len
    <2>2. /\ f \in Seq(Nat) /\ Len(f) = 16 /\ SubSeq(f, 1, 12) = V2Sig
          /\ f[13] = 33 /\ f[15] = 0 /\ f[16] = len
      BY <2>1, FixedBytes, ZenonT(60)
    <2> QED
      BY <2>1, <2>2, Zenon
  <1>2. a \in Seq(Nat) /\ Len(a) = 2 * n + 4 /\ SubSeq(a, 1, n) = src.octets
    BY AddressBytes
  <1> HIDE DEF f, a
  <1>3. Joins(h, f, a)
    BY <1>1, <1>2, ConcatJoins, Zenon
  <1> HIDE DEF h
  <1>4. /\ h \in Seq(Nat) /\ Len(h) = 2 * n + 20
        /\ h[13] = 33 /\ h[15] = 0 /\ h[16] = 2 * n + 4
    BY <1>1, <1>2, <1>3 DEF Joins, Octets
  <1>5. SubSeq(h, 1, 12) = V2Sig
    <2>1. 1 \in 1..Len(f) /\ 12 \in 1..Len(f)
      BY <1>1
    <2> QED
      BY <1>1, <1>3, <2>1, Zenon DEF Joins
  <1>6. SubSeq(h, 17, 16 + n) = src.octets
    <2>1. 1 \in 1..Len(a) /\ n \in 1..Len(a) /\ Len(f) + 1 = 17 /\ Len(f) + n = 16 + n
      BY <1>1, <1>2 DEF Octets
    <2>2. SubSeq(h, Len(f) + 1, Len(f) + n) = SubSeq(a, 1, n)
      BY <1>3, <2>1, Zenon DEF Joins
    <2> QED
      BY <1>2, <2>1, <2>2, Zenon
  <1>7. Joins(h \o t, h, t)
    BY <1>4, ConcatJoins, Zenon
  <1>8. /\ IsHeader(h \o t) /\ Payload(h \o t) = t
        /\ SubSeq(h \o t, 17, 16 + n) = SubSeq(h, 17, 16 + n)
    BY <1>4, <1>5, <1>7, ReceiverReads, Zenon
  <1>9. 16 + Len(src.octets) = 16 + n
    BY DEF IsAddr
  <1> QED
    BY <1>0, <1>6, <1>8, <1>9, Zenon DEF ReadsAs

(* The same for two IPv4 addresses.                                        *)
LEMMA HeaderDecodesV4 ==
    ASSUME NEW src, NEW dst, IsAddr(src, 4), IsAddr(dst, 4), NEW t \in Seq(Nat)
    PROVE  /\ IsHeader(CreateV2Header(src, dst) \o t)
           /\ Source(CreateV2Header(src, dst) \o t) = src.octets
           /\ Payload(CreateV2Header(src, dst) \o t) = t
  <1> DEFINE w == CreateV2Header(src, dst) \o t
  <1>1. 4 \in Octets
    BY DEF Octets
  <1>2. ReadsAs(w, src.octets, t)
    BY <1>1, HeaderDecodes, Zenon
  <1>3. 16 + Len(src.octets) = 20
    BY DEF IsAddr
  <1> HIDE DEF w
  <1> QED
    BY <1>2, <1>3, Zenon DEF ReadsAs, Source, w
=============================================================================
