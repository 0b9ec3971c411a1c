--------------------------- MODULE ProxyProtocol ----------------------------
(***************************************************************************)
(* The PROXY protocol v2 header (networking/proxy_protocol.rs), as bytes.  *)
(* A socket address is [octets, port], with 4 octets or 16.                *)
(***************************************************************************)
EXTENDS Naturals, Sequences

V2Sig == <<13, 10, 13, 10, 0, 13, 10, 81, 85, 73, 84, 10>>

U16(n) == <<n \div 256, n % 256>>

Family(a) == Len(a.octets)

Addresses(src, dst) ==
    src.octets \o dst.octets \o U16(src.port) \o U16(dst.port)

(* Mutant: the length counts the addresses and forgets the ports.          *)
CreateV2HeaderShort(src, dst) ==
    V2Sig \o <<33, 17>> \o U16(8) \o Addresses(src, dst)

(* Mixed families write the version byte of the LOCAL command after the    *)
(* one of the PROXY command, so that header has a byte too many; the       *)
(* listener is IPv4 only, so both addresses of a connection are too.       *)
CreateV2Header(src, dst) ==
    V2Sig \o <<33>> \o
    CASE Family(src) = 4 /\ Family(dst) = 4 ->
            <<17>> \o U16(12) \o Addresses(src, dst)
      [] Family(src) = 16 /\ Family(dst) = 16 ->
            <<33>> \o U16(36) \o Addresses(src, dst)
      [] OTHER -> <<32, 0>> \o U16(0)

-----------------------------------------------------------------------------
(* The receiver, from the PROXY protocol's definition: 16 fixed bytes, of  *)
(* which the last two are the length of what follows.                      *)
IsHeader(w)  == Len(w) >= 16 /\ SubSeq(w, 1, 12) = V2Sig /\ w[13] = 33
HeaderLen(w) == 16 + 256 * w[15] + w[16]
Source(w)    == SubSeq(w, 17, 20)
Payload(w)   == SubSeq(w, HeaderLen(w) + 1, Len(w))
=============================================================================
