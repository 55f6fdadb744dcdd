------------------------------ MODULE HepCodec ------------------------------
(***************************************************************************)
(* The encapsulation of captured packets, src/capture_eep.c: what          *)
(* capture_eep_send puts in a datagram and what capture_eep_receive makes  *)
(* of one, for HEP versions 2 and 3.                                       *)
(*                                                                         *)
(* A packet is a record [ip, proto, type, src, dst, time, payload, len]:   *)
(* the type says how SIP was carried (udp, tcp, tls, ws, wss), the payload *)
(* is opaque and only its length in octets counts.  A datagram of version  *)
(* 3 is the sequence of its chunks, one of version 2 its header with an    *)
(* 8-bit length field; neither carries the type.                           *)
(***************************************************************************)
EXTENDS Integers, Sequences, SequencesExt, FiniteSetsExt

CONSTANTS
  None,
  Crash      \* the copy of a payload runs past its buffer

\* Octets of the structures of capture_eep.h.
CtrlSize == 6
ChunkSize == 6
GenericSize == CtrlSize + 3 * (ChunkSize + 1) + 2 * (ChunkSize + 2) + 3 * (ChunkSize + 4)
HepHdrSize == 8
TimeHdrSize == 12
AddressSize(ip) == IF ip = 4 THEN 4 ELSE 16

U16(n) == n % 65536
\* htons of a little-endian host stored in, and read back from, one octet.
HtonsOctet(n) == (U16(n) \div 256) % 256
NtohsOctet(b) == b * 256

-----------------------------------------------------------------------------
(* Version 3.                                                              *)

Chunk(type, data, size) == [vendor |-> 0, type |-> type, data |-> data, len |-> ChunkSize + size]

SendV3(p, password) ==
  LET fixed == <<Chunk("family", p.ip, 1), Chunk("proto", p.proto, 1),
                 Chunk("srcport", p.src.port, 2), Chunk("dstport", p.dst.port, 2),
                 Chunk("sec", p.time.sec, 4), Chunk("usec", p.time.usec, 4),
                 Chunk("prototype", "sip", 1), Chunk("captid", "agent", 4)>>
      ips == <<Chunk("srcip", p.src.ip, AddressSize(p.ip)),
               Chunk("dstip", p.dst.ip, AddressSize(p.ip))>>
      auth == IF password = None THEN <<>> ELSE <<Chunk("authkey", password, Len(password))>>
      pwlen == IF password = None THEN 0 ELSE ChunkSize + Len(password)
  IN  [version |-> 3,
       length |-> U16(GenericSize + p.len + 2 * (ChunkSize + AddressSize(p.ip)) + ChunkSize + pwlen),
       chunks |-> fixed \o ips \o auth \o <<Chunk("payload", p.payload, p.len)>>]

\* Where a chunk starts, and the chunks the loop of the receiver reads: it
\* follows their lengths up to the total length of the header.
Start(d, i) ==
  LET after[j \in 0 .. Len(d.chunks)] == IF j = 0 THEN CtrlSize ELSE after[j - 1] + d.chunks[j].len
  IN  after[i - 1]

Read(d) == {i \in DOMAIN d.chunks : Start(d, i) < d.length /\ d.chunks[i].vendor = 0}

\* The last chunk of a type counts; a field without one stays zero.
Field(d, type) ==
  LET is == {i \in Read(d) : d.chunks[i].type = type}
  IN  IF is = {} THEN None ELSE d.chunks[Max(is)].data

\* As if the header of the chunk were taken for payload.
PayloadLenWithHeader(d) ==
  LET is == {i \in Read(d) : d.chunks[i].type = "payload"}
  IN  IF is = {} THEN 0 ELSE d.chunks[Max(is)].len

PayloadLen(d) ==
  LET is == {i \in Read(d) : d.chunks[i].type = "payload"}
  IN  IF is = {} THEN 0 ELSE d.chunks[Max(is)].len - ChunkSize

Authorised(d, password) ==
  \/ password = None
  \/ Field(d, "authkey") # None /\ IsPrefix(password, Field(d, "authkey"))

ReceiveV3(d, password) ==
  IF d.version # 3 \/ ~Authorised(d, password) THEN None
  ELSE [ip |-> Field(d, "family"), proto |-> Field(d, "proto"), type |-> "udp",
        src |-> [ip |-> Field(d, "srcip"), port |-> Field(d, "srcport")],
        dst |-> [ip |-> Field(d, "dstip"), port |-> Field(d, "dstport")],
        time |-> [sec |-> Field(d, "sec"), usec |-> Field(d, "usec")],
        payload |-> Field(d, "payload"), len |-> PayloadLen(d)]

-----------------------------------------------------------------------------
(* Version 2: the total length goes through an octet.                      *)

HeadersV2(ip) == HepHdrSize + 2 * AddressSize(ip) + TimeHdrSize
TotalV2(p) == HeadersV2(p.ip) + p.len

SendV2(p) == [version |-> 2, length |-> HtonsOctet(TotalV2(p)), packet |-> p]

ReceiveV2(d) ==
  LET len == NtohsOctet(d.length) - HeadersV2(d.packet.ip)
  IN  IF d.version # 2 THEN None
      ELSE IF len < 0 THEN Crash        \* a length of 2^32 - ... octets
      ELSE [d.packet EXCEPT !.type = "udp", !.len = len]

-----------------------------------------------------------------------------
\* The frame made up for the output file: always IPv4 and UDP, and without
\* addresses when those of the packet are not of IPv4.
BuildFrameData(p) ==
  [p EXCEPT !.ip = 4, !.proto = "udp",
            !.src.ip = IF p.ip = 4 THEN @ ELSE None, !.dst.ip = IF p.ip = 4 THEN @ ELSE None]

Send(p, version, password) == IF version = 2 THEN SendV2(p) ELSE SendV3(p, password)

Receive(d, version, password) ==
  IF version = 2 THEN ReceiveV2(d) ELSE ReceiveV3(d, password)
============================================================================
