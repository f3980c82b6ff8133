------------------------------ MODULE DnsPacket ------------------------------
(***************************************************************************)
(* DNS packets (avahi-core/dns.c): keys and records are appended to a      *)
(* packet of limited size, names are compressed by pointers to earlier     *)
(* ones, and what does not fit is taken back.  The other side reads the    *)
(* packet by its two counters.                                             *)
(*                                                                         *)
(* A packet is [data, table, max, qd, an, ok]: the bytes after the header, *)
(* the name table (the text of a name or of its end -> where it starts),   *)
(* the size limit, and the counters of the header that the callers keep.   *)
(* ok is FALSE while an append that failed has not been taken back.        *)
(***************************************************************************)
EXTENDS Records

CONSTANTS HeaderSize,   \* AVAHI_DNS_PACKET_HEADER_SIZE, 12
          PtrLimit,     \* 0x4000, the first position no pointer can name
          KeyNameSize,  \* what avahi_dns_packet_consume_key() has for a name, 256
          LabelsMax,    \* AVAHI_DNS_LABELS_MAX, 127; reading counts pointers too,
                        \* so names must have fewer labels than half of it
          PacketSizes, MaxItems,
          KeyOffers,    \* a sequence of <<key, unicast response>>
          RecordOffers  \* and of <<record, cache flush, max_ttl>>

VARIABLES packet, items  \* items: what was appended with success, in order

packetVars == <<packet, items>>

FlushBit == 32768   \* AVAHI_DNS_CACHE_FLUSH and AVAHI_DNS_UNICAST_RESPONSE

NewPacket(max) == [data |-> <<>>, table |-> [n \in {} |-> 0], max |-> max, qd |-> 0, an |-> 0, ok |-> TRUE]

End(p) == HeaderSize + Len(p.data)

Append16(v) == <<v \div 256, v % 256>>
Append32(v) == <<v \div 16777216, (v \div 65536) % 256, (v \div 256) % 256, v % 256>>

\* avahi_dns_packet_extend() and the appends that fill what it returns; after
\* one that failed the others of the same || chain are not made
AppendBytes(p, bytes) ==
    IF p.ok /\ End(p) + Len(bytes) <= p.max
    THEN [p EXCEPT !.data = @ \o bytes] ELSE [p EXCEPT !.ok = FALSE]

AppendString(p, s) == AppendBytes(p, <<Shorter(Len(s), 255)>> \o SubSeq(s, 1, Shorter(Len(s), 255)))

\* avahi_dns_packet_cleanup_name_table() after the size was set back
CleanTable(table, end) == [n \in {m \in DOMAIN table : table[m] < end} |-> table[n]]

\* Mutant: the names of what is taken back stay in the table
TakeBackData(p, old) == [p EXCEPT !.data = old.data, !.ok = FALSE]

TakeBack(p, old) ==
    [p EXCEPT !.data = old.data, !.table = CleanTable(@, End(old)), !.ok = FALSE]

\* The labels of a name, each entered in the table, up to a pointer to an
\* earlier name or to the end of the name.  Only a pointer that does not fit
\* is left to the caller to take back.
RECURSIVE AppendLabels(_, _, _)
AppendLabels(p, old, name) ==
    LET u == UnescapeLabel(name)
        known == name \in DOMAIN p.table
        d == AppendString(p, u.label)
        q == IF known THEN d ELSE [d EXCEPT !.table = @ @@ (name :> End(p))]
        zero == AppendBytes(p, <<0>>)
    IN IF name = <<>> THEN IF zero.ok THEN zero ELSE TakeBack(p, old)
       ELSE IF known /\ p.table[name] < PtrLimit
       THEN AppendBytes(p, Append16(49152 + p.table[name]))
       ELSE IF u.ok /\ d.ok THEN AppendLabels(q, old, u.rest)
       ELSE TakeBack(p, old)

AppendName(p, name) == IF p.ok THEN AppendLabels(p, p, name) ELSE p

Flagged(class, flag) == IF flag THEN class + FlushBit ELSE class

OrTakenBack(q, old) == IF q.ok THEN q ELSE TakeBack(q, old)
AppendKey(p, k, unicast) ==
    OrTakenBack(AppendBytes(AppendBytes(AppendName(p, k.name), Append16(k.type)),
                            Append16(Flagged(k.class, unicast))), p)

AppendRdata(p, r) ==
    IF r.key.type \in NameTypes THEN AppendName(p, r.data)
    ELSE IF r.key.type = TypeSRV
    THEN AppendName(AppendBytes(AppendBytes(AppendBytes(p, Append16(r.data.priority)),
                                            Append16(r.data.weight)),
                                Append16(r.data.port)), r.data.name)
    ELSE IF r.key.type = TypeHINFO THEN AppendString(AppendString(p, r.data.cpu), r.data.os)
    ELSE AppendBytes(p, IF r.key.type = TypeTXT THEN TxtBytes(r.data) ELSE r.data)

\* The length of the data is written when the data is there.
WriteSize(q, at) ==
    LET size == Append16(Len(q.data) - at - 2)
    IN [q EXCEPT !.data[at + 1] = size[1], !.data[at + 2] = size[2]]
Completed(q, at, old) == IF q.ok THEN WriteSize(q, at) ELSE TakeBack(q, old)
AppendData(head, r, old) == Completed(AppendRdata(AppendBytes(head, Append16(0)), r), Len(head.data), old)
AppendRecord(p, r, flush, maxTtl) ==
    LET ttl == IF maxTtl > 0 /\ r.ttl > maxTtl THEN maxTtl ELSE r.ttl
    IN AppendData(AppendBytes(AppendBytes(AppendBytes(AppendName(p, r.key.name), Append16(r.key.type)),
                                          Append16(Flagged(r.key.class, flush))), Append32(ttl)),
                  r, p)

---------------------------------------------------------------------------
(* Reading: a position counts from the start of the header. *)

Byte(p, at) == p.data[at - HeaderSize + 1]
Holds(p, at, n) == at + n <= End(p)
Slice(p, at, n) == SubSeq(p.data, at - HeaderSize + 1, at - HeaderSize + n)
Get16(p, at) == Byte(p, at) * 256 + Byte(p, at + 1)
Get32(p, at) == Get16(p, at) * 65536 + Get16(p, at + 2)

\* consume_labels(): `used` counts the bytes up to the first pointer; the escaped
\* text and its NUL must fit `size`, where the last label always leaves a byte.
RECURSIVE ConsumeLabels(_, _, _, _, _, _)
ConsumeLabels(p, at, name, size, used, steps) ==
    LET n == Byte(p, at)
        stop == used >= 0
        to == Get16(p, at) - 49152
    IN IF steps = 0 \/ ~Holds(p, at, 1) THEN No
       ELSE IF n = 0 THEN [ok |-> TRUE, name |-> name, at |-> IF stop THEN used ELSE at + 1]
       ELSE IF n <= 63
       THEN LET longer == Joined(name, EscapeLabel(Slice(p, at + 1, n)))
            IN IF Holds(p, at + 1, n) /\ Len(longer) < size
               THEN ConsumeLabels(p, at + 1 + n, longer, size, used, steps - 1)
               ELSE No
       ELSE IF n >= 192 /\ Holds(p, at, 2) /\ to >= HeaderSize /\ to < at
       THEN ConsumeLabels(p, to, name, size, IF stop THEN used ELSE at + 2, steps - 1)
       ELSE No

ConsumeName(p, at, size) == ConsumeLabels(p, at, <<>>, size, -1, LabelsMax)

ConsumeString(p, at) ==
    IF Holds(p, at, 1) /\ Holds(p, at, 1 + Byte(p, at))
    THEN [ok |-> TRUE, string |-> Slice(p, at + 1, Byte(p, at)), at |-> at + 1 + Byte(p, at)]
    ELSE No

\* The data of a record, which must be read to its last byte and no further
SrvData(p, at, name) ==
    [priority |-> Get16(p, at), weight |-> Get16(p, at + 2), port |-> Get16(p, at + 4), name |-> name]
NamedData(p, type, at, end, c) ==
    IF ~ c.ok \/ c.at # end THEN No
    ELSE [ok |-> TRUE, data |-> IF type = TypeSRV THEN SrvData(p, at, c.name) ELSE c.name]
ParseRdata(p, type, at, length) ==
    LET Exactly(c, data) == IF c.ok /\ c.at = at + length THEN [ok |-> TRUE, data |-> data] ELSE No
        skip == IF type = TypeSRV THEN 6 ELSE 0
    IN IF type \in NameTypes \cup {TypeSRV}
       THEN NamedData(p, type, at, at + length,
                      IF Holds(p, at, skip) THEN ConsumeName(p, at + skip, DomainNameMax) ELSE No)
       ELSE IF type = TypeHINFO
       THEN LET c == ConsumeString(p, at)
                d == IF c.ok THEN ConsumeString(p, c.at) ELSE No
            IN IF d.ok THEN Exactly(d, [cpu |-> c.string, os |-> d.string]) ELSE No
       ELSE IF type = TypeTXT
       THEN LET t == ParseList(Slice(p, at, length))
            IN IF t.ok THEN [ok |-> TRUE, data |-> t.list] ELSE No
       ELSE IF type = TypeA /\ length # 4 THEN No
       ELSE [ok |-> TRUE, data |-> Slice(p, at, length)]

KeyAfterName(p, c) ==
    IF c.ok /\ Holds(p, c.at, 4) /\ IsValidDomainName(c.name)
    THEN [ok |-> TRUE, at |-> c.at + 4,
          item |-> [key |-> [name |-> c.name, type |-> Get16(p, c.at),
                             class |-> Get16(p, c.at + 2) % FlushBit],
                    flag |-> Get16(p, c.at + 2) >= FlushBit]]
    ELSE No

ConsumeKey(p, at) == KeyAfterName(p, ConsumeName(p, at, KeyNameSize))

\* The rest of a record behind its key c, and the whole with its data d
RecordWithData(p, c, d) ==
    LET r == [key |-> c.item.key, ttl |-> Get32(p, c.at), data |-> d.data]
    IN IF d.ok /\ RecordIsValid(r)
       THEN [ok |-> TRUE, at |-> c.at + 6 + Get16(p, c.at + 4),
             item |-> [record |-> r, flag |-> c.item.flag]]
       ELSE No
RecordAfterKey(p, c) ==
    IF c.ok /\ Holds(p, c.at, 6) /\ Holds(p, c.at + 6, Get16(p, c.at + 4))
    THEN RecordWithData(p, c, ParseRdata(p, c.item.key.type, c.at + 6, Get16(p, c.at + 4)))
    ELSE No
ConsumeRecord(p, at) == RecordAfterKey(p, KeyAfterName(p, ConsumeName(p, at, DomainNameMax)))

\* What a receiver makes of the packet: qd keys and then an records
RECURSIVE Decode(_, _, _, _)
Decode(p, at, qd, an) ==
    LET Then(c) ==
            IF c.ok THEN <<c.item>> \o IF qd > 0 THEN Decode(p, c.at, qd - 1, an)
                                       ELSE Decode(p, c.at, 0, an - 1)
            ELSE <<No>>
    IN IF qd = 0 /\ an = 0 THEN <<>>
       ELSE Then(IF qd > 0 THEN ConsumeKey(p, at) ELSE ConsumeRecord(p, at))

---------------------------------------------------------------------------
PacketInit == packet \in {NewPacket(max) : max \in PacketSizes} /\ items = <<>>

\* The callers append an item and count it if it fitted.
Keep(p, keys, records, item) ==
    /\ Len(items) < MaxItems
    /\ packet' = IF p.ok THEN [p EXCEPT !.qd = @ + keys, !.an = @ + records]
                 ELSE [p EXCEPT !.ok = TRUE]
    /\ items' = IF p.ok THEN Append(items, item) ELSE items

PutKey(k, unicast) ==
    packet.an = 0 /\ Keep(AppendKey(packet, k, unicast), 1, 0, [key |-> k, flag |-> unicast])

PutRecord(r, flush, maxTtl) ==
    LET sent == [r EXCEPT !.ttl = IF maxTtl > 0 /\ @ > maxTtl THEN maxTtl ELSE @]
    IN Keep(AppendRecord(packet, r, flush, maxTtl), 0, 1, [record |-> sent, flag |-> flush])

\* avahi_dns_packet_new_reply(): a response to a legacy query starts with the
\* questions of the query, and counts them all.  Its size limit is that of
\* the query, so that they fit.  A query with a question that cannot be read is
\* given up (server.c:589) and has no reply.
RECURSIVE CopyKeys(_, _, _, _)
CopyKeys(p, at, n, reply) ==
    LET c == ConsumeKey(p, at)
        q == AppendKey(reply, c.item.key, c.item.flag)
    IN IF n = 0 \/ ~c.ok THEN reply ELSE CopyKeys(p, c.at, n - 1, [q EXCEPT !.ok = TRUE])

LongKeys == {k \in 1..packet.qd : Len(items[k].key.name) >= KeyNameSize}

NewReply ==
    /\ packet.an > 0 /\ LongKeys = {}
    /\ packet' = [CopyKeys(packet, HeaderSize, packet.qd, NewPacket(packet.max)) EXCEPT !.qd = packet.qd]
    /\ items' = SubSeq(items, 1, packet.qd)

PacketNext ==
    \/ \E n \in DOMAIN KeyOffers : PutKey(KeyOffers[n][1], KeyOffers[n][2])
    \/ \E n \in DOMAIN RecordOffers : LET o == RecordOffers[n] IN PutRecord(o[1], o[2], o[3])
    \/ NewReply

\* The receiver reads exactly what was appended, however full the packet was
\* and whatever was taken back in between; but from the first question on whose
\* name is too long for it when escaped it reads nothing.
PacketDecodes ==
    Decode(packet, HeaderSize, packet.qd, packet.an) =
        IF LongKeys = {} THEN items ELSE SubSeq(items, 1, Min(LongKeys) - 1) \o <<No>>

=============================================================================
