------------------------------- MODULE Records -------------------------------
(***************************************************************************)
(* Keys and records (avahi-core/rr.c): equality, and the order that        *)
(* decides between two hosts probing for the same name                     *)
(* (avahi_record_lexicographical_compare(); see ProbeTie).                 *)
(*                                                                         *)
(* A record is [key |-> [name, class, type], ttl, data].  Names are texts  *)
(* as in Names; the shape of the data follows the type.  Reference counts  *)
(* and the text form of a record, which only logging uses, are left out.   *)
(***************************************************************************)
EXTENDS Names, StringLists, FiniteSets

TypeA == 1
TypePTR == 12
TypeHINFO == 13
TypeTXT == 16
TypeSRV == 33
ClassIN == 1
NameTypes == {2, 5, TypePTR}   \* NS, CNAME and PTR hold a name

KeyEqual(j, k) == DomainEqual(j.name, k.name) /\ j.type = k.type /\ j.class = k.class

RdataEqual(a, b) ==
    IF a.key.type = TypeSRV
    THEN /\ [a.data EXCEPT !.name = <<>>] = [b.data EXCEPT !.name = <<>>]
         /\ DomainEqual(a.data.name, b.data.name)
    ELSE IF a.key.type \in NameTypes THEN DomainEqual(a.data, b.data)
    ELSE a.data = b.data

RecordEqualNoTtl(a, b) == KeyEqual(a.key, b.key) /\ RdataEqual(a, b)

RecordIsValid(r) ==
    /\ IsValidDomainName(r.key.name)
    /\ r.key.type \in NameTypes => IsValidDomainName(r.data)
    /\ r.key.type = TypeSRV => IsValidDomainName(r.data.name)
    /\ r.key.type = TypeHINFO => Len(r.data.cpu) <= StringMax /\ Len(r.data.os) <= StringMax
    /\ r.key.type = TypeTXT => \A k \in DOMAIN r.data : Len(r.data[k]) \in 1..StringMax

---------------------------------------------------------------------------
(* The order of records: -1, 0 or 1 *)

NumberCmp(a, b) == IF a = b THEN 0 ELSE IF a < b THEN -1 ELSE 1

\* Where two byte strings first differ, or 0
Differ(s, t) ==
    LET d == {k \in DOMAIN s \cap DOMAIN t : s[k] # t[k]}
    IN IF d = {} THEN 0 ELSE CHOOSE k \in d : \A j \in d : k <= j

\* strcmp(): a text comes after its beginnings
StrCmp(s, t) ==
    LET d == Differ(s, t)
    IN IF d > 0 THEN NumberCmp(s[d], t[d]) ELSE NumberCmp(Len(s), Len(t))

\* lexicographical_memcmp(): a byte string comes before its beginnings
LexicographicalMemcmp(s, t) ==
    LET d == Differ(s, t)
    IN IF d > 0 THEN NumberCmp(s[d], t[d]) ELSE NumberCmp(Len(t), Len(s))

\* avahi_binary_domain_cmp(): label by label, upper and lower case apart
RECURSIVE BinaryDomainCmp(_, _)
BinaryDomainCmp(s, t) ==
    LET u == UnescapeLabel(s) v == UnescapeLabel(t) r == StrCmp(u.label, v.label)
    IN IF r # 0 \/ (u.rest = <<>> /\ v.rest = <<>>) THEN r
       ELSE BinaryDomainCmp(u.rest, v.rest)

\* The first comparison that tells the two apart
FirstOf(results) ==
    LET d == {k \in DOMAIN results : results[k] # 0}
    IN IF d = {} THEN 0 ELSE results[CHOOSE k \in d : \A j \in d : k <= j]

TxtBytes(l) == Serialize(l, SerializedSize(l))

RdataCmp(type, x, y) ==
    IF type \in NameTypes THEN BinaryDomainCmp(x, y)
    ELSE IF type = TypeSRV
    THEN FirstOf(<<NumberCmp(x.priority, y.priority), NumberCmp(x.weight, y.weight),
                   NumberCmp(x.port, y.port), BinaryDomainCmp(x.name, y.name)>>)
    ELSE IF type = TypeHINFO THEN FirstOf(<<StrCmp(x.cpu, y.cpu), StrCmp(x.os, y.os)>>)
    ELSE IF type = TypeTXT THEN LexicographicalMemcmp(TxtBytes(x), TxtBytes(y))
    ELSE LexicographicalMemcmp(x, y)

RecordCmp(a, b) ==
    LET r == FirstOf(<<NumberCmp(a.key.class, b.key.class), NumberCmp(a.key.type, b.key.type)>>)
    IN IF r # 0 THEN r ELSE RdataCmp(a.key.type, a.data, b.data)
=============================================================================
