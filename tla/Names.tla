-------------------------------- MODULE Names --------------------------------
(***************************************************************************)
(* Domain names as text: escaping, normal form, comparison and hash        *)
(* (avahi-common/domain.c), UTF-8 (avahi-common/utf8.c), and the names     *)
(* that are tried after a conflict (avahi-common/alternative.c).  A text   *)
(* is a sequence of bytes.  The buffers these functions write to are       *)
(* four times as long as a label and cannot overflow on one; what is too   *)
(* long to be a valid name is told apart, but the buffers whole names are  *)
(* normalised into are not bounded here.                                   *)
(***************************************************************************)
EXTENDS Integers, Sequences, SequencesExt

CONSTANTS LabelMax,     \* AVAHI_LABEL_MAX, 64: one more than a label's bytes
          DomainNameMax, \* AVAHI_DOMAIN_NAME_MAX, 1014: one more than a name's characters
          HashRange,    \* avahi_domain_hash() counts modulo 2^32
          Bytes, MaxText, \* the texts that are tried
          ServiceTypes, Domains

VARIABLE text

Dot == 46
Backslash == 92
Hyphen == 45
Underscore == 95
Digits == 48..57
Space == 32
Hash == 35

Lower(s) == [k \in DOMAIN s |-> IF s[k] \in 65..90 THEN s[k] + 32 ELSE s[k]]
From(s, k) == SubSeq(s, k, Len(s))

---------------------------------------------------------------------------
(* utf8.c *)

Continues(s, k) == k <= Len(s) /\ s[k] \in 128..191

UnicodeValid(v) == /\ v < 1114112
                   /\ v \notin 55296..57343
                   /\ v \notin 64976..65007
                   /\ v % 65536 \notin {65534, 65535}

RECURSIVE Utf8Valid(_)
Utf8Valid(s) ==
    \/ s = <<>>
    \/ s[1] < 128 /\ Utf8Valid(From(s, 2))
    \/ s[1] \in 194..223 /\ Continues(s, 2) /\ Utf8Valid(From(s, 3))
    \/ /\ s[1] \in 224..239 /\ Continues(s, 2) /\ Continues(s, 3)
       /\ LET v == (s[1] % 16) * 4096 + (s[2] % 64) * 64 + (s[3] % 64)
          IN v >= 2048 /\ UnicodeValid(v)
       /\ Utf8Valid(From(s, 4))
    \/ /\ s[1] \in 240..247 /\ \A k \in 2..4 : Continues(s, k)
       /\ LET v == (s[1] % 8) * 262144 + (s[2] % 64) * 4096 + (s[3] % 64) * 64 + (s[4] % 64)
          IN v >= 65536 /\ UnicodeValid(v)
       /\ Utf8Valid(From(s, 5))

---------------------------------------------------------------------------
(* domain.c: labels.  No is the NULL these functions return. *)

No == [ok |-> FALSE]

Decimal(s, k) == (s[k] - 48) * 100 + (s[k + 1] - 48) * 10 + s[k + 2] - 48

\* Reads the label that starts at position k, of which `label` has been read.
RECURSIVE UnescapeFrom(_, _, _)
UnescapeFrom(s, k, label) ==
    IF Len(label) >= LabelMax THEN No
    ELSE IF k > Len(s) \/ s[k] = Dot
    THEN IF Utf8Valid(label)
         THEN [ok |-> TRUE, label |-> label, rest |-> From(s, k + 1)]
         ELSE No
    ELSE IF s[k] # Backslash THEN UnescapeFrom(s, k + 1, Append(label, s[k]))
    ELSE IF k = Len(s) THEN No
    ELSE IF s[k + 1] \in {Dot, Backslash}
    THEN UnescapeFrom(s, k + 2, Append(label, s[k + 1]))
    ELSE IF /\ k + 3 <= Len(s)
            /\ \A j \in 1..3 : s[k + j] \in Digits
            /\ Decimal(s, k + 1) \in 1..255
    THEN UnescapeFrom(s, k + 4, Append(label, Decimal(s, k + 1)))
    ELSE No

UnescapeLabel(s) == UnescapeFrom(s, 1, <<>>)

\* Mutant: a dot inside a label is left as it is
EscapeBytePlain(b) ==
    IF b = Backslash THEN <<Backslash, b>>
    ELSE IF b \in {Dot, Underscore, Hyphen} \cup Digits \cup 97..122 \cup 65..90 THEN <<b>>
    ELSE <<Backslash, 48 + (b \div 100), 48 + ((b \div 10) % 10), 48 + (b % 10)>>

EscapeByte(b) ==
    IF b \in {Dot, Backslash} THEN <<Backslash, b>>
    ELSE IF b \in {Underscore, Hyphen} \cup Digits \cup 97..122 \cup 65..90 THEN <<b>>
    ELSE <<Backslash, 48 + (b \div 100), 48 + ((b \div 10) % 10), 48 + (b % 10)>>

EscapeLabel(label) == FlattenSeq([k \in DOMAIN label |-> EscapeByte(label[k])])

Joined(s, t) == IF s = <<>> THEN t ELSE s \o <<Dot>> \o t

\* The labels of a name, or No if one cannot be read.
RECURSIVE LabelsOf(_)
LabelsOf(s) ==
    IF s = <<>> THEN [ok |-> TRUE, labels |-> <<>>]
    ELSE LET u == UnescapeLabel(s)
             r == IF u.ok THEN LabelsOf(u.rest) ELSE No
         IN IF r.ok THEN [ok |-> TRUE, labels |-> <<u.label>> \o r.labels] ELSE No

\* The empty text and "." are the root, which alone has an empty label.
IsValidDomainName(s) ==
    LET l == LabelsOf(s)
    IN Len(s) < DomainNameMax /\ l.ok /\ (l.labels \in {<<>>, << <<>> >>} \/ \A k \in DOMAIN l.labels : l.labels[k] # <<>>)

NameOfLabels(labels) == FoldLeft(LAMBDA r, l : Joined(r, EscapeLabel(l)), <<>>, labels)

NormalizeName(s) == NameOfLabels(SelectSeq(LabelsOf(s).labels, LAMBDA l : l # <<>>))

RECURSIVE DomainEqual(_, _)
DomainEqual(s, t) ==
    LET u == UnescapeLabel(s) v == UnescapeLabel(t)
    IN /\ Lower(u.label) = Lower(v.label)
       /\ (u.rest # <<>> \/ v.rest # <<>>) => DomainEqual(u.rest, v.rest)

DomainHash(s) ==
    FoldLeft(LAMBDA h, b : (31 * h + b) % HashRange, 0, Lower(FlattenSeq(LabelsOf(s).labels)))

\* avahi_domain_ends_with()
RECURSIVE DomainEndsWith(_, _)
DomainEndsWith(s, suffix) ==
    s # <<>> /\ (DomainEqual(s, suffix) \/ DomainEndsWith(UnescapeLabel(s).rest, suffix))

---------------------------------------------------------------------------
(* domain.c: service names *)

TypeLabel(l) == Len(l) > 2 /\ l[1] = Underscore

IsValidServiceTypeGeneric(t) ==
    LET l == LabelsOf(t)
    IN Len(t) < DomainNameMax /\ l.ok /\ l.labels # <<>> /\ \A k \in DOMAIN l.labels : TypeLabel(l.labels[k])

\* "_tcp" and "_udp", in either case
Transport(l) == Lower(l) \in {<<95, 116, 99, 112>>, <<95, 117, 100, 112>>}

IsValidServiceTypeStrict(t) ==
    LET l == LabelsOf(t)
    IN Len(t) < DomainNameMax /\ l.ok /\ Len(l.labels) = 2 /\ TypeLabel(l.labels[1]) /\ Transport(l.labels[2])

\* "_sub"
SubLabel(l) == Lower(l) = <<95, 115, 117, 98>>

\* The type that follows "<subtype>._sub.", or No
TypeFromSubtype(t) ==
    LET l == LabelsOf(t)
    IN IF /\ Len(t) < DomainNameMax /\ l.ok /\ Len(l.labels) = 4
          /\ TypeLabel(l.labels[1]) /\ SubLabel(l.labels[2])
          /\ TypeLabel(l.labels[3]) /\ Transport(l.labels[4])
       THEN [ok |-> TRUE, type |-> UnescapeLabel(UnescapeLabel(t).rest).rest]
       ELSE No

IsValidServiceName(s) == Len(s) \in 1..(LabelMax - 1)

IsValidHostName(s) ==
    LET u == UnescapeLabel(s)
    IN Len(s) < DomainNameMax /\ s # <<>> /\ u.ok /\ u.label # <<>> /\ u.rest = <<>>

ServiceNameJoin(name, type, domain) ==
    IF /\ IsValidServiceName(name) /\ IsValidServiceTypeGeneric(type)
       /\ IsValidDomainName(domain)
    THEN [ok |-> TRUE,
          name |-> EscapeLabel(name) \o <<Dot>> \o NormalizeName(type)
                     \o <<Dot>> \o NormalizeName(domain)]
    ELSE No

\* The first label is the name, those that start with "_" up to the first one
\* that does not are the type, and the others the domain.
PlainLabels(labels) == {k \in DOMAIN labels : labels[k] = <<>> \/ labels[k][1] # Underscore}
SplitAt(labels, cut) ==
    [ok |-> TRUE, name |-> labels[1],
     type |-> NameOfLabels(SubSeq(labels, 2, cut)), domain |-> NameOfLabels(From(labels, cut + 1))]
SplitLabels(labels) ==
    SplitAt(labels, Min((PlainLabels(labels) \ {1}) \cup {Len(labels) + 1}) - 1)
ServiceNameSplit(s) ==
    LET l == LabelsOf(s) IN IF l.ok /\ l.labels # <<>> THEN SplitLabels(l.labels) ELSE No

---------------------------------------------------------------------------
(* alternative.c *)

RECURSIVE DropIncompleteUtf8(_)
DropIncompleteUtf8(s) == IF s = <<>> \/ Utf8Valid(s) THEN s ELSE DropIncompleteUtf8(Front(s))

First(s, n) == SubSeq(s, 1, IF Len(s) < n THEN Len(s) ELSE n)

RECURSIVE Number(_)
Number(s) == IF s = <<>> THEN 0 ELSE 10 * Number(Front(s)) + Last(s) - 48
RECURSIVE Printed(_)
Printed(n) == IF n < 10 THEN <<48 + n>> ELSE Append(Printed(n \div 10), 48 + (n % 10))

\* Where the number after the last separator starts, or 0: digits only, the
\* first of them not zero.
NumberAt(s, sep) ==
    LET ends == {k \in 1..(Len(s) + 1) :
                    k > Len(sep) /\ SubSeq(s, k - Len(sep), k - 1) = sep}
        e == IF ends = {} THEN 0 ELSE CHOOSE k \in ends : \A j \in ends : j <= k
    IN IF /\ e > 0 /\ e <= Len(s) /\ s[e] # 48
          /\ \A k \in e..Len(s) : s[k] \in Digits
       THEN e ELSE 0

\* The number is counted up, or "2" is added; what stands before it is cut so
\* that the whole is a label, between two UTF-8 characters.
NextName(s, sep) ==
    LET e == NumberAt(s, sep)
        m == IF e > 0 THEN Printed(Number(From(s, e)) + 1) ELSE <<50>>
        base == IF e > 0 THEN SubSeq(s, 1, e - 1 - Len(sep)) ELSE s
    IN DropIncompleteUtf8(First(base, LabelMax - 1 - Len(m) - Len(sep))) \o sep \o m

AlternativeHostName(s) == NextName(s, <<Hyphen>>)
AlternativeServiceName(s) == NextName(s, <<Space, Hash>>)

---------------------------------------------------------------------------
(* Every text, byte by byte. *)

NamesInit == text = <<>>
TypeByte == \E b \in Bytes : Len(text) < MaxText /\ text' = Append(text, b)

\* A label that is escaped reads back as it was, and leaves the rest of the
\* name alone.
LabelsSurvive ==
    (text # <<>> /\ Utf8Valid(text) /\ Len(text) < LabelMax) =>
        \A d \in Domains :
            LET u == UnescapeLabel(Joined(EscapeLabel(text), d))
            IN u.ok /\ u.label = text /\ u.rest = d

\* The normal form of a name is a name with the same labels, has itself as its
\* normal form, and the cache and the entries find either by the other.
NamesNormalise ==
    IsValidDomainName(text) =>
        LET n == NormalizeName(text)
        IN \A s \in {n, Lower(text)} :
             /\ IsValidDomainName(s)
             /\ NormalizeName(n) = n
             /\ DomainEqual(text, s) /\ DomainEqual(s, text)
             /\ DomainHash(text) = DomainHash(s)
             /\ s # <<>> => \A d \in Domains : DomainEndsWith(Joined(s, d), d)

\* What the resolver takes apart is what the publisher put together, unless
\* the domain starts like a type.
ServiceNamesSurvive ==
    Utf8Valid(text) =>
        \A type \in ServiceTypes, domain \in Domains :
            LET j == ServiceNameJoin(text, type, domain)
            IN j.ok => /\ ServiceNameSplit(j.name) =
                            [ok |-> TRUE, name |-> text, type |-> NormalizeName(type),
                             domain |-> NormalizeName(domain)]
                       /\ IsValidServiceTypeStrict(type) => ~TypeFromSubtype(type).ok

Chain(Alternative(_), s) ==
    LET a == Alternative(s) b == Alternative(a) c == Alternative(b) IN <<s, a, b, c>>

\* An alternative name is a label again, and no name of the chain of
\* alternatives comes twice, so that every conflict leads to a new name.
\* Host names are made of letters, digits and "-" (domain-util.c:38).
AlternativesDiffer ==
    /\ (IsValidServiceName(text) /\ Utf8Valid(text)) =>
          LET chain == Chain(AlternativeServiceName, text)
          IN /\ \A k \in DOMAIN chain : IsValidServiceName(chain[k]) /\ Utf8Valid(chain[k])
             /\ IsInjective(chain)
    /\ (text # <<>> /\ Range(text) \subseteq Digits \cup {Hyphen} \cup 65..90 \cup 97..122) =>
          LET chain == Chain(AlternativeHostName, text)
          IN /\ Len(text) < LabelMax => \A k \in DOMAIN chain : IsValidHostName(chain[k])
             /\ IsInjective(chain)

=============================================================================
