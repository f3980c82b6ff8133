----------------------------- MODULE StringLists -----------------------------
(***************************************************************************)
(* The string list of a TXT record (avahi-common/strlst.c).  The list is   *)
(* linked from its newest string to its oldest; Head(list) is the newest.  *)
(* A string is a sequence of bytes.                                        *)
(***************************************************************************)
EXTENDS Integers, Sequences, SequencesExt

CONSTANTS StringMax,      \* 255, the longest string the wire format holds
          TxtKeys, TxtValues, TxtMax  \* the pairs that are tried

VARIABLE list

Equals == 61
NoValue == <<>>   \* the NULL value of a key without "=", never a string here

AddString(l, s) == <<s>> \o l

\* avahi_string_list_add_pair(): "key=value", or the key alone
AddPair(l, key, hasValue, value) ==
    AddString(l, IF hasValue THEN key \o <<Equals>> \o value ELSE key)

\* avahi_string_list_get_pair(): cut at the first "="
GetPair(s) ==
    LET cuts == {k \in DOMAIN s : s[k] = Equals}
        e == CHOOSE k \in cuts : \A j \in cuts : k <= j
    IN IF cuts = {} THEN [key |-> s, hasValue |-> FALSE, value |-> NoValue]
       ELSE [key |-> SubSeq(s, 1, e - 1), hasValue |-> TRUE,
             value |-> SubSeq(s, e + 1, Len(s))]

SameLetters(s, t) ==
    LET L(b) == IF b \in 65..90 THEN b + 32 ELSE b
    IN Len(s) = Len(t) /\ \A k \in DOMAIN s : L(s[k]) = L(t[k])

\* avahi_string_list_find(): the newest string that is the key or starts with
\* "key=", in whatever case; 0 if there is none
Find(l, key) ==
    LET n == Len(key)
        hits == {k \in DOMAIN l :
                   \/ SameLetters(l[k], key)
                   \/ Len(l[k]) > n /\ SameLetters(SubSeq(l[k], 1, n), key) /\ l[k][n + 1] = Equals}
    IN IF hits = {} THEN 0 ELSE CHOOSE k \in hits : \A j \in hits : k <= j

Shorter(a, b) == IF a < b THEN a ELSE b

\* The length avahi_string_list_serialize() computes when it has no buffer
SerializedSize(l) ==
    LET used == FoldLeft(LAMBDA n, s : IF s = <<>> THEN n ELSE n + 1 + Shorter(Len(s), StringMax), 0, l)
    IN IF used = 0 THEN 1 ELSE used

\* What it writes into a buffer of `size` bytes: oldest first, empty strings
\* left out, long ones and the last one cut
Serialize(l, size) ==
    LET Write(out, s) ==
            LET room == size - Len(out)
                k == Shorter(Shorter(Len(s), StringMax), room - 1)
            IN IF s = <<>> \/ room <= 1 THEN out
               ELSE out \o <<k>> \o SubSeq(s, 1, k)
        bytes == FoldLeft(Write, <<>>, Reverse(l))
    IN IF bytes = <<>> /\ size > 0 THEN <<0>> ELSE bytes

\* avahi_string_list_parse(), which stops at a length that runs over the end
RECURSIVE ParseInto(_, _)
ParseInto(l, bytes) ==
    IF bytes = <<>> THEN [ok |-> TRUE, list |-> l]
    ELSE LET k == Head(bytes)
         IN IF k > Len(bytes) - 1 THEN [ok |-> FALSE, list |-> <<>>]
            ELSE ParseInto(IF k = 0 THEN l ELSE AddString(l, SubSeq(bytes, 2, 1 + k)),
                           SubSeq(bytes, 2 + k, Len(bytes)))

ParseList(bytes) == ParseInto(<<>>, bytes)

\* avahi_string_list_copy(): strings added one by one, then reversed
CopyList(l) == Reverse(FoldLeft(AddString, <<>>, l))

---------------------------------------------------------------------------
ListInit == list = <<>>

PairAdded(key, hasValue, value) ==
    Len(list) < TxtMax /\ list' = AddPair(list, key, hasValue, value)

ListNext == \E key \in TxtKeys, value \in TxtValues, hasValue \in BOOLEAN :
                (hasValue \/ value = NoValue) /\ PairAdded(key, hasValue, value)

\* What the wire keeps of a list: nothing of empty strings, the start of long ones
Kept(l) ==
    LET cut == [k \in DOMAIN l |-> SubSeq(l[k], 1, Shorter(Len(l[k]), StringMax))]
    IN SelectSeq(cut, LAMBDA s : s # <<>>)

\* The size computed first is the size written, and what is read back is the
\* list in its order; a pair is found by its key, the newest first.
ListsSurvive ==
    /\ Len(Serialize(list, SerializedSize(list))) = SerializedSize(list)
    /\ ParseList(Serialize(list, SerializedSize(list))) = [ok |-> TRUE, list |-> Kept(list)]
    /\ CopyList(list) = list
    /\ \A size \in 1..SerializedSize(list) : ParseList(Serialize(list, size)).ok
    /\ \A k \in DOMAIN list :
          LET p == GetPair(list[k])
              f == Find(list, p.key)
          IN f \in 1..k /\ SameLetters(GetPair(list[f]).key, p.key)

=============================================================================
