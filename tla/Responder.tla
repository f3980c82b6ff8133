------------------------------ MODULE Responder ------------------------------
(***************************************************************************)
(* How the server answers on one interface (avahi-core/server.c): packets  *)
(* are checked and read section by section, the records they ask for are   *)
(* collected in the server's one record list (rrlist.c), and the list is   *)
(* worked off: multicast by way of the response scheduler, or unicast in   *)
(* as many packets as it takes.                                            *)
(*                                                                         *)
(* Whether the scheduler takes a record is a choice here (see              *)
(* ResponseSched), as is what a probe or a response does to the entries    *)
(* (see EntryGroup and Records).  The cache and the query scheduler also   *)
(* listen to these packets (see RecordBrowser and QuerySched); the         *)
(* reflector is off by default and left out.                               *)
(***************************************************************************)
EXTENDS Naturals, FiniteSets, Sequences, SequencesExt

CONSTANTS
    OwnList,            \* the records of the entries, in the order of s->entries
    NameOf, TypeOf,     \* their keys
    TargetOf,           \* the name a PTR, SRV or CNAME record refers to
    UniqueRecords,      \* those with AVAHI_PUBLISH_UNIQUE
    GroupRecords,       \* those that are withdrawn together
    SizeOf,             \* the bytes a record takes in a packet
    ReplySpace,         \* room in a packet of the interface's MTU, ...
    LegacySpace,        \* ... and of 512 bytes behind the questions
    InPackets,          \* the packets that arrive
    NoPacket

OwnRecords == ToSet(OwnList)

ASSUME ResponderAssumption ==
    /\ OwnList \in Seq(OwnRecords)
    /\ UniqueRecords \subseteq OwnRecords /\ GroupRecords \subseteq OwnRecords
    /\ SizeOf \in [OwnRecords -> Nat] /\ ReplySpace \in Nat /\ LegacySpace \in Nat
    /\ NoPacket \notin InPackets
    /\ \A p \in InPackets :
         /\ Len(p.questions) \in Nat
         /\ \A k \in 1..Len(p.questions) : p.questions[k].unicast \in BOOLEAN

VARIABLES
    registered,     \* the records avahi_entry_is_registered() on the interface
    rlist,          \* s->record_list
    job,            \* pc: the section being read, "generate" or "idle"; packet; n: how
                    \* much of the section is read; immediately
    reply,          \* the unicast reply being filled
    done            \* asked: <<record, unicast_response>> of the answers looked for;
                    \* posted: <<record, immediately>> scheduled; refused; sent: replies

responderVars == <<registered, rlist, job, reply, done>>

\* avahi_record_list_is_empty() does not look at all_flush_cache.
ListEmpty(l) == l.unread = <<>> /\ l.read = {}
EmptyList == [unread |-> <<>>, read |-> {}, allFlush |-> TRUE]
NoReply == [open |-> FALSE, recs |-> <<>>, space |-> 0]
NothingDone == [asked |-> {}, posted |-> {}, refused |-> {}, sent |-> <<>>]
Idle == [pc |-> "idle", packet |-> NoPacket, n |-> 0, immediately |-> FALSE]

ResponderInit ==
    /\ registered \in SUBSET OwnRecords
    /\ rlist = EmptyList /\ job = Idle /\ reply = NoReply /\ done = NothingDone

-----------------------------------------------------------------------------
(* The record list: a stack, which remembers what was taken from it.       *)

Waiting(l) == {item.rec : item \in ToSet(l.unread)}

Push(l, r, unicast, aux) ==
    IF r \in l.read \union Waiting(l) THEN l
    ELSE [l EXCEPT !.unread = <<[rec |-> r, unicast |-> unicast, aux |-> aux]>> \o @,
                   !.allFlush = @ /\ r \in UniqueRecords]

PushAll(l, rs, unicast, aux) ==
    FoldLeft(LAMBDA m, r : IF r \in rs THEN Push(m, r, unicast, aux) ELSE m, l, OwnList)

Drop(l, r) ==
    [l EXCEPT !.read = @ \ {r},
       !.unread = IF r \in Waiting(l) THEN RemoveAt(@, CHOOSE k \in DOMAIN @ : @[k].rec = r)
                  ELSE @]

TakeNext(l) == [l EXCEPT !.unread = Tail(@), !.read = @ \union {Head(l.unread).rec}]

-----------------------------------------------------------------------------
(* Which records answer a question, and which are sent along with one      *)

WithKey(name, types) == {r \in registered : NameOf[r] = name /\ TypeOf[r] \in types}
KeyTypes(type) == IF type = "any" THEN {TypeOf[r] : r \in OwnRecords} ELSE {type}

Matching(key) == WithKey(key[1], KeyTypes(key[2]))
CnamesFor(key) == IF key[2] \in {"cname", "any"} THEN {} ELSE WithKey(key[1], {"cname"})

\* avahi_server_prepare_matching_responses()
PrepareMatching(l, key, unicast) ==
    PushAll(PushAll(l, Matching(key), unicast, FALSE), CnamesFor(key), unicast, FALSE)

\* enum_aux_records() of the two types, or of all, a record makes one ask for next
AppendAux(l, r, unicast) ==
    LET aux(m, types) == PushAll(m, WithKey(TargetOf[r], types), unicast, TRUE)
    IN  CASE TypeOf[r] = "ptr" -> aux(aux(l, {"srv"}), {"txt"})
          [] TypeOf[r] = "srv" -> aux(aux(l, {"a"}), {"aaaa"})
          [] TypeOf[r] = "cname" -> aux(l, KeyTypes("any"))
          [] OTHER -> l

-----------------------------------------------------------------------------
(* The packets                                                             *)

\* dispatch_packet() throws the others away unread.  valid: the interface announces
\* and the header is that of multicast DNS; near: TTL and address are of this link.
Accepted(p) ==
    /\ p.port # "none" /\ p.valid
    /\ IF p.query THEN p.port # "mdns" => p.known = <<>> /\ p.probes = <<>>
       ELSE p.port = "mdns" /\ p.near /\ p.questions = <<>> /\ p.known # <<>> /\ p.probes = <<>>

Legacy(p) == p # NoPacket /\ p.query /\ p.port # "mdns"

Receive(p) ==
    /\ job.pc = "idle" /\ Accepted(p)
    /\ job' = [pc |-> IF p.query THEN "questions" ELSE "answers", packet |-> p, n |-> 0,
               immediately |-> ~ p.query \/ p.probes # <<>>]
    /\ done' = NothingDone
    /\ UNCHANGED <<registered, rlist, reply>>

Refuse(p) == job.pc = "idle" /\ ~ Accepted(p) /\ UNCHANGED responderVars

Section ==
    CASE job.pc = "questions" -> job.packet.questions
      [] job.pc \in {"known", "answers"} -> job.packet.known
      [] job.pc = "probes" -> job.packet.probes
      [] OTHER -> <<>>
Reads(pc) == job.pc = pc /\ job.n < Len(Section) /\ job' = [job EXCEPT !.n = @ + 1]
Item == Section[job.n + 1]

ReadQuestion ==
    /\ Reads("questions")
    /\ rlist' = PrepareMatching(rlist, Item.key, Item.unicast)
    /\ done' = [done EXCEPT !.asked = @ \union
                  ((Matching(Item.key) \union CnamesFor(Item.key)) \X {Item.unicast})]
    /\ UNCHANGED <<registered, reply>>

\* Known answer suppression, in the list and, see ResponseSched, in the scheduler.
ReadKnown ==
    /\ Reads("known")
    /\ rlist' = Drop(rlist, Item)
    /\ done' = [done EXCEPT !.asked = {a \in @ : a[1] # Item}]
    /\ UNCHANGED <<registered, reply>>

\* incoming_probe(), which may lose: the list keeps what is withdrawn.
ReadProbe ==
    /\ Reads("probes")
    /\ registered' \in {registered, registered \ GroupRecords}
    /\ UNCHANGED <<rlist, reply, done>>

\* handle_conflict(): a record of ours with a bad TTL is sent again; one that is in
\* conflict returns to probing or is withdrawn.
ReadAnswer ==
    /\ Reads("answers")
    /\ \/ rlist' = PrepareMatching(rlist, Item, FALSE) /\ UNCHANGED registered
       \/ /\ registered' \in {registered, registered \ Matching(Item), registered \ GroupRecords}
          /\ UNCHANGED rlist
    /\ UNCHANGED <<reply, done>>

\* The end of a section: an item that cannot be read ends a query for good and a
\* response early; then what was found is sent.
Unreadable == job.packet.broken = job.pc /\ job.packet.query
Followed ==
    CASE job.pc = "questions" /\ ~ Legacy(job.packet) -> "known"
      [] job.pc = "known" -> "probes"
      [] OTHER -> IF ListEmpty(rlist) THEN "idle" ELSE "generate"

SectionRead ==
    /\ job.pc \in {"questions", "known", "probes", "answers"} /\ job.n = Len(Section)
    /\ IF Unreadable
       THEN job' = Idle /\ rlist' = EmptyList /\ done' = NothingDone
       ELSE /\ job' = [job EXCEPT !.pc = Followed, !.n = 0]
            /\ UNCHANGED <<rlist, done>>
    /\ UNCHANGED <<registered, reply>>

\* The announcement of a record: with its whole RRset if it is unique.
Announcement(r) ==
    /\ job.pc = "idle" /\ r \in registered
    /\ rlist' = IF r \in UniqueRecords THEN PrepareMatching(rlist, <<NameOf[r], TypeOf[r]>>, FALSE)
                ELSE Push(rlist, r, FALSE, FALSE)
    /\ job' = [Idle EXCEPT !.pc = "generate"]
    /\ done' = NothingDone
    /\ UNCHANGED <<registered, reply>>

-----------------------------------------------------------------------------
(* avahi_server_generate_response()                                        *)

Used(recs) == FoldLeft(LAMBDA n, r : n + SizeOf[r], 0, recs)
Fits(rp, r) == Used(rp.recs) + SizeOf[r] <= rp.space
Append1(rp, r) == [rp EXCEPT !.recs = Append(@, r)]
NewReply(space) == [open |-> TRUE, recs |-> <<>>, space |-> space]

\* A reply for one record: in a packet of its own if it is too large for others.
\* The estimated size may be too small for that as well (own = FALSE).
FirstOf(r, own) ==
    CASE Fits(NewReply(ReplySpace), r) -> Append1(NewReply(ReplySpace), r)
      [] ~ Fits(NewReply(ReplySpace), r) /\ own -> Append1(NewReply(SizeOf[r]), r)
      [] OTHER -> NoReply

\* Mutant: the record that did not fit is left out of the packets that follow.
FillReplyOnce(rp, r, own) ==
    IF ~ rp.open THEN [reply |-> FirstOf(r, own), sent |-> <<>>]
    ELSE IF Fits(rp, r) THEN [reply |-> Append1(rp, r), sent |-> <<>>]
    ELSE [reply |-> NoReply, sent |-> <<rp.recs>>]

\* Into the open reply, or that one is sent and another one is begun.
FillReply(rp, r, own) ==
    IF ~ rp.open THEN [reply |-> FirstOf(r, own), sent |-> <<>>]
    ELSE IF Fits(rp, r) THEN [reply |-> Append1(rp, r), sent |-> <<>>]
    ELSE [reply |-> FirstOf(r, own), sent |-> <<rp.recs>>]

Generates == job.pc = "generate" /\ rlist.unread # <<>>

\* A legacy querier gets one packet; what does not fit is left out.
AnswerLegacy ==
    LET r == Head(rlist.unread).rec
        rp == IF reply.open THEN reply ELSE NewReply(LegacySpace)
    IN  /\ Generates /\ Legacy(job.packet)
        /\ rlist' = AppendAux(TakeNext(rlist), r, FALSE)
        /\ reply' = IF Fits(rp, r) THEN Append1(rp, r) ELSE rp
        /\ UNCHANGED <<registered, job, done>>

\* The scheduler takes the record, ...
AnswerMulticast ==
    LET item == Head(rlist.unread)
        truncated == job.packet # NoPacket /\ job.packet.tc
        immediately == \/ job.immediately
                       \/ /\ item.rec \in UniqueRecords /\ ~ truncated /\ ~ item.aux
                          /\ rlist.allFlush
    IN  /\ Generates /\ ~ Legacy(job.packet)
        /\ rlist' = TakeNext(rlist)
        /\ done' = [done EXCEPT !.posted = @ \union {<<item.rec, immediately>>}]
        /\ UNCHANGED <<registered, job, reply>>

\* ... or does not, since it was sent a moment ago.
AnswerUnicast(own) ==
    LET item == Head(rlist.unread)
        filled == FillReply(reply, item.rec, own)
    IN  /\ Generates /\ ~ Legacy(job.packet)
        /\ IF item.unicast
           THEN /\ rlist' = AppendAux(TakeNext(rlist), item.rec, TRUE)
                /\ reply' = filled.reply
                /\ done' = [done EXCEPT !.refused = @ \union {item.rec}, !.sent = @ \o filled.sent]
           ELSE /\ rlist' = TakeNext(rlist)
                /\ done' = [done EXCEPT !.refused = @ \union {item.rec}]
                /\ UNCHANGED reply
        /\ UNCHANGED <<registered, job>>

\* The last reply is sent and the list is flushed.
ListDone ==
    /\ job.pc = "generate" /\ rlist.unread = <<>>
    /\ job' = [job EXCEPT !.pc = "idle"]
    /\ done' = [done EXCEPT !.sent = IF reply.recs = <<>> THEN @ ELSE Append(@, reply.recs)]
    /\ rlist' = EmptyList /\ reply' = NoReply
    /\ UNCHANGED registered

\* Entries come and go between packets.
EntriesChange ==
    /\ job.pc = "idle" /\ registered' \in SUBSET OwnRecords
    /\ job' = Idle /\ done' = NothingDone
    /\ UNCHANGED <<rlist, reply>>

ResponderNext ==
    \/ \E p \in InPackets : Receive(p) \/ Refuse(p)
    \/ ReadQuestion \/ ReadKnown \/ ReadProbe \/ ReadAnswer \/ SectionRead
    \/ \E r \in OwnRecords : Announcement(r)
    \/ AnswerLegacy \/ AnswerMulticast \/ ListDone \/ EntriesChange
    \/ \E own \in BOOLEAN : AnswerUnicast(own)

ResponderSpec == ResponderInit /\ [][ResponderNext]_responderVars

-----------------------------------------------------------------------------
(* Once a packet is dealt with, everything it asked for and did not know was
   answered: scheduled, multicast a moment ago, or, where only unicast was asked
   for, in a reply, however many it took.  Only a record too large for the packets
   may be missing.  No record is sent twice, although records refer to each other
   in circles, and the list is empty for the next packet, as handle_query_packet()
   asserts. *)
QuestionsAnswered ==
    LET replied == FlattenSeq(done.sent)
        posted == {a[1] : a \in done.posted}
        full(r) ==
            IF Legacy(job.packet)
            THEN SizeOf[r] + Used(replied) > LegacySpace
            ELSE SizeOf[r] > ReplySpace
    IN  /\ IsInjective(replied) /\ posted \intersect ToSet(replied) = {}
        /\ reply.open => job.packet # NoPacket
        /\ job.pc = "idle" => ListEmpty(rlist) /\ ~ reply.open
        /\ job.pc = "idle" => \A a \in done.asked :
             \/ a[1] \in posted \union ToSet(replied) \/ full(a[1])
             \/ a[1] \in done.refused /\ <<a[1], FALSE>> \in done.asked

-----------------------------------------------------------------------------
(* The inductive invariant of module ServerProofs.                         *)

Reading == {"questions", "known", "probes", "answers"}
Items == [rec : OwnRecords, unicast : BOOLEAN, aux : BOOLEAN]
Lists == [unread : Seq(Items), read : SUBSET OwnRecords, allFlush : BOOLEAN]
Jobs == [pc : Reading \union {"generate", "idle"}, packet : InPackets \union {NoPacket},
         n : Nat, immediately : BOOLEAN]
Replies == [open : BOOLEAN, recs : Seq(OwnRecords), space : Nat]
Results == [asked : SUBSET (OwnRecords \X BOOLEAN), posted : SUBSET (OwnRecords \X BOOLEAN),
            refused : SUBSET OwnRecords, sent : Seq(Seq(OwnRecords))]

\* A list has no record twice, neither waiting nor taken already.
ListSound(l) ==
    /\ l \in Lists
    /\ \A i, j \in DOMAIN l.unread : l.unread[i].rec = l.unread[j].rec => i = j
    /\ \A k \in DOMAIN l.unread : l.unread[k].rec \notin l.read
OnList(l) == l.read \union Waiting(l)

\* The records in replies that were sent or will be, and those posted
Replied(d, rp) == FlattenSeq(d.sent) \o rp.recs
Posted(d) == {a[1] : a \in d.posted}
AskedFor(d, r) == <<r, TRUE>> \in d.asked \/ <<r, FALSE>> \in d.asked

\* What a record taken from the list has come to
Dealt(d, rp, r) ==
    \/ r \in Posted(d) \union ToSet(Replied(d, rp)) \/ SizeOf[r] > ReplySpace
    \/ r \in d.refused /\ (AskedFor(d, r) => <<r, FALSE>> \in d.asked)
DealtLegacy(rp, r) == r \in ToSet(rp.recs) \/ SizeOf[r] + Used(rp.recs) > LegacySpace

NothingYet(j, l, rp, d) ==
    /\ j.packet \in InPackets /\ l.read = {} /\ rp = NoReply
    /\ d.posted = {} /\ d.refused = {} /\ d.sent = <<>>

Generating(j, l, rp, d) ==
    /\ Posted(d) \union ToSet(Replied(d, rp)) \subseteq l.read
    /\ ~ rp.open => rp.recs = <<>>
    /\ j.packet = NoPacket => ~ rp.open /\ \A t \in ToSet(l.unread) : ~ t.unicast
    /\ IF Legacy(j.packet)
       THEN /\ d.posted = {} /\ d.sent = <<>>
            /\ rp.open => rp.space = LegacySpace
            /\ \A r \in l.read : DealtLegacy(rp, r)
       ELSE \A r \in l.read : Dealt(d, rp, r)

\* What was asked for is on the list until it is worked off, and nothing is multicast
\* without being asked for, while a query is read, or where only unicast is wanted.
AskedKept(l, d) == \A a \in d.asked : a[1] \in OnList(l)
MulticastAsked(l, d) ==
    \A t \in ToSet(l.unread) : ~ t.unicast => <<t.rec, FALSE>> \in d.asked
MulticastWanted(l, d) ==
    \A t \in ToSet(l.unread) : ~ t.unicast /\ AskedFor(d, t.rec) => <<t.rec, FALSE>> \in d.asked

Working(j, l, rp, d) ==
    /\ ListSound(l) /\ j \in Jobs /\ rp \in Replies /\ d \in Results /\ Used(rp.recs) \in Nat
    /\ IsInjective(Replied(d, rp)) /\ Posted(d) \intersect ToSet(Replied(d, rp)) = {}
    /\ j.pc # "idle" => AskedKept(l, d)
    /\ j.pc \in {"questions", "known", "probes"} => MulticastAsked(l, d)
    /\ j.pc \in {"answers", "generate"} => MulticastWanted(l, d)
    /\ j.pc \in Reading => NothingYet(j, l, rp, d)
    /\ j.pc = "generate" => Generating(j, l, rp, d)
    /\ j.pc = "idle" => rp = NoReply

ResponderIInv ==
    registered \in SUBSET OwnRecords /\ Working(job, rlist, reply, done) /\ QuestionsAnswered
=============================================================================
