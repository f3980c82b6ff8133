------------------------------ MODULE MCLibrary ------------------------------
(* The library below the protocol - the queue, the timers on top of it, the *)
(* threaded loop, names, string lists, records and packets - and the        *)
(* schedulers of questions and answers.  One of them moves in each          *)
(* behaviour, since they share no state; the others keep one initial state. *)
EXTENDS TimeEvents, SimplePoll, DnsPacket, ProbeTie, QuerySched, ResponseSched, TLC

CONSTANTS k1, k2, r1, r2    \* keys and records of the schedulers

VARIABLE part       \* what this behaviour is about

\* "_aa._tcp" and "_B\041._UDP", "a" and "A.\.a"
MCServiceTypes == {<<95, 97, 97, 46, 95, 116, 99, 112>>, <<95, 66, 92, 48, 52, 49, 46, 95, 85, 68, 80>>}
MCDomains == {<<97>>, <<65, 46, 92, 46, 97>>}

\* Keys "a", "A", "ab", ""; values "", "a", "=", "abc"
MCTxtKeys == {<<97>>, <<65>>, <<97, 98>>, <<>>}
MCTxtValues == {<<>>, <<97>>, <<61>>, <<97, 98, 99>>}

Key(name, type) == [name |-> name, class |-> ClassIN, type |-> type]
Record(name, type, ttl, data) == [key |-> Key(name, type), ttl |-> ttl, data |-> data]
Srv(port, name) == [priority |-> 0, weight |-> 1, port |-> port, name |-> name]

\* The records of the two probing hosts, by number: those of a service, which
\* are of two keys, and then the records of one key each
MCTieRecords ==
    LET A == <<97>>
        All(type, data) == [n \in DOMAIN data |-> Record(A, type, 120, data[n])]
    IN All(TypeSRV, <<Srv(1, A), Srv(2, A)>>) \o All(TypeTXT, << << <<97>> >>, << <<98>> >> >>) \o
       All(TypeTXT, << <<>>, << <<>> >>, << <<97>> >>, << <<97>>, <<98>> >>, << <<97, 98>> >> >>) \o
       All(TypeSRV, <<Srv(1, A), Srv(1, <<65>>), Srv(1, <<97, 46, 97>>), Srv(256, A)>>) \o
       All(TypeHINFO, <<[cpu |-> A, os |-> <<98>>], [cpu |-> A, os |-> <<>>],
                        [cpu |-> <<97, 97>>, os |-> <<98>>], [cpu |-> <<97, 97>>, os |-> <<>>]>>) \o
       All(5, << <<97>>, <<98>>, <<98, 46, 97>> >>) \o
       All(TypeA, << <<1, 1, 1, 2>>, <<2, 1, 1, 1>> >>) \o
       All(99, << <<1>>, <<1, 2>>, <<2>> >>)
MCRRsets == <<1..4, 5..9, 10..13, 14..17, 18..20, 21..22, 23..25>>
MCRecordKey(n) == MCTieRecords[n].key
MCValid(n) == RecordIsValid(MCTieRecords[n])
MCCompare(m, n) == RecordCmp(MCTieRecords[m], MCTieRecords[n])
MCAgree(m, n) == RecordEqualNoTtl(MCTieRecords[m], MCTieRecords[n])

\* "b", "a.b", "\.a.b", "c.a.b" and "\032.b", which no key buffer of 6 bytes holds
B == <<98>>
AB == <<97, 46, 98>>
DAB == <<92, 46, 97, 46, 98>>
CAB == <<99, 46, 97, 46, 98>>
SB == <<92, 48, 51, 50, 46, 98>>

MCKeyOffers == << <<Key(AB, TypePTR), FALSE>>, <<Key(DAB, TypeSRV), TRUE>>, <<Key(SB, TypeSRV), FALSE>> >>
MCRecordOffers ==
    << <<Record(B, TypePTR, 4500, CAB), FALSE, 0>>,
     <<Record(CAB, TypeSRV, 120, Srv(513, AB)), TRUE, 10>>,
     <<Record(AB, TypeTXT, 70000, << <<97>>, <<98, 99>> >>), TRUE, 0>>,
     <<Record(DAB, TypeA, 120, <<1, 2, 3, 4>>), FALSE, 10>>,
     <<Record(CAB, TypeHINFO, 5, [cpu |-> <<97>>, os |-> <<>>]), TRUE, 0>>,
     <<Record(AB, 99, 120, <<7>>), FALSE, 0>>,
     <<Record(SB, 5, 120, CAB), TRUE, 0>> >>
MCPacketSizes == {22 + 3 * k : k \in 0..24}

MCAnswersOf == k1 :> {"a", "b"} @@ k2 :> {"c", "large"}
MCAnswerSize == "a" :> 1 @@ "b" :> 2 @@ "c" :> 1 @@ "large" :> 3
MCAux == r1 :> {r2} @@ r2 :> {r1}

loopVars == <<heapVars, timeVars, pollVars>>
formatVars == <<text, list, probeTieVars, packetVars>>
schedVars == <<queryVars, responseVars>>
vars == <<part, loopVars, formatVars, schedVars>>

Init ==
    /\ part \in {"heap", "time", "poll", "names", "lists", "ties", "packets",
               "questions", "answers"}
    /\ HeapInit /\ TimeInit /\ PollInit
    /\ NamesInit /\ ListInit
    /\ QueryInit /\ ResponseInit
    /\ IF part = "ties" THEN TieInit
       ELSE /\ rrset = [h \in ProbeHosts |-> RRsets[1]]
            /\ heard = [h \in ProbeHosts |-> {}] /\ lost = [h \in ProbeHosts |-> {}]
    /\ IF part = "packets" THEN PacketInit ELSE packet = NewPacket(HeaderSize) /\ items = <<>>

\* Only the part named p moves: the variables of the others stay.
Only(p, others) == part = p /\ UNCHANGED part /\ UNCHANGED others

OnlyPoll == Only("poll", <<heapVars, timeVars, formatVars, schedVars>>)

Next ==
    \/ Only("heap", <<timeVars, pollVars, formatVars, schedVars>>) /\ HeapNext
    \/ Only("time", <<heapVars, pollVars, formatVars, schedVars>>) /\ TimeNext
    \/ OnlyPoll /\ PollNext
    \/ Only("names", <<loopVars, list, probeTieVars, packetVars, schedVars>>) /\ TypeByte
    \/ Only("lists", <<loopVars, text, probeTieVars, packetVars, schedVars>>) /\ ListNext
    \/ Only("ties", <<loopVars, text, list, packetVars, schedVars>>) /\ TieNext
    \/ Only("packets", <<loopVars, text, list, probeTieVars, schedVars>>) /\ PacketNext
    \/ Only("questions", <<loopVars, formatVars, responseVars>>) /\ QueryNext
    \/ Only("answers", <<loopVars, formatVars, queryVars>>) /\ ResponseNext

(* The helper thread runs and gets the mutex again and again although the   *)
(* application competes for it; whoever locks it unlocks it; a callback     *)
(* returns.                                                                 *)
Thread == OnlyPoll /\ LoopStep
App == OnlyPoll /\ AppUnlock
Callback == OnlyPoll /\ CallbackEnds

FairSpec == Init /\ [][Next]_vars /\ SF_vars(Thread) /\ WF_vars(App) /\ WF_vars(Callback)

\* What a function of domain.c, alternative.c, utf8.c or strlst.c writes, its
\* counterpart reads back, for every text and every list of the instance.
TextsSurvive ==
    /\ part = "names" => LabelsSurvive /\ NamesNormalise /\ ServiceNamesSurvive /\ AlternativesDiffer
    /\ part = "lists" => ListsSurvive

=============================================================================
