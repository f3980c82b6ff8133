-------------------------- MODULE EntryGroupProofs --------------------------
(* Proofs about publishing in the embedded stack, for any number of        *)
(* records, interfaces and events, and any choice of publishing flags.     *)
EXTENDS EntryGroup, TLAPS, FiniteSetTheorems

LEMMA PairFacts == \A p \in Pairs : p[1] \in Entries /\ p[2] \in Ifaces
  BY DEF Pairs

LEMMA PairsFinite == IsFiniteSet(Pairs) /\ Cardinality(Pairs) \in Nat
  BY GroupAssumption, FS_Product, FS_CardinalityType DEF Pairs

LEMMA SubsetFinite ==
    ASSUME NEW A \in SUBSET Pairs
    PROVE  IsFiniteSet(A) /\ Cardinality(A) \in Nat
           /\ Cardinality(A) <= Cardinality(Pairs)
  BY PairsFinite, FS_Subset, FS_CardinalityType

LEMMA ProbingFinite ==
    ASSUME NEW an
    PROVE  /\ IsFiniteSet(Probing(an)) /\ Cardinality(Probing(an)) \in Nat
           /\ Cardinality(Probing(an)) <= Cardinality(Pairs)
  BY SubsetFinite DEF Probing

\* What an unsigned counter does while it stays within its range.
LEMMA DecFacts ==
    ASSUME NEW n \in 1..(UintSize - 1)
    PROVE  Dec(n) = n - 1
  BY GroupAssumption DEF Dec

LEMMA PlusFacts ==
    ASSUME NEW n \in Nat, NEW k \in Nat, n + k < UintSize
    PROVE  Plus(n, k) = n + k
  BY GroupAssumption DEF Plus

\* A set of probing announcers that grows grows by what is new in it.
LEMMA Grows ==
    ASSUME NEW A \in SUBSET Pairs, NEW B \in SUBSET Pairs, A \subseteq B
    PROVE  /\ Cardinality(B) = Cardinality(A) + Cardinality(B \ A)
           /\ Cardinality(B \ A) \in Nat
  <1>1. B = A \cup (B \ A) /\ A \cap (B \ A) = {}
    OBVIOUS
  <1>2. IsFiniteSet(A) /\ IsFiniteSet(B \ A)
    BY SubsetFinite
  <1>3. /\ Cardinality(A) \in Nat /\ Cardinality(B \ A) \in Nat
    BY SubsetFinite
  <1>4. Cardinality(A \cup (B \ A)) = Cardinality(A) + Cardinality(B \ A)
                                      - Cardinality(A \cap (B \ A))
    BY <1>2, FS_Union
  <1>5. Cardinality(A \cap (B \ A)) = 0
    BY <1>1, FS_EmptySet
  <1>6. Cardinality(A \cup (B \ A)) = Cardinality(A) + Cardinality(B \ A)
    BY <1>3, <1>4, <1>5
  <1> QED
    BY <1>1, <1>3, <1>6

\* The counter and the announcers grow together.
LEMMA CounterGrows ==
    ASSUME IInv, NEW B \in SUBSET Pairs, Probing(ann) \subseteq B, alive
    PROVE  LET n == Plus(nProbing, Cardinality(B \ Probing(ann)))
           IN  /\ n \in 0..(UintSize - 1)
               /\ n >= Cardinality(B) /\ n <= MaxProbing + Cardinality(B)
  <1> DEFINE A == Probing(ann)
  <1>1. A \in SUBSET Pairs
    BY DEF Probing
  <1>2. /\ Cardinality(A) \in Nat /\ Cardinality(B) \in Nat
        /\ Cardinality(B) <= Cardinality(Pairs) /\ Cardinality(Pairs) \in Nat
    BY <1>1, SubsetFinite, PairsFinite
  <1>3. /\ Cardinality(B) = Cardinality(A) + Cardinality(B \ A)
        /\ Cardinality(B \ A) \in Nat
    BY <1>1, Grows
  <1>4. /\ nProbing >= Cardinality(A) /\ nProbing <= MaxProbing + Cardinality(A)
        /\ nProbing \in Nat
    BY GroupAssumption DEF IInv, CounterInv, TypeOK
  <1> HIDE DEF A
  <1>5. nProbing + Cardinality(B \ A) < UintSize
    BY <1>2, <1>3, <1>4, GroupAssumption
  <1>6. Plus(nProbing, Cardinality(B \ A)) = nProbing + Cardinality(B \ A)
    BY <1>3, <1>4, <1>5, PlusFacts
  <1>7. nProbing + Cardinality(B \ A) \in 0..(UintSize - 1)
    BY <1>3, <1>4, <1>5, GroupAssumption
  <1>8. /\ nProbing + Cardinality(B \ A) >= Cardinality(B)
        /\ nProbing + Cardinality(B \ A) <= MaxProbing + Cardinality(B)
    BY <1>2, <1>3, <1>4, GroupAssumption
  <1> QED
    BY <1>6, <1>7, <1>8 DEF A

LEMMA StartOverType ==
    ASSUME NEW s \in {"probing", "waiting", "announcing", "established"}
    PROVE  /\ StartOver(s) \in Announcers
           /\ StartOver(s).state = s /\ StartOver(s).n = 1
           /\ StartOver(s) # NoAnnouncer
  BY DEF StartOver, Announcers, NoAnnouncer

LEMMA NoAnnouncerType ==
    /\ NoAnnouncer \in Announcers /\ NoAnnouncer.state = "none"
  BY DEF NoAnnouncer, Announcers

LEMMA AnnouncedType ==
    ASSUME NEW a \in Announcers, a.n <= 3
    PROVE  /\ Announced(a) \in Announcers
           /\ Announced(a).state \in {"announcing", "established"}
           /\ Announced(a).state = "announcing" => Announced(a).n <= 3
  BY DEF Announced, Announcers

LEMMA InitialStateFacts ==
    ASSUME NEW e, NEW g
    PROVE  /\ InitialState(e, g) \in {"probing", "waiting", "announcing", "established"}
           /\ InitialState(e, g) = "probing" <=> NeedsProbe(e)
  BY DEF InitialState

\* check_probed() moves announcers from waiting to announcing, if any.
LEMMA CheckProbedFacts ==
    ASSUME TypeOK, NEW imm \in BOOLEAN, NEW np \in 0..(UintSize - 1),
           NEW an \in [Pairs -> Announcers], NEW pend \in BOOLEAN,
           CheckProbed(imm, np, an, pend)
    PROVE  /\ nProbing' = np
           /\ group' \in {"established", "registering"}
           /\ holdoff' \in BOOLEAN /\ (holdoff' => holdoff \/ pend)
           /\ ann' \in [Pairs -> Announcers]
           /\ \A p \in Pairs :
                \/ ann'[p] = an[p]
                \/ /\ an[p].state = "waiting"
                   /\ ann'[p].state = "announcing" /\ ann'[p].n <= 3
           /\ Probing(ann') = Probing(an)
  <1>1. ASSUME NEW a \in Announcers
        PROVE  /\ Released(a, imm) \in Announcers
               /\ a.state # "waiting" => Released(a, imm) = a
               /\ a.state = "waiting" => /\ Released(a, imm).state = "announcing"
                                         /\ Released(a, imm).n <= 3
    BY DEF Released, Announced, Announcers
  <1>2. CASE np # 0
    BY <1>2 DEF CheckProbed
  <1>3. CASE np = 0
    <2>1. ann' = [p \in Pairs |-> Released(an[p], imm)]
      BY <1>3 DEF CheckProbed
    <2>2. /\ ann' \in [Pairs -> Announcers]
          /\ \A p \in Pairs :
                \/ ann'[p] = an[p]
                \/ /\ an[p].state = "waiting"
                   /\ ann'[p].state = "announcing" /\ ann'[p].n <= 3
      BY <1>1, <2>1
    <2>3. Probing(ann') = Probing(an)
      BY <2>2 DEF Probing
    <2>4. nProbing' = np /\ group' = "established"
          /\ holdoff' \in BOOLEAN /\ (holdoff' => holdoff)
      BY <1>3 DEF CheckProbed, ChangeState, TypeOK
    <2> QED
      BY <2>2, <2>3, <2>4
  <1> QED
    BY <1>2, <1>3

\* The announcers made where there were none: those that probe are counted.
LEMMA WithAnnouncersFacts ==
    ASSUME TypeOK, NEW P \in SUBSET Pairs, NEW g
    PROVE  LET an == WithAnnouncers(P, g)
           IN  /\ an \in [Pairs -> Announcers]
               /\ \A p \in Pairs :
                    IF p \in Missing(P)
                    THEN /\ an[p].n = 1
                         /\ an[p].state = InitialState(p[1], g)
                    ELSE an[p] = ann[p]
               /\ Probing(ann) \subseteq Probing(an)
               /\ Cardinality(Probing(an) \ Probing(ann)) = NewProbing(P)
  <1> DEFINE an == WithAnnouncers(P, g)
  <1>0. Missing(P) \subseteq Pairs
        /\ \A p \in Missing(P) : ann[p] = NoAnnouncer
    BY DEF Missing
  <1>1. an \in [Pairs -> Announcers]
    BY StartOverType, InitialStateFacts DEF WithAnnouncers, TypeOK
  <1>2. ASSUME NEW p \in Pairs
        PROVE  IF p \in Missing(P)
               THEN an[p].n = 1 /\ an[p].state = InitialState(p[1], g)
               ELSE an[p] = ann[p]
    BY StartOverType, InitialStateFacts DEF WithAnnouncers
  <1> HIDE DEF an
  <1>3. \A p \in Missing(P) : ann[p].state # "probing"
    BY <1>0, NoAnnouncerType
  <1>4. Probing(an) \ Probing(ann) = {p \in Missing(P) : NeedsProbe(p[1])}
    BY <1>0, <1>2, <1>3, InitialStateFacts DEF Probing
  <1>5. Probing(ann) \subseteq Probing(an)
    BY <1>2, <1>3 DEF Probing
  <1> QED
    BY <1>1, <1>2, <1>4, <1>5 DEF an, NewProbing

LEMMA InitInv == Init => IInv
  <1> SUFFICES ASSUME Init PROVE IInv
    OBVIOUS
  <1> USE DEF Init
  <1>1. Probing(ann) = {} /\ \A p \in Pairs : ann[p].state = "none"
    BY NoAnnouncerType DEF Probing
  <1>2. TypeOK
    <2>1. 0 \in 0..(UintSize - 1) /\ 0 \in 0..MaxEvents
      BY GroupAssumption, PairsFinite
    <2>2. ann \in [Pairs -> Announcers] /\ probes \in [Pairs -> 0..3]
      BY NoAnnouncerType
    <2>3. nProbing \in 0..(UintSize - 1) /\ events \in 0..MaxEvents
      BY <2>1
    <2> QED
      BY <2>2, <2>3 DEF TypeOK
  <1>3. CounterInv
    <2>1. Cardinality(Probing(ann)) = 0
      BY <1>1, FS_EmptySet
    <2> QED
      BY <2>1, GroupAssumption DEF CounterInv
  <1>4. ProbeInv /\ LiveInv
    BY <1>1 DEF ProbeInv, LiveInv
  <1> QED
    BY <1>2, <1>3, <1>4 DEF IInv

\* An announcer exists only in a group that is alive.
LEMMA AnnouncerAlive ==
    ASSUME IInv, NEW p \in Pairs, ann[p].state # "none"
    PROVE  alive /\ p[1] \in live
  BY DEF IInv, LiveInv

LEMMA PostProbeInv ==
    ASSUME IInv, NEW p \in Pairs, PostProbe(p)
    PROVE  IInv'
  <1> USE DEF PostProbe
  <1>1. /\ ann[p] \in Announcers /\ ann[p].n \in 1..3 /\ ann[p].state = "probing"
        /\ probes[p] = ann[p].n - 1
    BY DEF IInv, TypeOK, ProbeInv, Announcers
  <1>2. /\ ann'[p] \in Announcers /\ ann'[p].state = "probing"
        /\ ann'[p].n = ann[p].n + 1 /\ probes'[p] = ann[p].n
        /\ \A q \in Pairs \ {p} : ann'[q] = ann[q] /\ probes'[q] = probes[q]
    BY <1>1 DEF IInv, TypeOK, Announcers
  <1>3. ann' \in [Pairs -> Announcers] /\ probes' \in [Pairs -> 0..3]
    BY <1>1, <1>2 DEF IInv, TypeOK
  <1>4. TypeOK'
    BY <1>3 DEF IInv, TypeOK
  <1>5. Probing(ann') = Probing(ann)
    BY <1>1, <1>2 DEF Probing
  <1>6. CounterInv'
    BY <1>5 DEF IInv, CounterInv
  <1>7. ProbeInv'
    BY <1>1, <1>2 DEF IInv, ProbeInv, NeedsProbe
  <1>8. LiveInv'
    BY <1>1, <1>2 DEF IInv, LiveInv
  <1> QED
    BY <1>4, <1>6, <1>7, <1>8 DEF IInv

LEMMA AnnounceInv ==
    ASSUME IInv, NEW p \in Pairs, Announce(p)
    PROVE  IInv'
  <1> USE DEF Announce
  <1>1. ann[p] \in Announcers /\ ann[p].n <= 3 /\ ann[p].state = "announcing"
    BY DEF IInv, TypeOK, ProbeInv
  <1>2. /\ ann' \in [Pairs -> Announcers]
        /\ ann'[p].state \in {"announcing", "established"}
        /\ ann'[p].state = "announcing" => ann'[p].n <= 3
        /\ \A q \in Pairs \ {p} : ann'[q] = ann[q]
    BY <1>1, AnnouncedType DEF IInv, TypeOK
  <1>3. TypeOK'
    BY <1>2 DEF IInv, TypeOK
  <1>4. Probing(ann') = Probing(ann)
    BY <1>1, <1>2 DEF Probing
  <1>5. CounterInv'
    BY <1>4 DEF IInv, CounterInv
  <1>6. ProbeInv'
    BY <1>1, <1>2 DEF IInv, ProbeInv, NeedsProbe
  <1>7. LiveInv'
    BY <1>1, <1>2 DEF IInv, LiveInv
  <1> QED
    BY <1>3, <1>5, <1>6, <1>7 DEF IInv

\* The end of probing: three probes were posted, the counter is not 0.
LEMMA ProbingDoneInv ==
    ASSUME IInv, NEW p \in Pairs, ProbingDone(p)
    PROVE  IInv'
  <1>1. /\ ann[p] \in Announcers /\ ann[p].state = "probing" /\ probes[p] = 3
        /\ alive /\ p[1] \in live
    BY AnnouncerAlive DEF ProbingDone, IInv, TypeOK, ProbeInv, Announcers
  <1> DEFINE A == Probing(ann)
  <1>2. /\ p \in A /\ A \in SUBSET Pairs
    BY <1>1 DEF Probing
  <1>3. /\ Cardinality(A \ {p}) = Cardinality(A) - 1
        /\ Cardinality(A) \in Nat /\ Cardinality(A \ {p}) \in Nat
    BY <1>2, SubsetFinite, FS_RemoveElement
  <1> HIDE DEF A
  <1>4. nProbing \in 1..(UintSize - 1)
        /\ nProbing >= Cardinality(A) /\ nProbing <= MaxProbing + Cardinality(A)
    BY <1>1, <1>3, GroupAssumption DEF IInv, TypeOK, CounterInv, A
  <1>5. Dec(nProbing) = nProbing - 1 /\ Dec(nProbing) \in 0..(UintSize - 1)
    BY <1>4, DecFacts, GroupAssumption
  <1>6. UNCHANGED <<alive, tried, live, flags, up, probes, events>>
    BY DEF ProbingDone
  <1>7. /\ nProbing' = Dec(nProbing)
        /\ ann' \in [Pairs -> Announcers]
        /\ holdoff' \in BOOLEAN /\ (holdoff' => holdoff)
        /\ group' \in {"uncommitted", "registering", "established", "collision"}
        /\ ann'[p].state \in {"waiting", "announcing", "established"}
        /\ ann'[p].state = "announcing" => ann'[p].n <= 3
        /\ \A q \in Pairs \ {p} :
              \/ ann'[q] = ann[q]
              \/ /\ ann[q].state = "waiting"
                 /\ ann'[q].state = "announcing" /\ ann'[q].n <= 3
    <2>1. CASE group = "registering"
      <3> DEFINE an == [ann EXCEPT ![p].state = "waiting", ![p].timer = FALSE]
      <3>1. /\ an \in [Pairs -> Announcers] /\ an[p].state = "waiting"
            /\ \A q \in Pairs \ {p} : an[q] = ann[q]
        BY <1>1 DEF IInv, TypeOK, Announcers
      <3>2. CheckProbed(TRUE, Dec(nProbing), an, holdoff)
        BY <2>1 DEF ProbingDone
      <3> HIDE DEF an
      <3>3. holdoff \in BOOLEAN /\ TypeOK
        BY DEF IInv, TypeOK
      <3>4. /\ nProbing' = Dec(nProbing)
            /\ group' \in {"established", "registering"}
            /\ holdoff' \in BOOLEAN /\ (holdoff' => holdoff)
            /\ ann' \in [Pairs -> Announcers]
            /\ \A q \in Pairs :
                \/ ann'[q] = an[q]
                \/ /\ an[q].state = "waiting"
                   /\ ann'[q].state = "announcing" /\ ann'[q].n <= 3
        BY <1>5, <3>1, <3>2, <3>3, CheckProbedFacts
      <3> QED
        BY <3>1, <3>4
    <2>2. CASE group # "registering"
      <3>1. /\ nProbing' = Dec(nProbing) /\ UNCHANGED <<group, holdoff>>
            /\ ann' = [ann EXCEPT ![p] = Announced(StartOver("announcing"))]
        BY <2>2 DEF ProbingDone
      <3>2. /\ Announced(StartOver("announcing")) \in Announcers
            /\ Announced(StartOver("announcing")).state \in {"announcing", "established"}
            /\ Announced(StartOver("announcing")).state = "announcing"
                  => Announced(StartOver("announcing")).n <= 3
        BY StartOverType, AnnouncedType
      <3> QED
        BY <3>1, <3>2 DEF IInv, TypeOK
    <2> QED
      BY <2>1, <2>2
  <1>8. TypeOK'
    BY <1>5, <1>6, <1>7 DEF IInv, TypeOK
  <1>9. Probing(ann') = A \ {p}
    BY <1>7 DEF Probing, A
  <1>10. CounterInv'
    BY <1>3, <1>4, <1>5, <1>7, <1>9, GroupAssumption DEF CounterInv
  <1>11. ProbeInv'
    BY <1>1, <1>6, <1>7 DEF IInv, ProbeInv, NeedsProbe
  <1>12. LiveInv'
    BY <1>1, <1>6, <1>7 DEF IInv, LiveInv
  <1> QED
    BY <1>8, <1>10, <1>11, <1>12 DEF IInv

LEMMA AddEntryInv ==
    ASSUME IInv, NEW e \in Entries, NEW f \in FlagChoices, AddEntry(e, f)
    PROVE  IInv'
  <1> USE DEF AddEntry
  <1>1. TypeOK' /\ CounterInv'
    BY DEF IInv, TypeOK, CounterInv
  <1>2. LiveInv'
    BY DEF IInv, LiveInv
  <1>3. ProbeInv'
    <2> SUFFICES ASSUME NEW p \in Pairs, ann[p].state # "none",
                        NeedsProbe(p[1])' # NeedsProbe(p[1])
                 PROVE  FALSE
      BY DEF IInv, ProbeInv
    <2>1. p[1] \in Entries /\ p[1] \in live
      BY PairFacts DEF IInv, LiveInv
    <2>2. flags'[p[1]] = flags[p[1]]
      BY <2>1 DEF IInv, TypeOK
    <2> QED
      BY <2>2 DEF NeedsProbe
  <1> QED
    BY <1>1, <1>2, <1>3 DEF IInv

\* entry_group_commit_real() on a group that is alive.
LEMMA CommitRealInv ==
    ASSUME IInv, alive, CommitReal
    PROVE  IInv'
  <1> DEFINE P == live \X up
             an == WithAnnouncers(P, "registering")
             np == Plus(nProbing, NewProbing(P))
  <1>0. /\ CheckProbed(FALSE, np, an, FALSE)
        /\ probes' = [p \in Pairs |-> IF p \in Missing(P) THEN 0 ELSE probes[p]]
        /\ tried' = TRUE
        /\ UNCHANGED <<alive, live, flags, up, events>>
    BY DEF CommitReal
  <1>1. P \in SUBSET Pairs /\ \A p \in P : p[1] \in live
    BY DEF IInv, TypeOK, Pairs
  <1>2. Missing(P) \subseteq P
    BY DEF Missing
  <1> HIDE DEF P
  <1>3. /\ an \in [Pairs -> Announcers]
        /\ \A p \in Pairs :
              IF p \in Missing(P)
              THEN an[p].n = 1 /\ an[p].state = InitialState(p[1], "registering")
              ELSE an[p] = ann[p]
        /\ Probing(ann) \subseteq Probing(an)
        /\ Cardinality(Probing(an) \ Probing(ann)) = NewProbing(P)
    BY <1>1, WithAnnouncersFacts DEF IInv
  <1> HIDE DEF an
  <1>4. /\ np \in 0..(UintSize - 1)
        /\ np >= Cardinality(Probing(an))
        /\ np <= MaxProbing + Cardinality(Probing(an))
    <2>1. Probing(an) \in SUBSET Pairs
      BY DEF Probing
    <2> QED
      BY <2>1, <1>3, CounterGrows
  <1> HIDE DEF np
  <1>5. /\ nProbing' = np
        /\ group' \in {"established", "registering"}
        /\ holdoff' \in BOOLEAN /\ (holdoff' => holdoff)
        /\ ann' \in [Pairs -> Announcers]
        /\ \A p \in Pairs :
             \/ ann'[p] = an[p]
             \/ /\ an[p].state = "waiting"
                /\ ann'[p].state = "announcing" /\ ann'[p].n <= 3
        /\ Probing(ann') = Probing(an)
    BY <1>0, <1>3, <1>4, CheckProbedFacts DEF IInv
  <1>6. probes' \in [Pairs -> 0..3]
    BY <1>0 DEF IInv, TypeOK
  <1>7. TypeOK'
    BY <1>0, <1>4, <1>5, <1>6 DEF IInv, TypeOK
  <1>8. CounterInv'
    BY <1>4, <1>5 DEF CounterInv
  <1>9. ASSUME NEW p \in Pairs
        PROVE  /\ an[p].state = "probing" => an[p].n \in 1..4 /\ probes'[p] = an[p].n - 1
               /\ an[p].state = "announcing" => an[p].n <= 3
               /\ an[p].state \in {"waiting", "announcing", "established"}
                     /\ NeedsProbe(p[1]) => probes'[p] = 3
               /\ an[p].state # "none" => p[1] \in live
    <2>1. CASE p \in Missing(P)
      BY <2>1, <1>0, <1>1, <1>2, <1>3, InitialStateFacts
    <2>2. CASE p \notin Missing(P)
      BY <2>2, <1>0, <1>3 DEF IInv, ProbeInv, LiveInv
    <2> QED
      BY <2>1, <2>2
  <1>10. \A e : NeedsProbe(e)' = NeedsProbe(e)
    BY <1>0 DEF NeedsProbe
  <1>11. ProbeInv'
    BY <1>5, <1>9, <1>10 DEF ProbeInv
  <1>12. LiveInv'
    BY <1>0, <1>5, <1>9 DEF LiveInv, IInv
  <1> QED
    BY <1>7, <1>8, <1>11, <1>12 DEF IInv

LEMMA CommitHeldOffInv == IInv /\ CommitHeldOff => IInv'
  BY DEF CommitHeldOff, CanCommit, IInv, TypeOK, CounterInv, ProbeInv, LiveInv,
         NeedsProbe

\* Once every entry is withdrawn nothing probes and nothing is announced.
LEMMA AllWithdrawnFacts ==
    ASSUME TypeOK, AllWithdrawn
    PROVE  /\ ann' \in [Pairs -> Announcers] /\ probes' \in [Pairs -> 0..3]
           /\ live' \in SUBSET Entries
           /\ Cardinality(Probing(ann')) = 0
           /\ ProbeInv'
           /\ \A p \in Pairs : ann'[p].state = "none"
  <1>1. \A p \in Pairs : ann'[p].state = "none"
    BY NoAnnouncerType DEF AllWithdrawn
  <1>2. Probing(ann') = {}
    BY <1>1 DEF Probing
  <1>3. Cardinality(Probing(ann')) = 0
    BY <1>2, FS_EmptySet
  <1> QED
    BY <1>1, <1>3, NoAnnouncerType DEF AllWithdrawn, ProbeInv

LEMMA ZeroCounter == 0 \in 0..(UintSize - 1) /\ MaxProbing >= 0
  BY GroupAssumption, PairsFinite

LEMMA ResetInv == IInv /\ Reset => IInv'
  <1> SUFFICES ASSUME IInv, Reset PROVE IInv'
    OBVIOUS
  <1> USE DEF Reset, ChangeState
  <1>1. TypeOK'
    BY AllWithdrawnFacts, ZeroCounter DEF IInv, TypeOK
  <1>2. CounterInv'
    BY AllWithdrawnFacts, GroupAssumption DEF IInv, CounterInv
  <1>3. ProbeInv' /\ LiveInv'
    BY AllWithdrawnFacts DEF IInv, LiveInv
  <1> QED
    BY <1>1, <1>2, <1>3 DEF IInv

LEMMA FreeInv == IInv /\ Free => IInv'
  <1> SUFFICES ASSUME IInv, Free PROVE IInv'
    OBVIOUS
  <1> USE DEF Free
  <1>1. TypeOK'
    BY AllWithdrawnFacts DEF IInv, TypeOK
  <1>2. CounterInv'
    BY DEF CounterInv
  <1>3. ProbeInv' /\ LiveInv'
    BY AllWithdrawnFacts DEF IInv, LiveInv, AllWithdrawn
  <1> QED
    BY <1>1, <1>2, <1>3 DEF IInv

LEMMA NewInv == IInv /\ New => IInv'
  <1> SUFFICES ASSUME IInv, New PROVE IInv'
    OBVIOUS
  <1> USE DEF New
  <1>1. TypeOK'
    BY ZeroCounter DEF IInv, TypeOK
  <1>2. Probing(ann) = {}
    BY DEF IInv, LiveInv, Probing
  <1>3. Cardinality(Probing(ann')) = 0
    BY <1>2, FS_EmptySet
  <1>4. CounterInv'
    BY <1>3, GroupAssumption DEF CounterInv
  <1>5. ProbeInv' /\ LiveInv'
    BY DEF IInv, ProbeInv, LiveInv, NeedsProbe
  <1> QED
    BY <1>1, <1>4, <1>5 DEF IInv

LEMMA ConflictProbingInv ==
    ASSUME IInv, NEW p \in Pairs, ConflictProbing(p)
    PROVE  IInv'
  <1> USE DEF ConflictProbing, Withdraw, ChangeState
  <1>0. alive
    BY AnnouncerAlive DEF IsProbing
  <1>1. events' \in 0..MaxEvents
    BY GroupAssumption DEF IInv, TypeOK
  <1>2. TypeOK'
    BY <1>1, AllWithdrawnFacts, ZeroCounter DEF IInv, TypeOK
  <1>3. CounterInv'
    BY AllWithdrawnFacts, GroupAssumption DEF IInv, CounterInv
  <1>4. ProbeInv' /\ LiveInv'
    BY <1>0, AllWithdrawnFacts DEF IInv, LiveInv
  <1> QED
    BY <1>2, <1>3, <1>4 DEF IInv

\* What a reannounced announcer is: one that probes starts its probes again.
LEMMA ReannouncedFacts ==
    ASSUME NEW e, NEW a \in Announcers
    PROVE  LET b == Reannounced(e, a)
           IN  /\ b \in Announcers
               /\ a.state = "none" <=> b.state = "none"
               /\ b.state = "probing" => b.n = 1
               /\ a.state = "probing" => b.state = "probing"
               /\ b.state = "announcing" => b.n <= 3
               /\ NeedsProbe(e) /\ b.state \in {"waiting", "announcing", "established"}
                    => a.state \in {"announcing", "established"}
  BY DEF Reannounced, StartOver, Announcers

LEMMA UpdateInv ==
    ASSUME IInv, NEW e \in Entries, Update(e)
    PROVE  IInv'
  <1> USE DEF Update
  <1>1. /\ ann' \in [Pairs -> Announcers]
        /\ \A p \in Pairs :
              ann'[p] = IF p[1] = e THEN Reannounced(e, ann[p]) ELSE ann[p]
    BY ReannouncedFacts DEF IInv, TypeOK
  <1>2. \A p \in Pairs : ann[p] \in Announcers
    BY DEF IInv, TypeOK
  <1>3. Probing(ann) \subseteq Probing(ann') /\ Probing(ann') \in SUBSET Pairs
    BY <1>1, <1>2, ReannouncedFacts DEF Probing
  <1>4. /\ nProbing' \in 0..(UintSize - 1)
        /\ nProbing' >= Cardinality(Probing(ann'))
        /\ nProbing' <= MaxProbing + Cardinality(Probing(ann'))
    BY <1>3, CounterGrows
  <1>5. events' \in 0..MaxEvents
    BY GroupAssumption DEF IInv, TypeOK
  <1>6. probes' \in [Pairs -> 0..3]
    BY DEF IInv, TypeOK
  <1>7. TypeOK'
    BY <1>1, <1>4, <1>5, <1>6 DEF IInv, TypeOK
  <1>8. CounterInv'
    BY <1>4 DEF CounterInv
  <1>9. ProbeInv'
    <2> SUFFICES ASSUME NEW p \in Pairs
                 PROVE  /\ ann'[p].state = "probing" => ann'[p].n \in 1..4 /\ probes'[p] = ann'[p].n - 1
                        /\ ann'[p].state = "announcing" => ann'[p].n <= 3
                        /\ ann'[p].state \in {"waiting", "announcing", "established"}
                              /\ NeedsProbe(p[1]) => probes'[p] = 3
      BY DEF ProbeInv, NeedsProbe
    <2>1. CASE p[1] # e
      <3>1. ann'[p] = ann[p] /\ probes'[p] = probes[p]
        BY <1>1, <2>1
      <3> QED
        BY <3>1 DEF IInv, ProbeInv
    <2>2. CASE p[1] = e /\ ann'[p].state = "probing"
      <3>1. probes'[p] = 0 /\ ann'[p].n = 1
        BY <1>1, <1>2, <2>2, ReannouncedFacts
      <3> QED
        BY <2>2, <3>1
    <2>3. CASE p[1] = e /\ ann'[p].state # "probing"
      <3>1. probes'[p] = probes[p] /\ ann'[p] = Reannounced(p[1], ann[p])
        BY <1>1, <2>3
      <3> QED
        BY <1>2, <2>3, <3>1, ReannouncedFacts DEF IInv, ProbeInv
    <2> QED
      BY <2>1, <2>2, <2>3
  <1>10. LiveInv'
    BY <1>1, <1>2, ReannouncedFacts DEF IInv, LiveInv
  <1> QED
    BY <1>7, <1>8, <1>9, <1>10 DEF IInv

LEMMA InterfaceUpInv ==
    ASSUME IInv, NEW i \in Ifaces, InterfaceUp(i)
    PROVE  IInv'
  <1> DEFINE P == IF IsCommited(group) THEN live \X {i} ELSE {}
  <1>0. /\ ann' = WithAnnouncers(P, group)
        /\ nProbing' = Plus(nProbing, NewProbing(P))
        /\ probes' = [p \in Pairs |-> IF p \in Missing(P) THEN 0 ELSE probes[p]]
        /\ up' = up \cup {i} /\ events' = events + 1 /\ events < MaxEvents
        /\ UNCHANGED <<alive, group, holdoff, tried, live, flags>>
    BY DEF InterfaceUp
  <1>1. P \in SUBSET Pairs /\ (\A p \in P : p[1] \in live) /\ (live = {} => P = {})
    BY DEF IInv, TypeOK, Pairs
  <1>2. Missing(P) \subseteq P
    BY DEF Missing
  <1> HIDE DEF P
  <1>3. /\ ann' \in [Pairs -> Announcers]
        /\ \A p \in Pairs :
              IF p \in Missing(P)
              THEN ann'[p].n = 1 /\ ann'[p].state = InitialState(p[1], group)
              ELSE ann'[p] = ann[p]
        /\ Probing(ann) \subseteq Probing(ann')
        /\ Cardinality(Probing(ann') \ Probing(ann)) = NewProbing(P)
    BY <1>0, <1>1, WithAnnouncersFacts DEF IInv
  <1>4. /\ nProbing' \in 0..(UintSize - 1)
        /\ alive => /\ nProbing' >= Cardinality(Probing(ann'))
                    /\ nProbing' <= MaxProbing + Cardinality(Probing(ann'))
    <2>1. CASE alive
      <3>1. Probing(ann') \in SUBSET Pairs
        BY DEF Probing
      <3> QED
        BY <2>1, <3>1, <1>0, <1>3, CounterGrows
    <2>2. CASE ~alive
      <3>1. {p \in Missing(P) : NeedsProbe(p[1])} = {}
        BY <2>2, <1>1, <1>2 DEF IInv, LiveInv
      <3>2. NewProbing(P) = 0
        BY <3>1, FS_EmptySet DEF NewProbing
      <3>3. nProbing' = nProbing
        BY <3>2, <1>0, PlusFacts, GroupAssumption DEF IInv, TypeOK
      <3> QED
        BY <2>2, <3>3 DEF IInv, TypeOK
    <2> QED
      BY <2>1, <2>2
  <1>5. events' \in 0..MaxEvents
    BY <1>0, GroupAssumption DEF IInv, TypeOK
  <1>6. probes' \in [Pairs -> 0..3]
    BY <1>0 DEF IInv, TypeOK
  <1>7. TypeOK'
    BY <1>0, <1>3, <1>4, <1>5, <1>6 DEF IInv, TypeOK
  <1>8. CounterInv'
    BY <1>0, <1>4 DEF CounterInv
  <1>9. \A e : NeedsProbe(e)' = NeedsProbe(e)
    BY <1>0 DEF NeedsProbe
  <1>10. ProbeInv'
    <2> SUFFICES ASSUME NEW p \in Pairs
                 PROVE  /\ ann'[p].state = "probing" => ann'[p].n \in 1..4 /\ probes'[p] = ann'[p].n - 1
                        /\ ann'[p].state = "announcing" => ann'[p].n <= 3
                        /\ ann'[p].state \in {"waiting", "announcing", "established"}
                              /\ NeedsProbe(p[1]) => probes'[p] = 3
      BY <1>9 DEF ProbeInv
    <2>1. CASE p \in Missing(P)
      BY <2>1, <1>0, <1>3, InitialStateFacts
    <2>2. CASE p \notin Missing(P)
      BY <2>2, <1>0, <1>3 DEF IInv, ProbeInv
    <2> QED
      BY <2>1, <2>2
  <1>11. LiveInv'
    BY <1>0, <1>1, <1>2, <1>3 DEF IInv, LiveInv
  <1> QED
    BY <1>7, <1>8, <1>10, <1>11 DEF IInv

\* The announcers that go with an interface stay counted, within the bound.
LEMMA InterfaceDownInv ==
    ASSUME IInv, NEW i \in Ifaces, InterfaceDown(i)
    PROVE  IInv'
  <1> USE DEF InterfaceDown, WithoutInterface
  <1>1. ann' \in [Pairs -> Announcers] /\ probes' \in [Pairs -> 0..3]
    BY NoAnnouncerType DEF IInv, TypeOK
  <1>2. \A p \in Pairs : ann'[p].state = "none"
                          \/ (ann'[p] = ann[p] /\ probes'[p] = probes[p])
    BY NoAnnouncerType
  <1>3. Probing(ann') \subseteq Probing(ann)
    BY <1>2 DEF Probing
  <1>4. /\ Cardinality(Probing(ann')) <= Cardinality(Probing(ann))
        /\ Cardinality(Probing(ann')) \in Nat /\ Cardinality(Probing(ann)) \in Nat
    BY <1>3, FS_Subset, ProbingFinite
  <1>5. events' \in 0..MaxEvents
    BY GroupAssumption DEF IInv, TypeOK
  <1>6. TypeOK'
    BY <1>1, <1>5 DEF IInv, TypeOK
  <1>7. CounterInv'
    <2>1. nProbing \in Nat /\ MaxProbing \in Nat
      BY GroupAssumption DEF IInv, TypeOK
    <2> QED
      BY <1>4, <2>1 DEF IInv, CounterInv
  <1>8. ProbeInv'
    BY <1>2 DEF IInv, ProbeInv, NeedsProbe
  <1>9. LiveInv'
    BY <1>2 DEF IInv, LiveInv
  <1> QED
    BY <1>6, <1>7, <1>8, <1>9 DEF IInv

LEMMA ConflictRegisteredInv ==
    ASSUME IInv, NEW p \in Pairs, ConflictRegistered(p)
    PROVE  IInv'
  <1> USE DEF ConflictRegistered
  <1>1. ann[p].state \in {"waiting", "announcing", "established"}
    BY DEF IsRegistered
  <1>2. alive /\ p[1] \in live
    BY <1>1, AnnouncerAlive
  <1> DEFINE b == StartOver(InitialState(p[1], group))
  <1>3. /\ b \in Announcers /\ b.n = 1
        /\ b.state \in {"probing", "waiting", "announcing", "established"}
        /\ b.state = "probing" <=> NeedsProbe(p[1])
    BY StartOverType, InitialStateFacts
  <1> HIDE DEF b
  <1>4. /\ ann' \in [Pairs -> Announcers] /\ probes' \in [Pairs -> 0..3]
        /\ ann'[p] = b /\ probes'[p] = 0
        /\ \A q \in Pairs \ {p} : ann'[q] = ann[q] /\ probes'[q] = probes[q]
    BY <1>3 DEF IInv, TypeOK, b
  <1>5. /\ nProbing' \in 0..(UintSize - 1)
        /\ nProbing' >= Cardinality(Probing(ann'))
        /\ nProbing' <= MaxProbing + Cardinality(Probing(ann'))
    <2>1. CASE NeedsProbe(p[1])
      <3>1. /\ Probing(ann) \subseteq Probing(ann') /\ Probing(ann') \in SUBSET Pairs
            /\ Probing(ann') \ Probing(ann) = {p}
        BY <1>1, <1>3, <1>4, <2>1 DEF Probing
      <3>2. nProbing' = Plus(nProbing, Cardinality(Probing(ann') \ Probing(ann)))
        BY <2>1, <3>1, FS_Singleton
      <3> QED
        BY <1>2, <3>1, <3>2, CounterGrows
    <2>2. CASE ~NeedsProbe(p[1])
      <3>1. Probing(ann') = Probing(ann)
        BY <1>1, <1>3, <1>4, <2>2 DEF Probing
      <3> QED
        BY <1>2, <2>2, <3>1 DEF IInv, CounterInv, TypeOK
    <2> QED
      BY <2>1, <2>2
  <1>6. events' \in 0..MaxEvents
    BY GroupAssumption DEF IInv, TypeOK
  <1>7. TypeOK'
    BY <1>4, <1>5, <1>6 DEF IInv, TypeOK
  <1>8. CounterInv'
    BY <1>5 DEF CounterInv
  <1>9. ProbeInv'
    BY <1>3, <1>4 DEF IInv, ProbeInv, NeedsProbe
  <1>10. LiveInv'
    BY <1>2, <1>4 DEF IInv, LiveInv
  <1> QED
    BY <1>7, <1>8, <1>9, <1>10 DEF IInv

LEMMA NextInv == IInv /\ [Next]_vars => IInv'
  <1> SUFFICES ASSUME IInv, [Next]_vars PROVE IInv'
    OBVIOUS
  <1>1. CASE Commit
    BY <1>1, CommitRealInv DEF Commit, CanCommit
  <1>2. CASE HoldoffElapsed
    BY <1>2, CommitRealInv DEF HoldoffElapsed, IInv, LiveInv
  <1>3. CASE UNCHANGED vars
    BY <1>3 DEF vars, IInv, TypeOK, CounterInv, ProbeInv, LiveInv, NeedsProbe
  <1> QED
    BY <1>1, <1>2, <1>3, CommitHeldOffInv, ResetInv, FreeInv, NewInv, UpdateInv,
       AddEntryInv, InterfaceUpInv, InterfaceDownInv, PostProbeInv,
       ProbingDoneInv, AnnounceInv, ConflictRegisteredInv, ConflictProbingInv
       DEF Next

LEMMA Inductive == Spec => []IInv
  <1> QED
    BY InitInv, NextInv, PTL DEF Spec

\* The assertion in front of n_probing-- (announce.c) holds: the counter is
\* never below the number of announcers that probe, and it never wraps.
THEOREM GroupCounterCovers == Spec => []CounterCoversProbing
  <1>1. IInv => CounterCoversProbing
    BY DEF IInv, CounterInv, CounterCoversProbing
  <1> QED
    BY <1>1, Inductive, PTL

\* A unique record is defended and answered only where three probes for it
\* have been posted since its announcer last started over, whatever updates,
\* conflicts, resets and interface changes go_to_initial_state(),
\* reannounce() and next_state() meet in between.
THEOREM GroupProbedBeforeRegistered == Spec => []ProbedBeforeRegistered
  <1>1. IInv => ProbedBeforeRegistered
    BY DEF IInv, ProbeInv, ProbedBeforeRegistered, IsRegistered
  <1> QED
    BY <1>1, Inductive, PTL

-----------------------------------------------------------------------------
(* The members of the group that are to be probed for, stage by stage, and  *)
(* the refinement: every step is one of Publication, or leaves the stages   *)
(* alone.                                                                   *)

Claimed(s) == s \in {"announcing", "established"}
SameStage(s, t) == s = t \/ (Claimed(s) /\ Claimed(t))

\* What a step makes of Publication's variables.
Refined == Promise!PubNext \/ UNCHANGED Promise!pubVars

LEMMA StageMembers ==
    /\ \A p : p \in Stage({"probing"})
                <=> p \in Pairs /\ NeedsProbe(p[1]) /\ ann[p].state = "probing"
    /\ \A p : p \in Stage({"waiting"})
                <=> p \in Pairs /\ NeedsProbe(p[1]) /\ ann[p].state = "waiting"
    /\ \A p : p \in Stage({"announcing", "established"})
                <=> p \in Pairs /\ NeedsProbe(p[1]) /\ Claimed(ann[p].state)
  BY DEF Stage, Claimed

LEMMA NextStageMembers ==
    ASSUME UNCHANGED flags
    PROVE  /\ \A p : p \in Stage({"probing"})'
                       <=> p \in Pairs /\ NeedsProbe(p[1]) /\ ann'[p].state = "probing"
           /\ \A p : p \in Stage({"waiting"})'
                       <=> p \in Pairs /\ NeedsProbe(p[1]) /\ ann'[p].state = "waiting"
           /\ \A p : p \in Stage({"announcing", "established"})'
                       <=> p \in Pairs /\ NeedsProbe(p[1]) /\ Claimed(ann'[p].state)
  BY DEF Stage, Claimed, NeedsProbe

\* A step that moves no member to another stage.
LEMMA QuietStep ==
    ASSUME StageInv, UNCHANGED <<alive, group, holdoff, flags>>,
           \A p \in Pairs : SameStage(ann[p].state, ann'[p].state)
    PROVE  StageInv' /\ Refined
  <1>1. UNCHANGED Stage({"probing"}) /\ UNCHANGED Stage({"waiting"})
        /\ UNCHANGED Stage({"announcing", "established"})
    BY StageMembers, NextStageMembers DEF SameStage, Claimed
  <1>2. Refined
    BY <1>1 DEF Refined, Promise!pubVars
  <1>3. StageInv'
    BY <1>1 DEF StageInv, SameStage, Claimed, IsCommited, NeedsProbe
  <1> QED
    BY <1>2, <1>3

LEMMA PostProbeRefines ==
    ASSUME IInv, StageInv, NEW p \in Pairs, PostProbe(p)
    PROVE  StageInv' /\ Refined
  <1>0. \A q \in Pairs : ann[q] \in Announcers
    BY DEF IInv, TypeOK
  <1>1. \A q \in Pairs : ann'[q].state = ann[q].state
    BY <1>0 DEF PostProbe, IInv, TypeOK, Announcers
  <1>2. \A q \in Pairs : SameStage(ann[q].state, ann'[q].state)
    BY <1>1 DEF SameStage
  <1> QED
    BY <1>2, QuietStep DEF PostProbe

LEMMA AnnounceRefines ==
    ASSUME IInv, StageInv, NEW p \in Pairs, Announce(p)
    PROVE  StageInv' /\ Refined
  <1>1. ann[p] \in Announcers /\ ann[p].n <= 3 /\ ann[p].state = "announcing"
    BY DEF IInv, TypeOK, ProbeInv, Announce
  <1>2. /\ Claimed(ann'[p].state)
        /\ \A q \in Pairs \ {p} : ann'[q] = ann[q]
    BY <1>1, AnnouncedType DEF IInv, TypeOK, Announce, Claimed
  <1>3. \A q \in Pairs : SameStage(ann[q].state, ann'[q].state)
    <2> TAKE q \in Pairs
    <2>1. CASE q = p
      BY <2>1, <1>1, <1>2 DEF SameStage, Claimed
    <2>2. CASE q # p
      BY <2>2, <1>2 DEF SameStage
    <2> QED
      BY <2>1, <2>2
  <1> QED
    BY <1>3, QuietStep DEF Announce

\* An entry that is added has no announcers yet, so its flags matter to nobody.
LEMMA AddEntryRefines ==
    ASSUME IInv, StageInv, NEW e \in Entries, NEW f \in FlagChoices, AddEntry(e, f)
    PROVE  StageInv' /\ Refined
  <1>1. UNCHANGED <<ann, alive, group, holdoff>>
    BY DEF AddEntry
  <1>2. \A p \in Pairs : ann[p].state # "none" => (NeedsProbe(p[1])' <=> NeedsProbe(p[1]))
    <2> SUFFICES ASSUME NEW p \in Pairs, ann[p].state # "none"
                 PROVE  NeedsProbe(p[1])' <=> NeedsProbe(p[1])
      OBVIOUS
    <2>1. p[1] \in Entries /\ p[1] # e
      BY PairFacts DEF IInv, LiveInv, AddEntry
    <2>2. flags'[p[1]] = flags[p[1]]
      BY <2>1 DEF IInv, TypeOK, AddEntry
    <2> QED
      BY <2>2 DEF NeedsProbe
  <1>3. UNCHANGED Stage({"probing"}) /\ UNCHANGED Stage({"waiting"})
        /\ UNCHANGED Stage({"announcing", "established"})
    BY <1>1, <1>2 DEF Stage
  <1>4. Refined
    BY <1>1, <1>3 DEF Refined, Promise!pubVars
  <1>5. StageInv'
    BY <1>1, <1>2, <1>3 DEF StageInv, IsCommited
  <1> QED
    BY <1>4, <1>5

\* Members are probed for, for the first time or again.
LEMMA ProbeStep ==
    ASSUME StageInv, alive, IsCommited(group), UNCHANGED <<alive, group, flags>>,
           holdoff' => holdoff,
           NEW P \in SUBSET Pairs, \A p \in P : NeedsProbe(p[1]) /\ ann'[p].state = "probing",
           \A p \in Pairs \ P : \/ SameStage(ann[p].state, ann'[p].state)
                                \/ /\ ~ NeedsProbe(p[1]) /\ ann'[p].state # "probing"
                                   /\ ann'[p].state = "waiting" => group = "registering"
    PROVE  StageInv' /\ Refined
  <1>1. /\ Stage({"probing"})' = Stage({"probing"}) \union P
        /\ Stage({"waiting"})' = Stage({"waiting"}) \ P
        /\ Stage({"announcing", "established"})' = Stage({"announcing", "established"}) \ P
    BY StageMembers, NextStageMembers DEF SameStage, Claimed
  <1>2. Promise!Probe(P)
    BY <1>1 DEF Promise!Probe, Promise!Committed, IsCommited
  <1>3. Refined
    BY <1>2 DEF Refined, Promise!PubNext
  <1>4. \A p \in Pairs :
          /\ ann'[p].state = "probing" => NeedsProbe(p[1])
          /\ ann'[p].state = "waiting" => group = "registering"
    BY DEF StageInv, SameStage, Claimed
  <1>5. StageInv'
    BY <1>1, <1>4 DEF StageInv, IsCommited, NeedsProbe
  <1> QED
    BY <1>3, <1>5

\* All are given up, whoever asks for it.
LEMMA GiveUpStep ==
    ASSUME UNCHANGED flags, ~holdoff', \A p \in Pairs : ann'[p].state = "none",
           \/ alive /\ alive' /\ IsCommited(group) /\ group' = "collision"
           \/ alive /\ alive' /\ group' = "uncommitted"
           \/ alive /\ ~alive'
           \/ ~alive /\ alive' /\ group' = "uncommitted",
           group # "freed"
    PROVE  StageInv' /\ Refined
  <1>1. /\ Stage({"probing"})' = {} /\ Stage({"waiting"})' = {}
        /\ Stage({"announcing", "established"})' = {}
    BY NextStageMembers DEF Claimed
  <1>2. Promise!GiveUp
    BY <1>1 DEF Promise!GiveUp, Promise!Nobody, Promise!Committed, IsCommited
  <1>3. Refined
    BY <1>2 DEF Refined, Promise!PubNext
  <1>4. StageInv'
    BY <1>1 DEF StageInv
  <1> QED
    BY <1>3, <1>4

LEMMA GivingUpRefines ==
    ASSUME IInv, StageInv,
           Reset \/ Free \/ New \/ \E p \in Pairs : ConflictProbing(p)
    PROVE  StageInv' /\ Refined
  <1>0. group # "freed"
    BY DEF IInv, TypeOK
  <1>1. CASE Reset
    BY <1>0, <1>1, AllWithdrawnFacts, GiveUpStep DEF IInv, StageInv, Reset, ChangeState
  <1>2. CASE Free
    BY <1>0, <1>2, AllWithdrawnFacts, GiveUpStep DEF IInv, Free
  <1>3. CASE New
    <2>1. \A p \in Pairs : ann'[p].state = "none"
      BY <1>3 DEF New, IInv, LiveInv
    <2>2. ~holdoff'
      BY <1>3 DEF New, IInv, LiveInv
    <2> QED
      BY <1>0, <1>3, <2>1, <2>2, GiveUpStep DEF New
  <1>4. ASSUME NEW p \in Pairs, ConflictProbing(p)
        PROVE  StageInv' /\ Refined
    <2>1. alive /\ IsCommited(group)
      BY <1>4, AnnouncerAlive DEF ConflictProbing, IsProbing, StageInv
    <2> QED
      BY <1>0, <1>4, <2>1, AllWithdrawnFacts, GiveUpStep
         DEF ConflictProbing, Withdraw, ChangeState, IInv, StageInv
  <1> QED
    BY <1>1, <1>2, <1>3, <1>4

\* The members of an interface are lost.
LEMMA InterfaceDownRefines ==
    ASSUME IInv, StageInv, NEW i \in Ifaces, InterfaceDown(i)
    PROVE  StageInv' /\ Refined
  <1> DEFINE P == {p \in Pairs : p[2] = i}
  <1>1. /\ UNCHANGED <<alive, group, holdoff, flags>>
        /\ \A p \in Pairs : ann'[p].state = IF p \in P THEN "none" ELSE ann[p].state
    BY NoAnnouncerType DEF InterfaceDown, WithoutInterface
  <1>2. CASE \A p \in Pairs : ann[p].state = "none"
    <2>1. \A p \in Pairs : SameStage(ann[p].state, ann'[p].state)
      BY <1>1, <1>2 DEF SameStage
    <2> QED
      BY <1>1, <2>1, QuietStep
  <1>3. CASE ~ \A p \in Pairs : ann[p].state = "none"
    <2>1. alive /\ IsCommited(group)
      BY <1>3, AnnouncerAlive DEF StageInv
    <2> HIDE DEF P
    <2>2. /\ Stage({"probing"})' = Stage({"probing"}) \ P
          /\ Stage({"waiting"})' = Stage({"waiting"}) \ P
          /\ Stage({"announcing", "established"})' = Stage({"announcing", "established"}) \ P
      BY <1>1, StageMembers, NextStageMembers DEF Claimed
    <2>3. Promise!Lose(P) /\ P \in SUBSET Pairs
      BY <1>1, <2>1, <2>2 DEF Promise!Lose, Promise!Committed, IsCommited, P
    <2>4. Refined
      BY <2>3 DEF Refined, Promise!PubNext
    <2>5. StageInv'
      BY <1>1, <2>1, <2>2 DEF StageInv, IsCommited, NeedsProbe
    <2> QED
      BY <2>4, <2>5
  <1> QED
    BY <1>2, <1>3

\* The members of an interface that comes up are probed for.
LEMMA InterfaceUpRefines ==
    ASSUME IInv, StageInv, NEW i \in Ifaces, InterfaceUp(i)
    PROVE  StageInv' /\ Refined
  <1> DEFINE P == IF IsCommited(group) THEN live \X {i} ELSE {}
             N == {p \in Missing(P) : NeedsProbe(p[1])}
  <1>1. /\ ann' = WithAnnouncers(P, group)
        /\ UNCHANGED <<alive, group, holdoff, flags>>
    BY DEF InterfaceUp
  <1>2. P \in SUBSET Pairs /\ (~alive \/ ~IsCommited(group) => P = {})
    BY DEF IInv, TypeOK, Pairs, LiveInv
  <1>3. Missing(P) \subseteq P
    BY DEF Missing
  <1> HIDE DEF P
  <1>4. \A p \in Pairs : IF p \in Missing(P)
                         THEN ann'[p].state = InitialState(p[1], group)
                         ELSE ann'[p] = ann[p]
    BY <1>1, <1>2, WithAnnouncersFacts DEF IInv
  <1>5. CASE alive /\ IsCommited(group)
    <2>1. N \in SUBSET Pairs /\ \A p \in N : NeedsProbe(p[1]) /\ ann'[p].state = "probing"
      BY <1>2, <1>3, <1>4, InitialStateFacts
    <2>2. \A p \in Pairs \ N :
            \/ SameStage(ann[p].state, ann'[p].state)
            \/ /\ ~ NeedsProbe(p[1]) /\ ann'[p].state # "probing"
               /\ ann'[p].state = "waiting" => group = "registering"
      <3> TAKE p \in Pairs \ N
      <3>1. CASE p \in Missing(P)
        BY <3>1, <1>4, <1>5 DEF InitialState, IsCommited
      <3>2. CASE p \notin Missing(P)
        BY <3>2, <1>4 DEF SameStage
      <3> QED
        BY <3>1, <3>2
    <2> HIDE DEF N
    <2> QED
      BY <1>1, <1>5, <2>1, <2>2, ProbeStep
  <1>6. CASE ~(alive /\ IsCommited(group))
    <2>1. \A p \in Pairs : SameStage(ann[p].state, ann'[p].state)
      BY <1>2, <1>3, <1>4, <1>6 DEF SameStage
    <2> QED
      BY <1>1, <2>1, QuietStep
  <1> QED
    BY <1>5, <1>6

\* A record that changes while it waits is probed for again.
LEMMA UpdateRefines ==
    ASSUME IInv, StageInv, NEW e \in Entries, Update(e)
    PROVE  StageInv' /\ Refined
  <1> DEFINE N == {p \in Pairs : p[1] = e /\ NeedsProbe(e) /\ ann[p].state \in {"probing", "waiting"}}
  <1>1. /\ alive /\ UNCHANGED <<alive, group, holdoff, flags>>
        /\ \A p \in Pairs : ann[p] \in Announcers
        /\ \A p \in Pairs :
              ann'[p] = IF p[1] = e THEN Reannounced(e, ann[p]) ELSE ann[p]
    BY DEF Update, IInv, TypeOK
  <1>2. \A p \in Pairs : p[1] = e =>
          /\ ann[p].state = "none" => ann'[p].state = "none"
          /\ ann[p].state = "probing" => ann'[p].state = "probing"
          /\ ann[p].state = "waiting" =>
                ann'[p].state = IF NeedsProbe(e) THEN "probing" ELSE "waiting"
          /\ Claimed(ann[p].state) => Claimed(ann'[p].state)
    <2> SUFFICES ASSUME NEW p \in Pairs, p[1] = e
                 PROVE  /\ ann[p].state = "none" => ann'[p].state = "none"
                        /\ ann[p].state = "probing" => ann'[p].state = "probing"
                        /\ ann[p].state = "waiting" =>
                              ann'[p].state = IF NeedsProbe(e) THEN "probing" ELSE "waiting"
                        /\ Claimed(ann[p].state) => Claimed(ann'[p].state)
      OBVIOUS
    <2>1. ann'[p] = Reannounced(e, ann[p])
      BY <1>1
    <2>2. \A s : StartOver(s).state = s
      BY DEF StartOver
    <2> QED
      BY <2>1, <2>2 DEF Reannounced, Claimed
  <1>3. \A p \in Pairs \ N : SameStage(ann[p].state, ann'[p].state)
    <2> TAKE p \in Pairs \ N
    <2>1. CASE p[1] # e
      BY <2>1, <1>1 DEF SameStage
    <2>2. CASE p[1] = e
      <3>1. ann[p].state \in {"none", "probing", "waiting"} \/ Claimed(ann[p].state)
        BY <1>1 DEF Announcers, Claimed
      <3> QED
        BY <2>2, <3>1, <1>2 DEF SameStage
    <2> QED
      BY <2>1, <2>2
  <1>4. /\ N \in SUBSET Pairs
        /\ \A p \in N : NeedsProbe(p[1]) /\ ann'[p].state = "probing"
    BY <1>2
  <1>5. CASE IsCommited(group)
    <2> HIDE DEF N
    <2> QED
      BY <1>1, <1>3, <1>4, <1>5, ProbeStep
  <1>6. CASE ~IsCommited(group)
    <2>1. N = {}
      BY <1>6 DEF StageInv
    <2> QED
      BY <1>1, <1>3, <2>1, QuietStep
  <1> QED
    BY <1>5, <1>6

\* A claimed name that another host uses is probed for again.
LEMMA ConflictRegisteredRefines ==
    ASSUME IInv, StageInv, NEW p \in Pairs, ConflictRegistered(p)
    PROVE  StageInv' /\ Refined
  <1> DEFINE N == IF NeedsProbe(p[1]) THEN {p} ELSE {}
  <1>1. UNCHANGED <<alive, group, holdoff, flags>>
    BY DEF ConflictRegistered
  <1>2. alive /\ IsCommited(group)
    BY AnnouncerAlive DEF ConflictRegistered, IsRegistered, StageInv
  <1>3. /\ ann'[p].state = InitialState(p[1], group)
        /\ \A q \in Pairs \ {p} : ann'[q] = ann[q]
    BY StartOverType, InitialStateFacts DEF ConflictRegistered, IInv, TypeOK
  <1>4. N \in SUBSET Pairs /\ \A q \in N : NeedsProbe(q[1]) /\ ann'[q].state = "probing"
    BY <1>3, InitialStateFacts
  <1>5. \A q \in Pairs \ N :
          \/ SameStage(ann[q].state, ann'[q].state)
          \/ /\ ~ NeedsProbe(q[1]) /\ ann'[q].state # "probing"
             /\ ann'[q].state = "waiting" => group = "registering"
    <2> TAKE q \in Pairs \ N
    <2>1. CASE q = p
      BY <2>1, <1>2, <1>3 DEF InitialState, IsCommited
    <2>2. CASE q # p
      BY <2>2, <1>3 DEF SameStage
    <2> QED
      BY <2>1, <2>2
  <1> HIDE DEF N
  <1> QED
    BY <1>1, <1>2, <1>4, <1>5, ProbeStep

\* The group is established, and who waited claims its name.
LEMMA EstablishStep ==
    ASSUME StageInv, alive, UNCHANGED <<alive, flags>>, ~holdoff',
           group \in {"uncommitted", "collision", "registering"}, group' = "established",
           \A p, q \in Stage({"probing"}) : p = q,
           \A p \in Pairs :
              /\ ann'[p].state \notin {"probing", "waiting"}
              /\ NeedsProbe(p[1]) =>
                    (Claimed(ann'[p].state) <=> ann[p].state \in {"probing", "waiting"})
    PROVE  StageInv' /\ Refined
  <1>1. /\ Stage({"probing"})' = {} /\ Stage({"waiting"})' = {}
        /\ Stage({"announcing", "established"})' = Stage({"waiting"}) \union Stage({"probing"})
    BY StageMembers, NextStageMembers
  <1>2. Promise!Establish
    BY <1>1 DEF Promise!Establish
  <1>3. Refined
    BY <1>2 DEF Refined, Promise!PubNext
  <1>4. StageInv'
    BY DEF StageInv, IsCommited
  <1> QED
    BY <1>3, <1>4

LEMMA ReleasedFacts ==
    ASSUME NEW a \in Announcers, NEW imm \in BOOLEAN
    PROVE  /\ a.state # "waiting" => Released(a, imm) = a
           /\ a.state = "waiting" => Released(a, imm).state = "announcing"
  BY DEF Released, Announced, Announcers

\* Who is probed waits, or is the last one, or joins a group that is established.
LEMMA ProbingDoneRefines ==
    ASSUME IInv, StageInv, NEW p \in Pairs, ProbingDone(p)
    PROVE  StageInv' /\ Refined
  <1>1. /\ ann[p] \in Announcers /\ ann[p].state = "probing" /\ alive
        /\ NeedsProbe(p[1]) /\ IsCommited(group) /\ UNCHANGED <<alive, flags>>
        /\ \A q \in Pairs : ann[q] \in Announcers
    BY AnnouncerAlive DEF ProbingDone, IInv, TypeOK, StageInv
  <1>2. CASE group = "registering"
    <2> DEFINE an == [ann EXCEPT ![p].state = "waiting", ![p].timer = FALSE]
    <2>1. /\ an[p].state = "waiting" /\ \A q \in Pairs \ {p} : an[q] = ann[q]
          /\ \A q \in Pairs : an[q] \in Announcers
      BY <1>1 DEF IInv, TypeOK, Announcers
    <2>2. CheckProbed(TRUE, Dec(nProbing), an, holdoff)
      BY <1>2 DEF ProbingDone
    <2> HIDE DEF an
    <2>3. CASE Dec(nProbing) = 0
      <3>1. /\ group' = "established" /\ ~holdoff'
            /\ ann' = [q \in Pairs |-> Released(an[q], TRUE)]
        BY <1>2, <2>2, <2>3 DEF CheckProbed, ChangeState
      <3>2. \A q \in Probing(ann) : q = p
        <4> DEFINE A == Probing(ann)
        <4>1. p \in A /\ A \in SUBSET Pairs
          BY <1>1 DEF Probing
        <4>2. /\ Cardinality(A \ {p}) = Cardinality(A) - 1 /\ IsFiniteSet(A \ {p})
              /\ Cardinality(A) \in Nat /\ Cardinality(A \ {p}) \in Nat
          BY <4>1, SubsetFinite, FS_RemoveElement
        <4> HIDE DEF A
        <4>3. nProbing \in 1..(UintSize - 1) /\ nProbing >= Cardinality(A)
          BY <1>1, <4>2, GroupAssumption DEF IInv, TypeOK, CounterInv, A
        <4>4. nProbing = 1
          BY <2>3, <4>3, DecFacts, GroupAssumption
        <4>5. Cardinality(A \ {p}) = 0
          BY <4>2, <4>3, <4>4
        <4>6. A \ {p} = {}
          BY <4>2, <4>5, FS_EmptySet
        <4> QED
          BY <4>6 DEF A
      <3>3. \A q, r \in Stage({"probing"}) : q = r
        BY <3>2 DEF Stage, Probing
      <3>4. \A q \in Pairs : ann[q].state = "probing" => q = p
        BY <3>2 DEF Probing
      <3>5. ASSUME NEW q \in Pairs
            PROVE  /\ ann'[q].state \notin {"probing", "waiting"}
                   /\ NeedsProbe(q[1]) =>
                        (Claimed(ann'[q].state) <=> ann[q].state \in {"probing", "waiting"})
        <4>1. /\ an[q].state # "waiting" => ann'[q] = an[q]
              /\ an[q].state = "waiting" => ann'[q].state = "announcing"
          BY <2>1, <3>1, ReleasedFacts
        <4>2. NeedsProbe(q[1]) => ~Claimed(ann[q].state)
          BY <1>2 DEF StageInv, Stage, Claimed
        <4> QED
          BY <1>1, <2>1, <3>4, <4>1, <4>2 DEF Claimed
      <3> QED
        BY <1>1, <1>2, <3>1, <3>3, <3>5, EstablishStep
    <2>4. CASE Dec(nProbing) # 0
      <3>1. UNCHANGED <<group, holdoff>> /\ ann' = an
        BY <1>2, <2>2, <2>4 DEF CheckProbed
      <3>2. /\ Stage({"probing"})' = Stage({"probing"}) \ {p}
            /\ Stage({"waiting"})' = Stage({"waiting"}) \union {p}
            /\ UNCHANGED Stage({"announcing", "established"})
        BY <1>1, <2>1, <3>1, StageMembers, NextStageMembers DEF Claimed
      <3>3. Promise!Probed(p)
        BY <1>1, <1>2, <3>1, <3>2, StageMembers DEF Promise!Probed
      <3>4. Refined
        BY <3>3 DEF Refined, Promise!PubNext
      <3>5. StageInv'
        BY <1>1, <1>2, <2>1, <3>1, <3>2 DEF StageInv, IsCommited, NeedsProbe
      <3> QED
        BY <3>4, <3>5
    <2> QED
      BY <2>3, <2>4
  <1>3. CASE group = "established"
    <2>1. /\ UNCHANGED <<group, holdoff>>
          /\ ann' = [ann EXCEPT ![p] = Announced(StartOver("announcing"))]
      BY <1>3 DEF ProbingDone
    <2>2. Claimed(Announced(StartOver("announcing")).state)
      BY StartOverType, AnnouncedType DEF Claimed
    <2>3. Claimed(ann'[p].state) /\ \A q \in Pairs \ {p} : ann'[q] = ann[q]
      BY <2>1, <2>2 DEF IInv, TypeOK
    <2>4. /\ Stage({"probing"})' = Stage({"probing"}) \ {p}
          /\ UNCHANGED Stage({"waiting"})
          /\ Stage({"announcing", "established"})'
                = Stage({"announcing", "established"}) \union {p}
      <3>1. ann'[p].state \notin {"probing", "waiting"} /\ ~Claimed(ann[p].state)
        BY <1>1, <2>3 DEF Claimed
      <3>2. Stage({"probing"})' = Stage({"probing"}) \ {p}
        BY <1>1, <2>3, <3>1, StageMembers, NextStageMembers
      <3>3. UNCHANGED Stage({"waiting"})
        <4>1. \A q \in Pairs : ann'[q].state = "waiting" <=> ann[q].state = "waiting"
          BY <1>1, <2>3, <3>1
        <4>2. \A q : q \in Stage({"waiting"})' <=> q \in Stage({"waiting"})
          BY <1>1, <4>1, StageMembers, NextStageMembers
        <4> QED
          BY <4>2
      <3>4. Stage({"announcing", "established"})'
                = Stage({"announcing", "established"}) \union {p}
        BY <1>1, <2>3, <3>1, StageMembers, NextStageMembers
      <3> QED
        BY <3>2, <3>3, <3>4
    <2>5. Promise!Claim(p)
      BY <1>1, <1>3, <2>1, <2>4, StageMembers DEF Promise!Claim
    <2>6. Refined
      BY <2>5 DEF Refined, Promise!PubNext
    <2>7. \A q \in Pairs :
            /\ ann'[q].state # "none" => IsCommited(group)
            /\ ann'[q].state = "probing" => NeedsProbe(q[1])
            /\ ann'[q].state = "waiting" => group = "registering"
      BY <1>1, <2>3 DEF StageInv, Claimed
    <2>8. StageInv'
      BY <1>1, <1>3, <2>1, <2>7 DEF StageInv, IsCommited, NeedsProbe
    <2> QED
      BY <2>6, <2>8
  <1> QED
    BY <1>1, <1>2, <1>3 DEF IsCommited

\* entry_group_commit_real(): nobody has to be probed for, or who has to is.
LEMMA CommitRealRefines ==
    ASSUME IInv, StageInv, alive, CommitReal,
           group \in {"uncommitted", "collision", "registering"}
    PROVE  StageInv' /\ Refined
  <1> DEFINE P == live \X up
             an == WithAnnouncers(P, "registering")
             np == Plus(nProbing, NewProbing(P))
             N == {p \in Missing(P) : NeedsProbe(p[1])}
  <1>1. CheckProbed(FALSE, np, an, FALSE) /\ UNCHANGED <<alive, flags>>
    BY DEF CommitReal
  <1>2. P \in SUBSET Pairs /\ Missing(P) \subseteq Pairs
    BY DEF IInv, TypeOK, Pairs, Missing
  <1> HIDE DEF P
  <1>3. /\ an \in [Pairs -> Announcers]
        /\ \A p \in Pairs : IF p \in Missing(P)
                            THEN an[p].state = InitialState(p[1], "registering")
                            ELSE an[p] = ann[p]
        /\ Probing(ann) \subseteq Probing(an)
        /\ Cardinality(Probing(an) \ Probing(ann)) = NewProbing(P)
    BY <1>2, WithAnnouncersFacts DEF IInv
  <1>4. \A p \in Missing(P) : ann[p].state = "none"
    BY NoAnnouncerType DEF Missing
  <1> HIDE DEF an
  <1>5. Probing(an) \in SUBSET Pairs
    BY DEF Probing
  <1>6. np \in Nat /\ np >= Cardinality(Probing(an))
    BY <1>3, <1>5, CounterGrows
  <1> HIDE DEF np
  <1>7. \A p \in Pairs : NeedsProbe(p[1]) => ~Claimed(ann[p].state)
    BY DEF StageInv, Stage, Claimed
  <1>8. CASE np = 0
    <2>1. /\ group' = "established" /\ ~holdoff'
          /\ ann' = [p \in Pairs |-> Released(an[p], FALSE)]
      BY <1>1, <1>8 DEF CheckProbed, ChangeState, StageInv
    <2>2. Probing(an) = {}
      BY <1>5, <1>6, <1>8, SubsetFinite, FS_EmptySet
    <2>3. \A p \in Pairs : an[p].state # "probing"
      BY <2>2 DEF Probing
    <2>4. \A p \in Pairs : ann[p].state # "probing"
      BY <1>3, <2>2 DEF Probing
    <2>5. \A p, q \in Stage({"probing"}) : p = q
      BY <2>4 DEF Stage
    <2>6. ASSUME NEW p \in Pairs
          PROVE  /\ ann'[p].state \notin {"probing", "waiting"}
                 /\ NeedsProbe(p[1]) =>
                      (Claimed(ann'[p].state) <=> ann[p].state \in {"probing", "waiting"})
      <3>1. /\ an[p].state # "waiting" => ann'[p] = an[p]
            /\ an[p].state = "waiting" => ann'[p].state = "announcing"
        BY <1>3, <2>1, ReleasedFacts
      <3>2. NeedsProbe(p[1]) => an[p] = ann[p]
        BY <1>3, <2>3, InitialStateFacts
      <3> QED
        BY <1>7, <2>3, <3>1, <3>2 DEF Claimed
    <2> QED
      BY <1>1, <2>1, <2>5, <2>6, EstablishStep
  <1>9. CASE np # 0
    <2>1. group' = "registering" /\ ~holdoff' /\ ann' = an
      BY <1>1, <1>9 DEF CheckProbed
    <2>2. N \in SUBSET Pairs /\ \A p \in N : NeedsProbe(p[1]) /\ ann'[p].state = "probing"
      BY <1>2, <1>3, <2>1, InitialStateFacts
    <2>3. \A p \in Pairs \ N :
            \/ SameStage(ann[p].state, ann'[p].state)
            \/ ~ NeedsProbe(p[1]) /\ ann'[p].state # "probing"
      <3> TAKE p \in Pairs \ N
      <3>1. CASE p \in Missing(P)
        BY <3>1, <1>3, <2>1, InitialStateFacts
      <3>2. CASE p \notin Missing(P)
        BY <3>2, <1>3, <2>1 DEF SameStage
      <3> QED
        BY <3>1, <3>2
    <2> HIDE DEF N
    <2>4. CASE group = "registering"
      <3>1. UNCHANGED <<alive, group, flags>> /\ IsCommited(group) /\ (holdoff' => holdoff)
        BY <1>1, <2>1, <2>4 DEF IsCommited
      <3>2. \A p \in Pairs \ N :
              \/ SameStage(ann[p].state, ann'[p].state)
              \/ /\ ~ NeedsProbe(p[1]) /\ ann'[p].state # "probing"
                 /\ ann'[p].state = "waiting" => group = "registering"
        BY <2>3, <2>4
      <3> QED
        BY <3>1, <3>2, <2>2, ProbeStep
    <2>5. CASE group \in {"uncommitted", "collision"}
      <3>1. \A p \in Pairs : ann[p].state = "none"
        BY <2>5 DEF StageInv, IsCommited
      <3>2. \A p \in Pairs : NeedsProbe(p[1]) => ann'[p].state \in {"none", "probing"}
        BY <2>2, <2>3, <3>1 DEF SameStage, Claimed
      <3>3. Stage({"waiting"}) = {} /\ Stage({"announcing", "established"}) = {}
        BY <3>1, StageMembers DEF Claimed
      <3>4. Stage({"waiting"})' = {} /\ Stage({"announcing", "established"})' = {}
            /\ Stage({"probing"})' \subseteq Pairs
        BY <1>1, <3>2, NextStageMembers DEF Claimed
      <3>5. Promise!Register
        BY <1>1, <2>1, <2>5, <3>3, <3>4 DEF Promise!Register
      <3>6. Refined
        BY <3>5 DEF Refined, Promise!PubNext
      <3>7. \A p \in Pairs : ann'[p].state = "probing" => NeedsProbe(p[1])
        BY <2>2, <2>3, <3>1 DEF SameStage, Claimed
      <3>8. StageInv'
        BY <1>1, <2>1, <3>4, <3>7 DEF StageInv, IsCommited, NeedsProbe
      <3> QED
        BY <3>6, <3>8
    <2> QED
      BY <2>4, <2>5
  <1> QED
    BY <1>8, <1>9

LEMMA CommitHeldOffRefines ==
    ASSUME IInv, StageInv, CommitHeldOff
    PROVE  StageInv' /\ Refined
  <1>1. /\ alive /\ group \in {"uncommitted", "collision"} /\ group' = "registering"
        /\ UNCHANGED <<alive, ann, flags>>
    BY DEF CommitHeldOff, CanCommit
  <1>2. \A p \in Pairs : ann[p].state = "none"
    BY <1>1 DEF StageInv, IsCommited
  <1>3. /\ Stage({"probing"})' = {} /\ Stage({"waiting"})' = {}
        /\ Stage({"announcing", "established"})' = {}
    BY <1>1, <1>2, NextStageMembers DEF Claimed
  <1>4. Stage({"waiting"}) = {} /\ Stage({"announcing", "established"}) = {}
    BY <1>2, StageMembers DEF Claimed
  <1>5. Promise!Register
    BY <1>1, <1>3, <1>4 DEF Promise!Register
  <1>6. Refined
    BY <1>5 DEF Refined, Promise!PubNext
  <1>7. StageInv'
    BY <1>1, <1>2, <1>3 DEF StageInv
  <1> QED
    BY <1>6, <1>7

LEMMA InitRefines == Init => StageInv /\ Promise!PubInit
  <1> SUFFICES ASSUME Init PROVE StageInv /\ Promise!PubInit
    OBVIOUS
  <1>1. \A p \in Pairs : ann[p].state = "none"
    BY NoAnnouncerType DEF Init
  <1>2. /\ Stage({"probing"}) = {} /\ Stage({"waiting"}) = {}
        /\ Stage({"announcing", "established"}) = {}
    BY <1>1, StageMembers DEF Claimed
  <1> QED
    BY <1>1, <1>2 DEF Init, StageInv, Promise!PubInit

LEMMA NextRefines == IInv /\ StageInv /\ [Next]_vars => StageInv' /\ Refined
  <1> SUFFICES ASSUME IInv, StageInv, [Next]_vars PROVE StageInv' /\ Refined
    OBVIOUS
  <1>1. CASE Commit
    BY <1>1, CommitRealRefines DEF Commit, CanCommit
  <1>2. CASE HoldoffElapsed
    <2>1. alive /\ group = "registering"
      BY <1>2 DEF HoldoffElapsed, IInv, LiveInv, StageInv
    <2> QED
      BY <1>2, <2>1, CommitRealRefines DEF HoldoffElapsed
  <1>3. CASE UNCHANGED vars
    <2>1. /\ UNCHANGED <<alive, group, holdoff, flags>>
          /\ \A p \in Pairs : SameStage(ann[p].state, ann'[p].state)
      BY <1>3 DEF vars, SameStage
    <2> QED
      BY <2>1, QuietStep
  <1> QED
    BY <1>1, <1>2, <1>3, CommitHeldOffRefines, GivingUpRefines, UpdateRefines,
       AddEntryRefines, InterfaceUpRefines, InterfaceDownRefines, PostProbeRefines,
       ProbingDoneRefines, AnnounceRefines, ConflictRegisteredRefines
       DEF Next

\* An entry group implements Publication: the names it must probe for are
\* claimed together, when check_probed() finds that the last of them is probed
\* on every interface, and given up together by withdraw_entry(), whatever
\* timeouts, updates, conflicts, resets and interface changes come in between.
THEOREM GroupImplementsPublication == Spec => ImplementsPublication
  <1>1. Init => StageInv /\ Promise!PubInit
    BY InitRefines
  <1>2. IInv /\ StageInv /\ [Next]_vars => StageInv' /\ [Promise!PubNext]_Promise!pubVars
    BY NextRefines DEF Refined
  <1> QED
    BY <1>1, <1>2, Inductive, PTL DEF Spec, ImplementsPublication, Promise!PubSpec
=============================================================================
