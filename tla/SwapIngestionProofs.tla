------------------------- MODULE SwapIngestionProofs -------------------------
(****************************************************************************)
(* What holds of the ingestion of swaps for every log of swaps, every set   *)
(* of pairs, every size of chunks and any number of failures: no swap is    *)
(* dropped, swaps are processed in order, and the sessions have counted     *)
(* what was processed.                                                      *)
(****************************************************************************)
EXTENDS SwapIngestion, FiniteSetTheorems, WellFoundedInduction, TLAPS

------------------------------------------------------------------------------
(* The inductive invariant.                                                 *)

Rows == {"none", "PROCESSED", "FAILED"}
SessionRecord == [status : Status, observed : SUBSET Events, entry : {0} \cup Events,
                  counted : SUBSET Events]
Busy == {"chunk", "expire", "read", "logs", "commit"}
PassRecord ==
  [pc : Busy, live : SUBSET Pairs, next : UNION {[T -> Nat \ {0}] : T \in SUBSET Pairs},
   from : Nat \ {0}, head : Nat, done : {0} \cup Events]

\* The last block of the chunk of a pass, the pairs and the events it reads.
UntilOf(ps) == IF ps.from + ChunkSize - 1 < ps.head THEN ps.from + ChunkSize - 1 ELSE ps.head
Reads(ps, e) ==
  /\ Log[e].pair \in DOMAIN ps.next
  /\ ps.next[Log[e].pair] <= UntilOf(ps)
  /\ Log[e].block \in ps.next[Log[e].pair]..UntilOf(ps)

\* A pass reads each target from the block after its checkpoint, which stays
\* where it is while the pass runs; what it has left behind is processed.
PassSound(ps, hd, ck, mon, rw) ==
  \/ ps = NoPass
  \/ /\ ps \in PassRecord /\ ps.head <= hd
     /\ \A p \in DOMAIN ps.next : ps.next[p] = ck[p] + 1 /\ mon[p] # "retiring"
     /\ \A e \in Events : Reads(ps, e) /\ (e <= ps.done \/ ps.pc = "commit") => rw[e] = "PROCESSED"

\* The processed swaps of a pair are the first ones.
InSequence(rw) ==
  \A e, f \in Events : e < f /\ Log[e].pair = Log[f].pair /\ rw[f] = "PROCESSED" => rw[e] = "PROCESSED"

Passed(ck, rw) ==
  \A p \in Pairs : \A e \in EventsOf(p) : Log[e].block <= ck[p] => rw[e] = "PROCESSED"

\* A session and the swaps of its pair: D are processed, K have been claimed.
Unsettled(s) == s.entry = 0 /\ s.status \in InFlight \cup {"MANUAL_REVIEW"}
SessionSound(p, s, D, K) ==
  /\ s \in SessionRecord
  /\ s.status = Waiting => s.entry = 0
  /\ s.status = "HOLDING" => s.entry # 0
  /\ \A e \in s.observed \cup s.counted : e \in K /\ Log[e].pair = p
  /\ \A e, f \in s.observed : Log[e].tx = Log[f].tx => e = f
  /\ s.entry # 0 \/ Unsettled(s) => Enough(s)
  /\ s.status = Waiting => \A e \in D : Log[e].kind = "BUY" => Recorded(s.observed, e)
  /\ s.entry # 0 => \A e \in D : Log[e].kind = "BUY" /\ e > s.entry => Recorded(s.counted, e)
  /\ Unsettled(s) => \A e \in D : Log[e].kind = "BUY" => \E f \in s.observed : e <= f

ProcessedIn(p, rw) == {e \in EventsOf(p) : rw[e] = "PROCESSED"}
Known(rw) == {e \in Events : rw[e] # "none"}

IngestInv ==
  /\ head \in Nat
  /\ checkpoint \in [Pairs -> 0..head]
  /\ row \in [Events -> Rows]
  /\ session \in [Pairs -> SessionRecord]
  /\ monitor \in [Pairs -> {"on", "retiring", "off"}]
  /\ left \in [faults : 0..Faults, disturbances : 0..Disturbances]
  /\ PassSound(pass, head, checkpoint, monitor, row)
  /\ InSequence(row)
  /\ Passed(checkpoint, row)
  /\ \A p \in Pairs : SessionSound(p, session[p], ProcessedIn(p, row), Known(row))

------------------------------------------------------------------------------
(* Events, minima and what is recorded.                                     *)

LEMMA EventsTyped ==
  /\ Events \subseteq Nat \ {0} /\ IsFiniteSet(Events)
  /\ \A e \in Events : /\ Log[e].pair \in Pairs /\ Log[e].block \in Nat \ {0} /\ Log[e].tx \in Nat
                       /\ Log[e].kind \in {"BUY", "SELL"}
  /\ \A e, f \in Events : e < f => Log[e].block <= Log[f].block
  /\ FirstBuys \in Nat \ {0} /\ TargetBuys \in Nat \ {0} /\ ChunkSize \in Nat \ {0}
  /\ Faults \in Nat /\ Disturbances \in Nat
<1> DEFINE Swaps == [pair : Pairs, block : Nat \ {0}, tx : Nat, kind : {"BUY", "SELL"}]
<1>1. Log \in Seq(Swaps)
  BY IngestionAssumption
<1>2. Events = 1..Len(Log) /\ Len(Log) \in Nat
  BY <1>1 DEF Events
<1>3. IsFiniteSet(Events)
  <2>1. IsFiniteSet(1..Len(Log))
    BY <1>2, FS_Interval
  <2> QED  BY <1>2, <2>1
<1>4. \A e \in Events : Log[e] \in Swaps
  <2> HIDE DEF Swaps
  <2> QED  BY <1>1, <1>2
<1>5. \A e \in Events : /\ Log[e].pair \in Pairs /\ Log[e].block \in Nat \ {0} /\ Log[e].tx \in Nat
                        /\ Log[e].kind \in {"BUY", "SELL"}
  BY <1>4
<1> HIDE DEF Swaps
<1>6. Events \subseteq Nat \ {0}
  BY <1>2
<1> QED  BY <1>3, <1>5, <1>6, IngestionAssumption

LEMMA MinOfNats ==
  ASSUME NEW S \in SUBSET Nat, S # {}
  PROVE  Min(S) \in S /\ \A y \in S : Min(S) <= y
<1> DEFINE R == {ss \in Nat \X Nat : ss[1] < ss[2]}
<1>1. IsWellFoundedOn(R, Nat)
  BY NatLessThanWellFounded DEF OpToRel
<1> HIDE DEF R
<1>2. PICK x \in S : \A y \in S : ~(<<y, x>> \in R)
  BY <1>1, WFMin
<1>3. \A y \in S : ~(y < x)
  BY <1>2 DEF R
<1>4. x \in S /\ \A y \in S : x =< y
  BY <1>2, <1>3
<1> QED  BY <1>4 DEF Min

LEMMA EnoughGrows ==
  ASSUME NEW s, NEW t, t.observed \in SUBSET Events, s.observed \subseteq t.observed, Enough(s)
  PROVE  Enough(t)
<1>1. IsFiniteSet(t.observed)
  BY EventsTyped, FS_Subset
<1>2. Cardinality(s.observed) <= Cardinality(t.observed)
  BY <1>1, FS_Subset
<1>3. Cardinality(s.observed) \in Nat /\ Cardinality(t.observed) \in Nat
  <2>1. IsFiniteSet(s.observed)
    BY <1>1, FS_Subset
  <2> QED  BY <1>1, <2>1, FS_CardinalityType
<1> QED  BY <1>2, <1>3, EventsTyped DEF Enough

\* Transactions of a set of events that has one event of each.
LEMMA OneEventEach ==
  ASSUME NEW S \in SUBSET Events, \A e, f \in S : Log[e].tx = Log[f].tx => e = f
  PROVE  Cardinality({Log[e].tx : e \in S}) = Cardinality(S)
<1> DEFINE T == {Log[e].tx : e \in S}
           g == [e \in S |-> Log[e].tx]
<1>1. IsFiniteSet(S)
  BY EventsTyped, FS_Subset
<1>2. g \in Bijection(S, T)
  BY DEF Bijection, Injection, Surjection, IsInjective
<1>3. ExistsBijection(S, T)
  BY <1>2 DEF ExistsBijection
<1> HIDE DEF T
<1>4. Cardinality(T) = Cardinality(S)
  BY <1>1, <1>3, FS_Bijection
<1> QED  BY <1>4 DEF T

------------------------------------------------------------------------------
(* The handling of one event.                                               *)

LEMMA SoundOfFewer ==
  ASSUME NEW p, NEW s, NEW D, NEW K, NEW E, NEW L, SessionSound(p, s, D, K), E \subseteq D, K \subseteq L
  PROVE  SessionSound(p, s, E, L)
BY DEF SessionSound

LEMMA ObservedSound ==
  ASSUME NEW p \in Pairs, NEW s, NEW D \in SUBSET Events, NEW K \in SUBSET Events,
         SessionSound(p, s, D, K), NEW e \in Events, Log[e].pair = p, \A g \in D : g < e,
         s.status = Waiting, ~Recorded(s.observed, e),
         NEW x \in SessionRecord, x.observed = s.observed \cup {e}, x.counted = s.counted,
         x.status = Waiting => x.entry = 0, x.status = "HOLDING" => x.entry # 0,
         x.entry # 0 => \A f \in x.observed : f <= x.entry,
         x.entry # 0 \/ Unsettled(x) => Enough(x)
  PROVE  SessionSound(p, x, D \cup {e}, K \cup {e})
<1>1. \A g \in D \cup {e} : g \in Nat /\ g <= e
  BY EventsTyped
<1>2. \A g \in x.observed \cup x.counted : g \in K \cup {e} /\ Log[g].pair = p
  BY DEF SessionSound
<1>3. \A g, f \in x.observed : Log[g].tx = Log[f].tx => g = f
  BY DEF SessionSound, Recorded
<1>4. x.status = Waiting =>
        \A g \in D \cup {e} : Log[g].kind = "BUY" => Recorded(x.observed, g)
  BY DEF SessionSound, Recorded
<1>5. x.entry # 0 => \A g \in D \cup {e} : g <= x.entry
  <2>1. SUFFICES ASSUME x.entry # 0, NEW g \in D \cup {e} PROVE g <= x.entry
    OBVIOUS
  <2>2. e <= x.entry /\ x.entry \in Nat /\ e \in Nat /\ g \in Nat /\ g <= e
    BY <2>1, <1>1, EventsTyped DEF SessionRecord
  <2> QED  BY <2>2
<1>6. x.entry # 0 =>
        \A g \in D \cup {e} : Log[g].kind = "BUY" /\ g > x.entry => Recorded(x.counted, g)
  <2>1. x.entry = 0 \/ x.entry \in Events
    BY DEF SessionRecord
  <2>2. CASE x.entry \in Events
    <3>1. x.entry \in Nat
      BY <2>2, EventsTyped
    <3> QED  BY <1>1, <1>5, <3>1
  <2> QED  BY <2>1, <2>2
<1>7. \A g \in D \cup {e} : \E f \in x.observed : g <= f
  BY <1>1
<1> QED  BY <1>2, <1>3, <1>4, <1>6, <1>7 DEF SessionSound

LEMMA CountedSound ==
  ASSUME NEW p \in Pairs, NEW s, NEW D \in SUBSET Events, NEW K \in SUBSET Events,
         SessionSound(p, s, D, K), NEW e \in Events, Log[e].pair = p,
         s.status = "HOLDING",
         NEW x \in SessionRecord, x.observed = s.observed, x.counted = s.counted \cup {e},
         x.entry = s.entry, x.status # Waiting
  PROVE  SessionSound(p, x, D \cup {e}, K \cup {e})
<1>1. x.entry # 0 /\ ~Unsettled(x)
  BY DEF SessionSound, Unsettled
<1>2. \A g \in x.observed \cup x.counted : g \in K \cup {e} /\ Log[g].pair = p
  BY DEF SessionSound
<1>3. \A g, f \in x.observed : Log[g].tx = Log[f].tx => g = f
  BY DEF SessionSound
<1>4. Enough(x)
  BY <1>1 DEF SessionSound, Enough
<1>5. \A g \in D \cup {e} : Log[g].kind = "BUY" /\ g > x.entry => Recorded(x.counted, g)
  BY <1>1 DEF SessionSound, Recorded
<1> QED  BY <1>1, <1>2, <1>3, <1>4, <1>5 DEF SessionSound

LEMMA NeitherSound ==
  ASSUME NEW p \in Pairs, NEW s, NEW D \in SUBSET Events, NEW K \in SUBSET Events,
         SessionSound(p, s, D, K), NEW e \in Events, Log[e].pair = p,
         Monitorable(s), ~Observes(s, e), ~Counts(s, e)
  PROVE  SessionSound(p, s, D \cup {e}, K \cup {e})
<1>1. ~Unsettled(s)
  BY DEF Monitorable, Unsettled, InFlight, Waiting
<1>2. s.status = Waiting => \A g \in D \cup {e} : Log[g].kind = "BUY" => Recorded(s.observed, g)
  BY DEF SessionSound, Observes
<1>3. s.entry # 0 => s.status = "HOLDING"
  BY DEF Monitorable, SessionSound
<1>4. s.entry # 0 =>
        \A g \in D \cup {e} : Log[g].kind = "BUY" /\ g > s.entry => Recorded(s.counted, g)
  BY <1>3 DEF SessionSound, Counts
<1> QED  BY <1>1, <1>2, <1>4 DEF SessionSound

LEMMA HandledSound ==
  ASSUME NEW p \in Pairs, NEW s, NEW D \in SUBSET Events, NEW K \in SUBSET Events,
         SessionSound(p, s, D, K), NEW e \in Events, Log[e].pair = p, \A g \in D : g < e,
         Monitorable(s), NEW x \in Handled(s, e) \cup HalfWay(s, e)
  PROVE  SessionSound(p, x, D \cup {e}, K \cup {e})
<1>1. s \in SessionRecord
  BY DEF SessionSound
<1>2. CASE Observes(s, e)
  <2>1. s.status = Waiting /\ ~Recorded(s.observed, e) /\ ~Counts(s, e) /\ s.entry = 0
    BY <1>2 DEF Observes, Counts, Waiting, SessionSound
  <2>2. PICK t : t = Observed(s, e)
    OBVIOUS
  <2>3. /\ t \in SessionRecord /\ t.observed = s.observed \cup {e} /\ t.counted = s.counted
        /\ t.entry = 0
    BY <1>1, <2>1, <2>2 DEF Observed, SessionRecord
  <2>4. x \in Observe(s, e) \cup HalfWay(s, e)
    <3>1. Handled(s, e) = Observe(s, e)
      BY <1>2, <2>1 DEF Handled
    <3> QED  BY <3>1
  <2>5. \/ \E st \in {Waiting, "REJECTED"} : x = [t EXCEPT !.status = st]
        \/ /\ Enough(t)
           /\ \/ \E st \in {"REJECTED", "MANUAL_REVIEW", "RISK_CHECKING", "BUY_PENDING"} :
                   x = [t EXCEPT !.status = st]
              \/ \E k \in EntryPoints(t) : x = [t EXCEPT !.status = "HOLDING", !.entry = k]
    <3>1. CASE x \in Observe(s, e)
      <4>1. Observe(s, e) = IF ~Enough(t) THEN With(t, {Waiting, "REJECTED"})
                            ELSE With(t, {"REJECTED", "MANUAL_REVIEW"})
                                   \cup {[t EXCEPT !.status = "HOLDING", !.entry = k] : k \in EntryPoints(t)}
        BY <2>2 DEF Observe
      <4>2. CASE Enough(t)
        <5>1. x \in With(t, {"REJECTED", "MANUAL_REVIEW"})
                      \cup {[t EXCEPT !.status = "HOLDING", !.entry = k] : k \in EntryPoints(t)}
          BY <3>1, <4>1, <4>2
        <5>2. CASE x \in With(t, {"REJECTED", "MANUAL_REVIEW"})
          BY <4>2, <5>2 DEF With
        <5>3. CASE x \in {[t EXCEPT !.status = "HOLDING", !.entry = k] : k \in EntryPoints(t)}
          BY <4>2, <5>3
        <5> QED  BY <5>1, <5>2, <5>3
      <4>3. CASE ~Enough(t)
        BY <3>1, <4>1, <4>3 DEF With
      <4> QED  BY <4>2, <4>3
    <3>2. CASE x \in HalfWay(s, e)
      <4>1. HalfWay(s, e) =
              With(t, {Waiting} \cup IF Enough(t) THEN {"RISK_CHECKING", "BUY_PENDING"} ELSE {})
        BY <1>2, <2>1, <2>2 DEF HalfWay
      <4> QED  BY <3>2, <4>1 DEF With
    <3> QED  BY <2>4, <3>1, <3>2
  <2>6. CASE \E st \in {Waiting, "REJECTED"} : x = [t EXCEPT !.status = st]
    <3>1. PICK st \in {Waiting, "REJECTED"} : x = [t EXCEPT !.status = st]
      BY <2>6
    <3>2. st \in Status /\ st \notin InFlight \cup {"MANUAL_REVIEW", "HOLDING"}
      BY <3>1 DEF Status, InFlight, Waiting
    <3>3. /\ x \in SessionRecord /\ x.observed = s.observed \cup {e} /\ x.counted = s.counted
          /\ x.entry = 0 /\ x.status = st
      BY <2>3, <3>1, <3>2 DEF SessionRecord
    <3> QED  BY <2>1, <3>2, <3>3, ObservedSound DEF Unsettled
  <2>7. CASE /\ Enough(t)
             /\ \E st \in {"REJECTED", "MANUAL_REVIEW", "RISK_CHECKING", "BUY_PENDING"} :
                  x = [t EXCEPT !.status = st]
    <3>1. PICK st \in {"REJECTED", "MANUAL_REVIEW", "RISK_CHECKING", "BUY_PENDING"} :
            x = [t EXCEPT !.status = st]
      BY <2>7
    <3>2. st \in Status /\ st \notin {Waiting, "HOLDING"}
      BY <3>1 DEF Status, InFlight, Waiting
    <3>3. /\ x \in SessionRecord /\ x.observed = s.observed \cup {e} /\ x.counted = s.counted
          /\ x.entry = 0 /\ x.status = st /\ x.observed = t.observed
      BY <2>3, <3>1, <3>2 DEF SessionRecord
    <3>4. Enough(x)
      BY <2>7, <3>3 DEF Enough
    <3> QED  BY <2>1, <3>2, <3>3, <3>4, ObservedSound
  <2>8. CASE /\ Enough(t)
             /\ \E k \in EntryPoints(t) : x = [t EXCEPT !.status = "HOLDING", !.entry = k]
    <3>1. PICK k \in EntryPoints(t) : x = [t EXCEPT !.status = "HOLDING", !.entry = k]
      BY <2>8
    <3>2. k \in Events /\ k # 0 /\ \A f \in t.observed : f <= k
      BY <3>1, EventsTyped DEF EntryPoints
    <3>3. /\ x \in SessionRecord /\ x.observed = s.observed \cup {e} /\ x.counted = s.counted
          /\ x.entry = k /\ x.status = "HOLDING" /\ x.observed = t.observed
      BY <2>3, <3>1, <3>2 DEF SessionRecord, Status
    <3>4. Enough(x)
      BY <2>8, <3>3 DEF Enough
    <3>5. x.status # Waiting
      BY <3>3 DEF Waiting
    <3> QED  BY <2>1, <3>2, <3>3, <3>4, <3>5, ObservedSound
  <2> QED  BY <2>5, <2>6, <2>7, <2>8
<1>3. CASE ~Observes(s, e) /\ Counts(s, e)
  <2>1. s.status = "HOLDING"
    BY <1>3 DEF Counts
  <2>2. PICK t : t = Counted(s, e)
    OBVIOUS
  <2>3. /\ t \in SessionRecord /\ t.observed = s.observed /\ t.counted = s.counted \cup {e}
        /\ t.entry = s.entry /\ t.status = "HOLDING"
    BY <1>1, <2>1, <2>2 DEF Counted, SessionRecord
  <2>4. x \in Count(s, e) \cup HalfWay(s, e)
    BY <1>3 DEF Handled
  <2>5. x = t \/ \E st \in {"HOLDING", "CLOSED", "MANUAL_REVIEW", "SELL_PENDING"} : x = [t EXCEPT !.status = st]
    BY <1>3, <2>2, <2>4 DEF Count, HalfWay, With
  <2>6. /\ x \in SessionRecord /\ x.observed = s.observed /\ x.counted = s.counted \cup {e}
        /\ x.entry = s.entry /\ x.status \in {"HOLDING", "CLOSED", "MANUAL_REVIEW", "SELL_PENDING"}
    <3>1. CASE x = t
      BY <2>3, <3>1
    <3>2. CASE \E st \in {"HOLDING", "CLOSED", "MANUAL_REVIEW", "SELL_PENDING"} : x = [t EXCEPT !.status = st]
      <4>1. PICK st \in {"HOLDING", "CLOSED", "MANUAL_REVIEW", "SELL_PENDING"} :
              x = [t EXCEPT !.status = st]
        BY <3>2
      <4>2. st \in Status
        BY DEF Status, InFlight
      <4> QED  BY <2>3, <4>1, <4>2 DEF SessionRecord
    <3> QED  BY <2>5, <3>1, <3>2
  <2>7. x.status # Waiting
    BY <2>6 DEF Waiting
  <2> QED  BY <2>1, <2>6, <2>7, CountedSound
<1>4. CASE ~Observes(s, e) /\ ~Counts(s, e)
  <2>1. x = s
    BY <1>4 DEF Handled, HalfWay
  <2> QED  BY <1>4, <2>1, NeitherSound
<1> QED  BY <1>2, <1>3, <1>4

LEMMA InterruptedSound ==
  ASSUME NEW p \in Pairs, NEW s, NEW D \in SUBSET Events, NEW K \in SUBSET Events,
         SessionSound(p, s, D, K), NEW e \in Events, Log[e].pair = p, \A g \in D : g < e,
         Monitorable(s), NEW x \in Interrupted(s, e)
  PROVE  SessionSound(p, x, D, K \cup {e})
<1>1. CASE x = s
  BY <1>1, SoundOfFewer
<1>2. CASE x # s
  <2>1. x \in Handled(s, e) \cup HalfWay(s, e)
    BY <1>2 DEF Interrupted
  <2>2. SessionSound(p, x, D \cup {e}, K \cup {e})
    BY <2>1, HandledSound
  <2> QED  BY <2>2, SoundOfFewer
<1> QED  BY <1>1, <1>2

------------------------------------------------------------------------------
(* A pass and what it has left behind.                                      *)

LEMMA RecordOfPass ==
  ASSUME NEW ps \in PassRecord
  PROVE  /\ ps.pc \in Busy /\ ps.live \in SUBSET Pairs /\ DOMAIN ps.next \subseteq Pairs
         /\ ps.next \in [DOMAIN ps.next -> Nat \ {0}] /\ ps.from \in Nat \ {0} /\ ps.head \in Nat
         /\ ps.done \in {0} \cup Events /\ UntilOf(ps) \in Nat /\ UntilOf(ps) <= ps.head
<1>1. /\ ps.pc \in Busy /\ ps.live \in SUBSET Pairs /\ ps.from \in Nat \ {0} /\ ps.head \in Nat
      /\ ps.done \in {0} \cup Events
      /\ ps.next \in UNION {[T -> Nat \ {0}] : T \in SUBSET Pairs}
  BY DEF PassRecord
<1>2. PICK T \in SUBSET Pairs : ps.next \in [T -> Nat \ {0}]
  BY <1>1
<1>3. DOMAIN ps.next \subseteq Pairs /\ ps.next \in [DOMAIN ps.next -> Nat \ {0}]
  BY <1>2
<1>4. UntilOf(ps) \in Nat /\ UntilOf(ps) <= ps.head
  BY <1>1, EventsTyped DEF UntilOf
<1> QED  BY <1>1, <1>3, <1>4

LEMMA BusyIsNotIdle ==
  ASSUME NEW ps \in PassRecord PROVE ps # NoPass
BY DEF PassRecord, NoPass, Busy

LEMMA FrameOfPass ==
  ASSUME NEW ps, NEW hd \in Nat, NEW ck, NEW mon, NEW rw, PassSound(ps, hd, ck, mon, rw),
         NEW hd2 \in Nat, hd <= hd2, NEW ck2, NEW mon2, NEW rw2,
         ps # NoPass => \A p \in DOMAIN ps.next : ck2[p] = ck[p] /\ mon2[p] # "retiring",
         \A e \in Events : rw[e] = "PROCESSED" => rw2[e] = "PROCESSED"
  PROVE  PassSound(ps, hd2, ck2, mon2, rw2)
<1>1. CASE ps = NoPass
  BY <1>1 DEF PassSound
<1>2. CASE ps # NoPass
  <2>1. ps \in PassRecord /\ ps.head <= hd
    BY <1>2 DEF PassSound
  <2>2. ps.head <= hd2
    BY <2>1, RecordOfPass
  <2> QED  BY <1>2, <2>1, <2>2 DEF PassSound
<1> QED  BY <1>1, <1>2

LEMMA StepOfPass ==
  ASSUME NEW ps, NEW hd, NEW ck, NEW mon, NEW rw, PassSound(ps, hd, ck, mon, rw), ps # NoPass,
         NEW c \in Busy, c = "commit" => \A e \in Events : Reads(ps, e) => rw[e] = "PROCESSED"
  PROVE  PassSound([ps EXCEPT !.pc = c], hd, ck, mon, rw)
<1>1. ps \in PassRecord
  BY DEF PassSound
<1>2. PICK ps2 : ps2 = [ps EXCEPT !.pc = c]
  OBVIOUS
<1>3. /\ ps2 \in PassRecord /\ ps2.pc = c /\ ps2.next = ps.next /\ ps2.from = ps.from
      /\ ps2.head = ps.head /\ ps2.done = ps.done
  BY <1>1, <1>2 DEF PassRecord
<1>4. \A e : Reads(ps2, e) <=> Reads(ps, e)
  BY <1>3 DEF Reads, UntilOf
<1>5. PassSound(ps2, hd, ck, mon, rw)
  BY <1>3, <1>4 DEF PassSound
<1> QED  BY <1>2, <1>5

LEMMA MarkOfPass ==
  ASSUME NEW ps, NEW hd, NEW ck, NEW mon, NEW rw, PassSound(ps, hd, ck, mon, rw), ps # NoPass,
         NEW e \in Events,
         \A f \in Events : Reads(ps, f) /\ (f <= e \/ ps.pc = "commit") => rw[f] = "PROCESSED"
  PROVE  PassSound([ps EXCEPT !.done = e], hd, ck, mon, rw)
<1>1. ps \in PassRecord
  BY DEF PassSound
<1>2. PICK ps2 : ps2 = [ps EXCEPT !.done = e]
  OBVIOUS
<1>3. /\ ps2 \in PassRecord /\ ps2.pc = ps.pc /\ ps2.next = ps.next /\ ps2.from = ps.from
      /\ ps2.head = ps.head /\ ps2.done = e
  BY <1>1, <1>2 DEF PassRecord
<1>4. \A f : Reads(ps2, f) <=> Reads(ps, f)
  BY <1>3 DEF Reads, UntilOf
<1>5. PassSound(ps2, hd, ck, mon, rw)
  BY <1>3, <1>4 DEF PassSound
<1> QED  BY <1>2, <1>5

LEMMA LeftByPass ==
  ASSUME NEW ps, NEW hd, NEW ck, NEW mon \in [Pairs -> {"on", "retiring", "off"}], NEW rw,
         PassSound(ps, hd, ck, mon, rw), NEW p \in Pairs
  PROVE  PassSound([ps EXCEPT !.live = @ \ {p}], hd, ck, [mon EXCEPT ![p] = "off"], rw)
<1> DEFINE mon2 == [mon EXCEPT ![p] = "off"]
<1>1. CASE ps = NoPass
  <2>1. [ps EXCEPT !.live = @ \ {p}] = NoPass
    <3>1. ps.live \ {p} = {}
      BY <1>1 DEF NoPass
    <3>2. [ps EXCEPT !.live = {}] = NoPass
      <4>1. PICK x : x = <<>>
        OBVIOUS
      <4>2. ps = [pc |-> "idle", live |-> {}, next |-> x, from |-> 0, head |-> 0, done |-> 0]
        BY <1>1, <4>1 DEF NoPass
      <4>3. [ps EXCEPT !.live = {}] = ps
        BY <4>2
      <4> QED  BY <1>1, <4>3
    <3> QED  BY <3>1, <3>2
  <2> QED  BY <2>1 DEF PassSound
<1>2. CASE ps # NoPass
  <2>1. ps \in PassRecord
    BY <1>2 DEF PassSound
  <2>2. PICK ps2 : ps2 = [ps EXCEPT !.live = @ \ {p}]
    OBVIOUS
  <2>3. /\ ps2 \in PassRecord /\ ps2.pc = ps.pc /\ ps2.next = ps.next /\ ps2.from = ps.from
        /\ ps2.head = ps.head /\ ps2.done = ps.done
    BY <2>1, <2>2 DEF PassRecord
  <2>4. \A f : Reads(ps2, f) <=> Reads(ps, f)
    BY <2>3 DEF Reads, UntilOf
  <2>5. DOMAIN ps.next \subseteq Pairs
    BY <2>1, RecordOfPass
  <2>6. \A q \in DOMAIN ps.next : mon2[q] # "retiring"
    BY <1>2, <2>5 DEF PassSound
  <2> HIDE DEF mon2
  <2>7. PassSound(ps2, hd, ck, mon2, rw)
    BY <1>2, <2>3, <2>4, <2>6 DEF PassSound
  <2> QED  BY <2>2, <2>7 DEF mon2
<1> QED  BY <1>1, <1>2

\* The events a pass has left are those of its concerned pairs in its chunk.
LEMMA PendingReads ==
  ASSUME NEW e \in Events
  PROVE  e \in Pending <=> e > pass.done /\ Reads(pass, e)
BY DEF Pending, Reads, Concerned, Targets, Until, UntilOf

------------------------------------------------------------------------------
(* The rows of the events.                                                  *)

LEMMA RowChanged ==
  ASSUME NEW rw, NEW e, NEW r, NEW p, NEW rw2,
         rw \in [Events -> Rows], e \in Events, p = Log[e].pair, rw[e] # "PROCESSED",
         r \in {"PROCESSED", "FAILED"}, rw2 \in [Events -> Rows], rw2[e] = r,
         \A f \in Events : f # e => rw2[f] = rw[f]
  PROVE  /\ Known(rw2) = Known(rw) \cup {e}
         /\ \A f \in Events : rw[f] = "PROCESSED" => rw2[f] = "PROCESSED"
         /\ \A q \in Pairs : q # p \/ r = "FAILED" => ProcessedIn(q, rw2) = ProcessedIn(q, rw)
         /\ r = "PROCESSED" => ProcessedIn(p, rw2) = ProcessedIn(p, rw) \cup {e}
<1>1. Known(rw2) = Known(rw) \cup {e}
  BY DEF Known
<1>2. \A f \in Events : rw[f] = "PROCESSED" => rw2[f] = "PROCESSED"
  OBVIOUS
<1>3. \A q \in Pairs : q # p \/ r = "FAILED" => ProcessedIn(q, rw2) = ProcessedIn(q, rw)
  BY DEF ProcessedIn, EventsOf
<1>4. r = "PROCESSED" => ProcessedIn(p, rw2) = ProcessedIn(p, rw) \cup {e}
  BY DEF ProcessedIn, EventsOf
<1> QED  BY <1>1, <1>2, <1>3, <1>4

LEMMA SequenceKept ==
  ASSUME NEW rw \in [Events -> Rows], InSequence(rw), NEW e \in Events, rw[e] # "PROCESSED",
         NEW r \in {"PROCESSED", "FAILED"},
         NEW rw2, rw2[e] = r, \A f \in Events : f # e => rw2[f] = rw[f],
         r = "PROCESSED" =>
           \A f \in Events : f < e /\ Log[f].pair = Log[e].pair => rw[f] = "PROCESSED"
  PROVE  InSequence(rw2)
<1>1. \A f \in Events : rw[f] = "PROCESSED" => rw2[f] = "PROCESSED"
  OBVIOUS
<1>2. SUFFICES ASSUME NEW f \in Events, NEW g \in Events, f < g, Log[f].pair = Log[g].pair,
                      rw2[g] = "PROCESSED"
               PROVE  rw2[f] = "PROCESSED"
  BY DEF InSequence
<1>3. CASE g = e
  BY <1>1, <1>2, <1>3
<1>4. CASE g # e
  <2>1. rw[g] = "PROCESSED"
    BY <1>2, <1>4
  <2>2. rw[f] = "PROCESSED"
    BY <1>2, <2>1 DEF InSequence
  <2> QED  BY <1>1, <2>2
<1> QED  BY <1>3, <1>4

------------------------------------------------------------------------------
(* The initial state and the steps of the pass.                             *)

LEMMA IngestInitInv == IngestInit => IngestInv
<1> SUFFICES ASSUME IngestInit PROVE IngestInv
  OBVIOUS
<1>1. head = 0 /\ pass = NoPass /\ left = [faults |-> Faults, disturbances |-> Disturbances]
  BY DEF IngestInit
<1>2. checkpoint = [p \in Pairs |-> 0] /\ row = [e \in Events |-> "none"]
  BY DEF IngestInit
<1>3. monitor = [p \in Pairs |-> "on"]
  BY DEF IngestInit
<1>4. \A p \in Pairs : session[p] = [status |-> Waiting, observed |-> {}, entry |-> 0, counted |-> {}]
  BY DEF IngestInit
<1>5. session = [p \in Pairs |-> [status |-> Waiting, observed |-> {}, entry |-> 0, counted |-> {}]]
  BY DEF IngestInit
<1>6. left \in [faults : 0..Faults, disturbances : 0..Disturbances]
  BY <1>1, EventsTyped
<1>7. PassSound(pass, head, checkpoint, monitor, row)
  BY <1>1 DEF PassSound
<1>8. row \in [Events -> Rows] /\ InSequence(row)
  BY <1>2 DEF Rows, InSequence
<1>9. Passed(checkpoint, row)
  <2>1. SUFFICES ASSUME NEW p \in Pairs, NEW e \in EventsOf(p), Log[e].block <= checkpoint[p]
                 PROVE  FALSE
    BY DEF Passed
  <2>2. checkpoint[p] = 0 /\ Log[e].block \in Nat \ {0}
    BY <1>2, EventsTyped DEF EventsOf
  <2> QED  BY <2>1, <2>2
<1>10. session \in [Pairs -> SessionRecord]
  BY <1>5 DEF SessionRecord, Status
<1>11. \A p \in Pairs : SessionSound(p, session[p], ProcessedIn(p, row), Known(row))
  <2>1. SUFFICES ASSUME NEW p \in Pairs PROVE SessionSound(p, session[p], ProcessedIn(p, row), Known(row))
    OBVIOUS
  <2>2. PICK s : s = session[p]
    OBVIOUS
  <2>3. s.status = Waiting /\ s.observed = {} /\ s.entry = 0 /\ s.counted = {} /\ s \in SessionRecord
    BY <1>4, <1>10, <2>2
  <2>4. ~Unsettled(s) /\ s.status # "HOLDING"
    BY <2>3 DEF Unsettled, Waiting, InFlight
  <2>5. ProcessedIn(p, row) = {}
    BY <1>2 DEF ProcessedIn, EventsOf
  <2>6. SessionSound(p, s, {}, Known(row))
    BY <2>3, <2>4 DEF SessionSound
  <2> QED  BY <2>2, <2>5, <2>6
<1> QED  BY <1>1, <1>2, <1>3, <1>6, <1>7, <1>8, <1>9, <1>10, <1>11 DEF IngestInv

\* A step that changes nothing but the pass.
LEMMA OnlyPass ==
  ASSUME IngestInv, passUnchanged, PassSound(pass', head, checkpoint, monitor, row)
  PROVE  IngestInv'
<1>1. /\ head' = head /\ checkpoint' = checkpoint /\ row' = row /\ session' = session
      /\ monitor' = monitor /\ left' = left
  BY DEF passUnchanged
<1> QED  BY <1>1 DEF IngestInv

LEMMA EndOfPass ==
  ASSUME EndPass, NEW hd, NEW ck, NEW mon, NEW rw PROVE PassSound(pass', hd, ck, mon, rw)
BY DEF EndPass, PassSound

LEMMA SnapshotInv ==
  ASSUME IngestInv, NEW targets \in SUBSET On, Snapshot(targets)
  PROVE  IngestInv'
<1> DEFINE next == [p \in targets |-> checkpoint[p] + 1]
           starts == {next[p] : p \in targets}
<1>1. targets \subseteq Pairs /\ \A p \in targets : monitor[p] = "on" /\ checkpoint[p] \in 0..head
  BY DEF On, IngestInv
<1>2. next \in [targets -> Nat \ {0}] /\ head \in Nat
  BY <1>1 DEF IngestInv
<1>3. starts \subseteq Nat \ {0} /\ starts # {}
  BY <1>2 DEF Snapshot
<1>4. Min(starts) \in Nat \ {0}
  <2> HIDE DEF starts
  <2>1. Min(starts) \in starts
    BY <1>3, MinOfNats
  <2> QED  BY <1>3, <2>1
<1>5. pass' = [pc |-> "chunk", live |-> targets, next |-> next, from |-> Min(starts),
               head |-> head, done |-> 0]
  BY DEF Snapshot
<1>6. PICK n, m : n = next /\ m = Min(starts)
  OBVIOUS
<1>7. n \in [targets -> Nat \ {0}] /\ m \in Nat \ {0} /\ \A p \in targets : n[p] = checkpoint[p] + 1
  BY <1>2, <1>4, <1>6
<1> HIDE DEF next, starts
<1>8. /\ pass' \in PassRecord /\ pass'.next = n /\ pass'.head = head /\ pass'.done = 0
      /\ pass'.pc = "chunk"
  BY <1>1, <1>2, <1>5, <1>6, <1>7 DEF PassRecord, Busy
<1>9. \A e \in Events : ~(e <= pass'.done) /\ pass'.pc # "commit"
  <2>1. SUFFICES ASSUME NEW e \in Events PROVE ~(e <= 0)
    BY <1>8
  <2>2. e \in Nat \ {0}
    BY EventsTyped
  <2> QED  BY <2>2
<1>10. \A p \in targets : n[p] = checkpoint[p] + 1 /\ monitor[p] # "retiring"
  BY <1>1, <1>7
<1>11. PassSound(pass', head, checkpoint, monitor, row)
  <2>1. DOMAIN pass'.next = targets /\ pass'.head <= head
    BY <1>2, <1>7, <1>8
  <2> QED  BY <1>8, <1>9, <1>10, <2>1 DEF PassSound
<1> QED  BY <1>11, OnlyPass DEF Snapshot

LEMMA StepInv ==
  ASSUME IngestInv, pass.pc # "idle", passUnchanged, NEW c \in Busy, Step(c),
         c = "commit" => \A e \in Events : Reads(pass, e) => row[e] = "PROCESSED"
  PROVE  IngestInv'
<1>1. pass # NoPass
  BY DEF NoPass
<1>2. PassSound(pass, head, checkpoint, monitor, row)
  BY DEF IngestInv
<1>3. PassSound([pass EXCEPT !.pc = c], head, checkpoint, monitor, row)
  <2>1. PICK ps : ps = pass
    OBVIOUS
  <2>2. PICK hd, ck, mon, rw : hd = head /\ ck = checkpoint /\ mon = monitor /\ rw = row
    OBVIOUS
  <2>3. PassSound(ps, hd, ck, mon, rw) /\ ps # NoPass
    BY <1>1, <1>2, <2>1, <2>2
  <2>4. PassSound([ps EXCEPT !.pc = c], hd, ck, mon, rw)
    BY <2>1, <2>2, <2>3, StepOfPass
  <2> QED  BY <2>1, <2>2, <2>4
<1>4. PassSound(pass', head, checkpoint, monitor, row)
  BY <1>3 DEF Step
<1> QED  BY <1>4, OnlyPass

LEMMA LogsDoneInv == ASSUME IngestInv, LogsDone PROVE IngestInv'
<1>1. pass # NoPass /\ pass.pc = "logs" /\ Pending = {}
  BY DEF LogsDone, NoPass
<1>2. PassSound(pass, head, checkpoint, monitor, row)
  BY DEF IngestInv
<1>3. pass \in PassRecord
  BY <1>1, <1>2 DEF PassSound
<1>4. \A e \in Events : Reads(pass, e) => row[e] = "PROCESSED"
  <2>1. SUFFICES ASSUME NEW e \in Events, Reads(pass, e) PROVE row[e] = "PROCESSED"
    OBVIOUS
  <2>2. ~(e > pass.done)
    BY <1>1, <2>1, PendingReads
  <2>3. e \in Nat /\ pass.done \in Nat
    <3>1. pass.done \in {0} \cup Events
      BY <1>3, RecordOfPass
    <3>2. e \in Nat /\ Events \subseteq Nat
      BY EventsTyped
    <3>3. CASE pass.done = 0
      BY <3>2, <3>3
    <3>4. CASE pass.done \in Events
      BY <3>2, <3>4
    <3> QED  BY <3>1, <3>3, <3>4
  <2>4. e <= pass.done
    BY <2>2, <2>3
  <2> QED  BY <1>1, <1>2, <2>1, <2>4 DEF PassSound
<1>5. "commit" \in Busy /\ Step("commit") /\ passUnchanged /\ pass.pc # "idle"
  BY <1>1 DEF LogsDone, Busy
<1> QED  BY <1>4, <1>5, StepInv

LEMMA MoveInv ==
  ASSUME IngestInv, PassDone \/ BeginChunk \/ NoneExpires \/ ReadLogs \/ TargetGone
  PROVE  IngestInv'
<1>1. CASE PassDone \/ TargetGone
  <2>1. EndPass /\ passUnchanged
    BY <1>1 DEF PassDone, TargetGone
  <2>2. PassSound(pass', head, checkpoint, monitor, row)
    BY <2>1, EndOfPass
  <2> QED  BY <2>1, <2>2, OnlyPass
<1>2. CASE BeginChunk
  <2>1. "expire" \in Busy /\ Step("expire") /\ passUnchanged /\ pass.pc # "idle"
    BY <1>2 DEF BeginChunk, Busy
  <2> QED  BY <2>1, StepInv
<1>3. CASE NoneExpires
  <2>1. "read" \in Busy /\ Step("read") /\ passUnchanged /\ pass.pc # "idle"
    BY <1>3 DEF NoneExpires, Busy
  <2> QED  BY <2>1, StepInv
<1>4. CASE ReadLogs
  <2>1. "logs" \in Busy /\ Step("logs") /\ passUnchanged /\ pass.pc # "idle"
    BY <1>4 DEF ReadLogs, Busy
  <2> QED  BY <2>1, StepInv
<1> QED  BY <1>1, <1>2, <1>3, <1>4

LEMMA CommitChunkInv == ASSUME IngestInv, CommitChunk PROVE IngestInv'
<1> DEFINE ck2 == [p \in Pairs |-> IF p \in Concerned THEN Until ELSE checkpoint[p]]
           next2 == [p \in Targets |-> IF p \in Concerned THEN Until + 1 ELSE pass.next[p]]
<1>1. pass # NoPass /\ pass.pc = "commit"
  BY DEF CommitChunk, NoPass
<1>2. /\ pass \in PassRecord /\ pass.head <= head
      /\ \A p \in DOMAIN pass.next : pass.next[p] = checkpoint[p] + 1 /\ monitor[p] # "retiring"
      /\ \A e \in Events : Reads(pass, e) => row[e] = "PROCESSED"
  BY <1>1 DEF IngestInv, PassSound
<1>3. /\ Targets \subseteq Pairs /\ pass.next \in [Targets -> Nat \ {0}] /\ Until \in Nat
      /\ Until <= pass.head /\ pass.head \in Nat /\ Concerned \subseteq Targets
  BY <1>2, RecordOfPass DEF Targets, Until, UntilOf, Concerned
<1>4. head \in Nat /\ checkpoint \in [Pairs -> 0..head] /\ Until \in 0..head
  BY <1>2, <1>3 DEF IngestInv
<1>5. checkpoint' = ck2 /\ ck2 \in [Pairs -> 0..head]
  BY <1>4 DEF CommitChunk
<1>6. pass' = [pass EXCEPT !.pc = "chunk", !.from = Until + 1, !.done = 0, !.next = next2]
  BY DEF CommitChunk
<1>7. next2 \in [Targets -> Nat \ {0}] /\ \A p \in Targets : next2[p] = ck2[p] + 1
  BY <1>2, <1>3 DEF Targets
<1>8. PICK n, u, ck : n = next2 /\ u = Until + 1 /\ ck = ck2
  OBVIOUS
<1>9. /\ n \in [Targets -> Nat \ {0}] /\ u \in Nat \ {0} /\ ck \in [Pairs -> 0..head]
      /\ (\A p \in Targets : n[p] = ck[p] + 1) /\ checkpoint' = ck
      /\ pass' = [pass EXCEPT !.pc = "chunk", !.from = u, !.done = 0, !.next = n]
  <2>1. n \in [Targets -> Nat \ {0}] /\ \A p \in Targets : n[p] = ck[p] + 1
    BY <1>7, <1>8
  <2>2. u \in Nat \ {0}
    BY <1>3, <1>8
  <2> QED  BY <1>5, <1>6, <1>8, <2>1, <2>2
<1>10. Passed(ck2, row)
  <2>1. SUFFICES ASSUME NEW p \in Pairs, NEW e \in EventsOf(p), Log[e].block <= ck2[p]
                 PROVE  row[e] = "PROCESSED"
    BY DEF Passed
  <2>2. e \in Events /\ Log[e].pair = p /\ Log[e].block \in Nat
    BY EventsTyped DEF EventsOf
  <2>3. CASE p \notin Concerned
    <3>1. Log[e].block <= checkpoint[p]
      BY <2>1, <2>3
    <3> QED  BY <3>1 DEF IngestInv, Passed
  <2>4. CASE p \in Concerned
    <3>1. Log[e].block <= Until /\ p \in Targets /\ pass.next[p] <= Until
      BY <2>1, <2>4 DEF Concerned
    <3>2. pass.next[p] = checkpoint[p] + 1 /\ checkpoint[p] \in Nat
      BY <1>2, <1>4, <3>1 DEF Targets
    <3>3. CASE Log[e].block <= checkpoint[p]
      BY <3>3 DEF IngestInv, Passed
    <3>4. CASE ~(Log[e].block <= checkpoint[p])
      <4>1. Log[e].block \in pass.next[p]..Until
        BY <1>3, <2>2, <3>1, <3>2, <3>4
      <4>2. Reads(pass, e)
        BY <2>2, <3>1, <4>1 DEF Reads, Targets, Until, UntilOf
      <4> QED  BY <1>2, <2>2, <4>2
    <3> QED  BY <3>3, <3>4
  <2> QED  BY <2>3, <2>4
<1> HIDE DEF ck2, next2
<1>11. /\ pass' \in PassRecord /\ pass'.pc = "chunk" /\ pass'.next = n /\ pass'.done = 0
       /\ pass'.head = pass.head
  <2>1. n \in UNION {[T -> Nat \ {0}] : T \in SUBSET Pairs}
    BY <1>3, <1>9
  <2>2. PICK a, b : a = pass.live /\ b = pass.head
    OBVIOUS
  <2>3. a \in SUBSET Pairs /\ b \in Nat
    BY <1>2, <2>2 DEF PassRecord
  <2>4. pass' = [pc |-> "chunk", live |-> a, next |-> n, from |-> u, head |-> b, done |-> 0]
    BY <1>2, <1>9, <2>2 DEF PassRecord
  <2> QED  BY <1>9, <2>1, <2>2, <2>3, <2>4 DEF PassRecord, Busy
<1>12. \A e \in Events : ~(e <= 0)
  <2>1. Events \subseteq Nat \ {0}
    BY EventsTyped
  <2> QED  BY <2>1
<1>13. PassSound(pass', head, ck, monitor, row)
  <2>1. DOMAIN n = Targets
    BY <1>9
  <2>2. \A p \in Targets : monitor[p] # "retiring"
    BY <1>2 DEF Targets
  <2>3. \A p \in DOMAIN pass'.next : pass'.next[p] = ck[p] + 1 /\ monitor[p] # "retiring"
    BY <1>9, <1>11, <2>1, <2>2
  <2> QED  BY <1>2, <1>11, <1>12, <2>3 DEF PassSound
<1>14. UNCHANGED <<head, row, session, monitor, left>>
  BY DEF CommitChunk
<1> QED  BY <1>5, <1>8, <1>9, <1>10, <1>13, <1>14 DEF IngestInv

LEMMA SpendTyped ==
  ASSUME left \in [faults : 0..Faults, disturbances : 0..Disturbances],
         Spend("faults") \/ Spend("disturbances")
  PROVE  left' \in [faults : 0..Faults, disturbances : 0..Disturbances]
<1>1. left.faults \in 0..Faults /\ left.disturbances \in 0..Disturbances
  OBVIOUS
<1>2. Faults \in Nat /\ Disturbances \in Nat
  BY EventsTyped
<1>3. CASE Spend("faults")
  <2>1. left.faults > 0 /\ left' = [left EXCEPT !.faults = left.faults - 1]
    BY <1>3 DEF Spend
  <2>2. left.faults - 1 \in 0..Faults
    BY <1>1, <1>2, <2>1
  <2> QED  BY <2>1, <2>2
<1>4. CASE Spend("disturbances")
  <2>1. left.disturbances > 0 /\ left' = [left EXCEPT !.disturbances = left.disturbances - 1]
    BY <1>4 DEF Spend
  <2>2. left.disturbances - 1 \in 0..Disturbances
    BY <1>1, <1>2, <2>1
  <2> QED  BY <2>1, <2>2
<1> QED  BY <1>3, <1>4

LEMMA PassFailsInv == ASSUME IngestInv, PassFails PROVE IngestInv'
<1>1. left' \in [faults : 0..Faults, disturbances : 0..Disturbances]
  BY SpendTyped DEF PassFails, IngestInv
<1>2. PassSound(pass', head, checkpoint, monitor, row)
  BY EndOfPass DEF PassFails
<1>3. UNCHANGED <<head, checkpoint, row, session, monitor>>
  BY DEF PassFails
<1> QED  BY <1>1, <1>2, <1>3 DEF IngestInv

\* What may be known of the event whose turn it is.
LEMMA DueFacts ==
  ASSUME IngestInv, NEW e \in Events, Due(e)
  PROVE  /\ pass # NoPass /\ pass \in PassRecord /\ Reads(pass, e) /\ e > pass.done
         /\ \A f \in Events : Reads(pass, f) /\ f < e => row[f] = "PROCESSED"
         /\ \A f \in Events : f < e /\ Log[f].pair = Log[e].pair => row[f] = "PROCESSED"
         /\ Log[e].pair \in Pairs
<1>1. pass.pc = "logs" /\ Pending # {} /\ e = Min(Pending) /\ pass # NoPass
  BY DEF Due, First, NoPass
<1>2. /\ pass \in PassRecord
      /\ \A p \in DOMAIN pass.next : pass.next[p] = checkpoint[p] + 1 /\ monitor[p] # "retiring"
      /\ \A f \in Events : Reads(pass, f) /\ f <= pass.done => row[f] = "PROCESSED"
  BY <1>1 DEF IngestInv, PassSound
<1>3. Events \subseteq Nat
  BY EventsTyped
<1>4. pass.done \in Nat
  <2>1. pass.done \in {0} \cup Events
    BY <1>2, RecordOfPass
  <2>2. CASE pass.done = 0
    BY <2>2
  <2>3. CASE pass.done \in Events
    BY <1>3, <2>3
  <2> QED  BY <2>1, <2>2, <2>3
<1>5. Pending \in SUBSET Nat
  BY <1>3 DEF Pending
<1>6. e \in Pending /\ \A f \in Pending : e <= f
  BY <1>1, <1>5, MinOfNats
<1>7. e > pass.done /\ Reads(pass, e)
  BY <1>6, PendingReads
<1>8. ASSUME NEW f \in Events, Reads(pass, f), f < e PROVE row[f] = "PROCESSED"
  <2>1. f \in Nat /\ e \in Nat
    BY <1>3
  <2>2. f \notin Pending
    BY <1>6, <1>8, <2>1
  <2>3. ~(f > pass.done)
    BY <1>8, <2>2, PendingReads
  <2>4. f <= pass.done
    BY <1>4, <2>1, <2>3
  <2> QED  BY <1>2, <1>8, <2>4
<1>9. ASSUME NEW f \in Events, f < e, Log[f].pair = Log[e].pair PROVE row[f] = "PROCESSED"
  <2>1. PICK p : p = Log[e].pair
    OBVIOUS
  <2>2. /\ p \in Pairs /\ Log[f].pair = p /\ Log[f].block \in Nat /\ Log[e].block \in Nat
        /\ Log[f].block <= Log[e].block
    BY <1>9, <2>1, EventsTyped
  <2>3. /\ p \in DOMAIN pass.next /\ pass.next[p] <= UntilOf(pass)
        /\ Log[e].block \in pass.next[p]..UntilOf(pass)
    BY <1>7, <2>1 DEF Reads
  <2>4. UntilOf(pass) \in Nat /\ pass.next[p] = checkpoint[p] + 1 /\ checkpoint[p] \in Nat
    BY <1>2, <2>2, <2>3, RecordOfPass DEF IngestInv
  <2>5. CASE Log[f].block <= checkpoint[p]
    <3>1. f \in EventsOf(p)
      BY <2>2 DEF EventsOf
    <3> QED  BY <2>2, <2>5, <3>1 DEF IngestInv, Passed
  <2>6. CASE ~(Log[f].block <= checkpoint[p])
    <3>1. Log[f].block \in pass.next[p]..UntilOf(pass)
      BY <2>2, <2>3, <2>4, <2>6
    <3>2. Reads(pass, f)
      BY <2>2, <2>3, <3>1 DEF Reads
    <3> QED  BY <1>8, <1>9, <3>2
  <2> QED  BY <2>5, <2>6
<1> QED  BY <1>1, <1>2, <1>7, <1>8, <1>9, EventsTyped

------------------------------------------------------------------------------
(* The steps that handle an event.                                          *)

\* An event that may be claimed was not processed, nor was any later one.
LEMMA ClaimFacts ==
  ASSUME IngestInv, NEW e \in Events, Due(e), Claims(e)
  PROVE  /\ row[e] # "PROCESSED"
         /\ \A g \in ProcessedIn(Log[e].pair, row) : g < e
<1>1. row \in [Events -> Rows] /\ InSequence(row)
  BY DEF IngestInv
<1>2. row[e] # "PROCESSED"
  BY DEF Claims
<1>3. SUFFICES ASSUME NEW g \in ProcessedIn(Log[e].pair, row) PROVE g < e
  BY <1>2
<1>4. g \in Events /\ Log[g].pair = Log[e].pair /\ row[g] = "PROCESSED"
  BY <1>3 DEF ProcessedIn, EventsOf
<1>5. g # e /\ ~(e < g)
  BY <1>1, <1>2, <1>4 DEF InSequence
<1>6. g \in Nat /\ e \in Nat
  BY <1>4, EventsTyped
<1> QED  BY <1>5, <1>6

\* One event is handled: its row and the session of its pair change together.
LEMMA OneHandled ==
  ASSUME IngestInv, NEW e \in Events, Due(e), Claims(e), NEW r \in {"PROCESSED", "FAILED"},
         NEW s, session' = [session EXCEPT ![Log[e].pair] = s], row' = [row EXCEPT ![e] = r],
         r = "PROCESSED" =>
           SessionSound(Log[e].pair, s, ProcessedIn(Log[e].pair, row) \cup {e}, Known(row) \cup {e}),
         r = "FAILED" =>
           SessionSound(Log[e].pair, s, ProcessedIn(Log[e].pair, row), Known(row) \cup {e})
  PROVE  /\ row' \in [Events -> Rows] /\ InSequence(row') /\ Passed(checkpoint, row')
         /\ \A f \in Events : row[f] = "PROCESSED" => row'[f] = "PROCESSED"
         /\ session' \in [Pairs -> SessionRecord]
         /\ \A q \in Pairs : SessionSound(q, session'[q], ProcessedIn(q, row'), Known(row'))
<1>1. /\ row \in [Events -> Rows] /\ InSequence(row) /\ Passed(checkpoint, row)
      /\ session \in [Pairs -> SessionRecord] /\ row[e] # "PROCESSED"
      /\ \A q \in Pairs : SessionSound(q, session[q], ProcessedIn(q, row), Known(row))
  BY ClaimFacts DEF IngestInv
<1>2. PICK p : p = Log[e].pair
  OBVIOUS
<1>3. p \in Pairs /\ \A f \in Events : f < e /\ Log[f].pair = Log[e].pair => row[f] = "PROCESSED"
  BY <1>2, DueFacts
<1>4. PICK rw, rw2 : rw = row /\ rw2 = [rw EXCEPT ![e] = r]
  OBVIOUS
<1>5. row' = rw2
  BY <1>4
<1>6. /\ rw2 \in [Events -> Rows] /\ rw2[e] = r /\ rw[e] # "PROCESSED" /\ rw \in [Events -> Rows]
      /\ \A f \in Events : f # e => rw2[f] = rw[f]
  BY <1>1, <1>4 DEF Rows
<1>7. /\ Known(rw2) = Known(rw) \cup {e}
      /\ \A f \in Events : rw[f] = "PROCESSED" => rw2[f] = "PROCESSED"
      /\ \A q \in Pairs : q # p \/ r = "FAILED" => ProcessedIn(q, rw2) = ProcessedIn(q, rw)
      /\ r = "PROCESSED" => ProcessedIn(p, rw2) = ProcessedIn(p, rw) \cup {e}
  BY <1>2, <1>6, RowChanged
<1>8. InSequence(rw2)
  <2>1. InSequence(rw)
    BY <1>1, <1>4
  <2>2. r = "PROCESSED" =>
          \A f \in Events : f < e /\ Log[f].pair = Log[e].pair => rw[f] = "PROCESSED"
    BY <1>3, <1>4
  <2> QED  BY <1>6, <2>1, <2>2, SequenceKept
<1>9. Passed(checkpoint, rw2)
  BY <1>1, <1>4, <1>7 DEF Passed, EventsOf
<1>10. /\ r = "PROCESSED" => SessionSound(p, s, ProcessedIn(p, rw) \cup {e}, Known(rw) \cup {e})
       /\ r = "FAILED" => SessionSound(p, s, ProcessedIn(p, rw), Known(rw) \cup {e})
  BY <1>2, <1>4
<1>11. SessionSound(p, s, ProcessedIn(p, rw2), Known(rw2))
  BY <1>3, <1>7, <1>10
<1>12. s \in SessionRecord
  BY <1>11 DEF SessionSound
<1>13. session' \in [Pairs -> SessionRecord] /\ session'[p] = s
       /\ \A q \in Pairs : q # p => session'[q] = session[q]
  BY <1>1, <1>2, <1>3, <1>12
<1>14. ASSUME NEW q \in Pairs PROVE SessionSound(q, session'[q], ProcessedIn(q, rw2), Known(rw2))
  <2>1. CASE q = p
    BY <1>11, <1>13, <2>1
  <2>2. CASE q # p
    <3>1. SessionSound(q, session[q], ProcessedIn(q, rw), Known(rw))
      BY <1>1, <1>4
    <3>2. PICK x : x = session[q]
      OBVIOUS
    <3>3. SessionSound(q, x, ProcessedIn(q, rw2), Known(rw2))
      BY <1>7, <2>2, <3>1, <3>2, SoundOfFewer
    <3> QED  BY <1>13, <2>2, <3>2, <3>3
  <2> QED  BY <2>1, <2>2
<1> QED  BY <1>4, <1>5, <1>6, <1>7, <1>8, <1>9, <1>13, <1>14

LEMMA RefuseInv == ASSUME IngestInv, NEW e \in Events, Refuse(e) PROVE IngestInv'
<1>1. /\ monitor' = [monitor EXCEPT ![Log[e].pair] = "retiring"] /\ EndPass
      /\ UNCHANGED <<head, checkpoint, row, session, left>>
  BY DEF Refuse, StopListener
<1>2. PassSound(pass', head, checkpoint, monitor', row)
  BY <1>1, EndOfPass
<1>3. monitor' \in [Pairs -> {"on", "retiring", "off"}]
  BY <1>1 DEF IngestInv
<1> QED  BY <1>1, <1>2, <1>3 DEF IngestInv

LEMMA SkipInv == ASSUME IngestInv, NEW e \in Events, Skip(e) PROVE IngestInv'
<1>1. Due(e) /\ pass' = [pass EXCEPT !.done = e] /\ passUnchanged
  BY DEF Skip
<1>2. row[e] = "PROCESSED"
  <2>1. row[e] \in Rows
    BY DEF IngestInv
  <2> QED  BY <2>1 DEF Skip, Claims, Rows
<1>3. /\ PassSound(pass, head, checkpoint, monitor, row) /\ pass # NoPass /\ pass.pc = "logs"
      /\ \A f \in Events : Reads(pass, f) /\ f < e => row[f] = "PROCESSED"
  BY <1>1, DueFacts DEF IngestInv, Due
<1>4. \A f \in Events : Reads(pass, f) /\ (f <= e \/ pass.pc = "commit") => row[f] = "PROCESSED"
  <2>1. SUFFICES ASSUME NEW f \in Events, Reads(pass, f), f <= e PROVE row[f] = "PROCESSED"
    BY <1>3
  <2>2. f < e \/ f = e
    BY <2>1, EventsTyped
  <2> QED  BY <1>2, <1>3, <2>1, <2>2
<1>5. PICK ps, hd, ck, mon, rw :
        ps = pass /\ hd = head /\ ck = checkpoint /\ mon = monitor /\ rw = row
  OBVIOUS
<1>6. PassSound([ps EXCEPT !.done = e], hd, ck, mon, rw)
  BY <1>3, <1>4, <1>5, MarkOfPass
<1> QED  BY <1>1, <1>5, <1>6, OnlyPass

LEMMA ProcessInv == ASSUME IngestInv, NEW e \in Events, Process(e) PROVE IngestInv'
<1>1. Due(e) /\ Claims(e) /\ Monitorable(session[Log[e].pair]) /\ Log[e].pair \in Pairs
  BY DueFacts DEF Process
<1>2. PICK s \in Handled(session[Log[e].pair], e) :
        /\ session' = [session EXCEPT ![Log[e].pair] = s]
        /\ row' = [row EXCEPT ![e] = "PROCESSED"]
        /\ IF Monitorable(s) THEN pass' = [pass EXCEPT !.done = e] /\ UNCHANGED monitor
           ELSE EndPass /\ StopListener(Log[e].pair)
  BY DEF Process
<1>3. UNCHANGED <<head, checkpoint, left>>
  BY DEF Process
<1>4. SessionSound(Log[e].pair, s, ProcessedIn(Log[e].pair, row) \cup {e}, Known(row) \cup {e})
  <2>1. PICK p, x, D, K : p = Log[e].pair /\ x = session[p] /\ D = ProcessedIn(p, row) /\ K = Known(row)
    OBVIOUS
  <2>2. /\ p \in Pairs /\ SessionSound(p, x, D, K) /\ Monitorable(x) /\ s \in Handled(x, e)
        /\ \A g \in D : g < e
    BY <1>1, <1>2, <2>1, ClaimFacts DEF IngestInv
  <2>3. D \in SUBSET Events /\ K \in SUBSET Events
    BY <2>1 DEF ProcessedIn, EventsOf, Known
  <2>4. SessionSound(p, s, D \cup {e}, K \cup {e})
    BY <2>1, <2>2, <2>3, HandledSound
  <2> QED  BY <2>1, <2>4
<1>5. /\ row' \in [Events -> Rows] /\ InSequence(row') /\ Passed(checkpoint, row')
      /\ \A f \in Events : row[f] = "PROCESSED" => row'[f] = "PROCESSED"
      /\ session' \in [Pairs -> SessionRecord]
      /\ \A q \in Pairs : SessionSound(q, session'[q], ProcessedIn(q, row'), Known(row'))
  BY <1>1, <1>2, <1>4, OneHandled
<1>6. PassSound(pass', head, checkpoint, monitor', row')
      /\ monitor' \in [Pairs -> {"on", "retiring", "off"}]
  <2>1. CASE ~Monitorable(s)
    <3>1. EndPass /\ monitor' = [monitor EXCEPT ![Log[e].pair] = "retiring"]
      BY <1>2, <2>1 DEF StopListener
    <3>2. PassSound(pass', head, checkpoint, monitor', row')
      BY <3>1, EndOfPass
    <3> QED  BY <3>1, <3>2 DEF IngestInv
  <2>2. CASE Monitorable(s)
    <3>1. pass' = [pass EXCEPT !.done = e] /\ monitor' = monitor
      BY <1>2, <2>2
    <3>2. /\ PassSound(pass, head, checkpoint, monitor, row) /\ pass # NoPass /\ pass.pc = "logs"
          /\ \A f \in Events : Reads(pass, f) /\ f < e => row[f] = "PROCESSED"
          /\ head \in Nat
      BY <1>1, DueFacts DEF IngestInv, Due
    <3>3. row'[e] = "PROCESSED"
      BY <1>2 DEF IngestInv
    <3>4. \A f \in Events : Reads(pass, f) /\ (f <= e \/ pass.pc = "commit") => row'[f] = "PROCESSED"
      <4>1. SUFFICES ASSUME NEW f \in Events, Reads(pass, f), f <= e PROVE row'[f] = "PROCESSED"
        BY <3>2
      <4>2. f < e \/ f = e
        BY <4>1, EventsTyped
      <4> QED  BY <1>5, <3>2, <3>3, <4>1, <4>2
    <3>5. PICK ps, hd, ck, mon, rw, rw2 :
            /\ ps = pass /\ hd = head /\ ck = checkpoint /\ mon = monitor /\ rw = row /\ rw2 = row'
      OBVIOUS
    <3>6. /\ PassSound(ps, hd, ck, mon, rw) /\ hd \in Nat /\ hd <= hd
          /\ \A f \in Events : rw[f] = "PROCESSED" => rw2[f] = "PROCESSED"
          /\ ps # NoPass => \A q \in DOMAIN ps.next : ck[q] = ck[q] /\ mon[q] # "retiring"
      BY <1>5, <3>2, <3>5 DEF PassSound
    <3>7. PassSound(ps, hd, ck, mon, rw2)
      BY <3>6, FrameOfPass
    <3>8. PassSound([ps EXCEPT !.done = e], hd, ck, mon, rw2)
      BY <3>2, <3>4, <3>5, <3>7, MarkOfPass
    <3> QED  BY <3>1, <3>5, <3>8 DEF IngestInv
  <2> QED  BY <2>1, <2>2
<1> QED  BY <1>3, <1>5, <1>6 DEF IngestInv

LEMMA ProcessFailsInv ==
  ASSUME ~MarkFaults, IngestInv, NEW e \in Events, ProcessFails(e) PROVE IngestInv'
<1>1. Due(e) /\ Claims(e) /\ Monitorable(session[Log[e].pair]) /\ Log[e].pair \in Pairs
  BY DueFacts DEF ProcessFails
<1>2. PICK s \in Interrupted(session[Log[e].pair], e) : session' = [session EXCEPT ![Log[e].pair] = s]
  BY DEF ProcessFails
<1>3. row' = [row EXCEPT ![e] = "FAILED"]
  BY DEF ProcessFails, Marked
<1>4. SessionSound(Log[e].pair, s, ProcessedIn(Log[e].pair, row), Known(row) \cup {e})
  <2>1. PICK p, x, D, K : p = Log[e].pair /\ x = session[p] /\ D = ProcessedIn(p, row) /\ K = Known(row)
    OBVIOUS
  <2>2. /\ p \in Pairs /\ SessionSound(p, x, D, K) /\ Monitorable(x) /\ s \in Interrupted(x, e)
        /\ \A g \in D : g < e
    BY <1>1, <1>2, <2>1, ClaimFacts DEF IngestInv
  <2>3. D \in SUBSET Events /\ K \in SUBSET Events
    BY <2>1 DEF ProcessedIn, EventsOf, Known
  <2>4. SessionSound(p, s, D, K \cup {e})
    BY <2>1, <2>2, <2>3, InterruptedSound
  <2> QED  BY <2>1, <2>4
<1>5. /\ row' \in [Events -> Rows] /\ InSequence(row') /\ Passed(checkpoint, row')
      /\ session' \in [Pairs -> SessionRecord]
      /\ \A q \in Pairs : SessionSound(q, session'[q], ProcessedIn(q, row'), Known(row'))
  BY <1>1, <1>2, <1>3, <1>4, OneHandled
<1>6. EndPass /\ UNCHANGED <<head, checkpoint, monitor>> /\ Spend("faults")
  BY DEF ProcessFails
<1>7. PassSound(pass', head, checkpoint, monitor, row')
  BY <1>6, EndOfPass
<1>8. left' \in [faults : 0..Faults, disturbances : 0..Disturbances]
  BY <1>6, SpendTyped DEF IngestInv
<1> QED  BY <1>5, <1>6, <1>7, <1>8 DEF IngestInv

------------------------------------------------------------------------------
(* The steps beside a pass.                                                 *)

\* A session that leaves the hands of its listener, and one that is settled.
LEMMA LeftSound ==
  ASSUME NEW p, NEW s, NEW D, NEW K, SessionSound(p, s, D, K), NEW x,
         \/ /\ s.status = Waiting
            /\ \E st \in {"EXPIRED", "REJECTED"} : x = [s EXCEPT !.status = st]
         \/ /\ s.entry # 0
            /\ \E st \in {"HOLDING", "SELL_PENDING", "MANUAL_REVIEW", "CLOSED"} : x = [s EXCEPT !.status = st]
         \/ s.entry = 0 /\ x = [s EXCEPT !.status = "REJECTED"]
  PROVE  SessionSound(p, x, D, K)
<1>1. PICK st \in {"EXPIRED", "REJECTED", "HOLDING", "SELL_PENDING", "MANUAL_REVIEW", "CLOSED"} :
        /\ x = [s EXCEPT !.status = st]
        /\ s.entry = 0 => st \in {"EXPIRED", "REJECTED"}
  <2>1. s.status = Waiting => s.entry = 0
    BY DEF SessionSound
  <2> QED  BY <2>1
<1>2. s \in SessionRecord /\ st \in Status
  BY DEF SessionSound, Status, InFlight
<1>3. /\ x \in SessionRecord /\ x.status = st /\ x.observed = s.observed /\ x.entry = s.entry
      /\ x.counted = s.counted
  BY <1>1, <1>2 DEF SessionRecord
<1>4. st # Waiting /\ ~Unsettled(x) /\ (st = "HOLDING" => x.entry # 0)
  BY <1>1, <1>3 DEF Waiting, Unsettled, InFlight
<1>5. x.entry # 0 => Enough(x)
  BY <1>3 DEF SessionSound, Enough
<1> QED  BY <1>3, <1>4, <1>5 DEF SessionSound

LEMMA EnteredSound ==
  ASSUME NEW p, NEW s, NEW D, NEW K, SessionSound(p, s, D, K), Unsettled(s), NEW k \in EntryPoints(s),
         D \subseteq Events, NEW x, x = [s EXCEPT !.status = "HOLDING", !.entry = k]
  PROVE  SessionSound(p, x, D, K)
<1>1. s \in SessionRecord /\ Enough(s)
  BY DEF SessionSound
<1>2. k \in Events /\ k # 0 /\ \A f \in s.observed : f <= k
  BY EventsTyped DEF EntryPoints
<1>3. /\ x \in SessionRecord /\ x.status = "HOLDING" /\ x.observed = s.observed /\ x.entry = k
      /\ x.counted = s.counted
  BY <1>1, <1>2 DEF SessionRecord, Status
<1>4. x.status # Waiting /\ ~Unsettled(x) /\ Enough(x)
  BY <1>1, <1>2, <1>3 DEF Waiting, Unsettled, Enough
<1>5. \A e \in D : Log[e].kind = "BUY" => ~(e > k)
  <2>1. SUFFICES ASSUME NEW e \in D, Log[e].kind = "BUY" PROVE ~(e > k)
    OBVIOUS
  <2>2. PICK f \in s.observed : e <= f
    BY <2>1 DEF SessionSound
  <2>3. f <= k /\ f \in Events
    BY <1>1, <1>2, <2>2 DEF SessionRecord
  <2>4. e \in Nat /\ f \in Nat /\ k \in Nat
    BY <1>2, <2>3, EventsTyped
  <2> QED  BY <2>2, <2>3, <2>4
<1> QED  BY <1>2, <1>3, <1>4, <1>5 DEF SessionSound

\* A step that changes one session or several, each soundly, but no row of an event.
LEMMA OnlySessions ==
  ASSUME IngestInv, UNCHANGED <<head, checkpoint, row>>,
         session' \in [Pairs -> SessionRecord],
         \A p \in Pairs : SessionSound(p, session'[p], ProcessedIn(p, row), Known(row)),
         monitor' \in [Pairs -> {"on", "retiring", "off"}],
         PassSound(pass', head, checkpoint, monitor', row),
         left' \in [faults : 0..Faults, disturbances : 0..Disturbances]
  PROVE  IngestInv'
<1>1. /\ head \in Nat /\ checkpoint \in [Pairs -> 0..head] /\ row \in [Events -> Rows]
      /\ InSequence(row) /\ Passed(checkpoint, row)
  BY DEF IngestInv
<1>2. head' = head /\ checkpoint' = checkpoint /\ row' = row
  OBVIOUS
<1> QED  BY <1>1, <1>2 DEF IngestInv

LEMMA ExpireInv == ASSUME IngestInv, Expire PROVE IngestInv'
<1>1. PICK late \in SUBSET {p \in Concerned \cap pass.live : session[p].status = Waiting} :
        /\ session' = [p \in Pairs |->
                         IF p \in late THEN [session[p] EXCEPT !.status = "EXPIRED"] ELSE session[p]]
        /\ monitor' = [p \in Pairs |-> IF p \in late THEN "retiring" ELSE monitor[p]]
  BY DEF Expire
<1>2. EndPass /\ UNCHANGED <<head, checkpoint, row, left>>
  BY DEF Expire
<1>3. monitor' \in [Pairs -> {"on", "retiring", "off"}]
  BY <1>1 DEF IngestInv
<1>4. ASSUME NEW p \in Pairs
      PROVE  SessionSound(p, session'[p], ProcessedIn(p, row), Known(row)) /\ session'[p] \in SessionRecord
  <2>1. PICK s, x, D, K : s = session[p] /\ x = session'[p] /\ D = ProcessedIn(p, row) /\ K = Known(row)
    OBVIOUS
  <2>2. SessionSound(p, s, D, K)
    BY <2>1 DEF IngestInv
  <2>3. CASE p \in late
    <3>1. s.status = Waiting /\ x = [s EXCEPT !.status = "EXPIRED"]
      BY <1>1, <2>1, <2>3
    <3>2. SessionSound(p, x, D, K)
      BY <2>2, <3>1, LeftSound
    <3> QED  BY <2>1, <3>2 DEF SessionSound
  <2>4. CASE p \notin late
    <3>1. x = s
      BY <1>1, <2>1, <2>4
    <3> QED  BY <2>1, <2>2, <3>1 DEF SessionSound
  <2> QED  BY <2>3, <2>4
<1>5. session' \in [Pairs -> SessionRecord]
  <2>1. DOMAIN session' = Pairs /\ session' = [p \in Pairs |-> session'[p]]
    BY <1>1
  <2> QED  BY <1>4, <2>1
<1>6. PassSound(pass', head, checkpoint, monitor', row)
  BY <1>2, EndOfPass
<1>7. left' \in [faults : 0..Faults, disturbances : 0..Disturbances]
  BY <1>2 DEF IngestInv
<1> QED  BY <1>2, <1>3, <1>4, <1>5, <1>6, <1>7, OnlySessions

\* One session changes; the pass and the monitors stay as they are.
LEMMA OneSession ==
  ASSUME IngestInv, UNCHANGED <<head, checkpoint, row, monitor, pass>>, NEW p \in Pairs, NEW x,
         session' = [session EXCEPT ![p] = x],
         SessionSound(p, x, ProcessedIn(p, row), Known(row)),
         left' \in [faults : 0..Faults, disturbances : 0..Disturbances]
  PROVE  IngestInv'
<1>1. session \in [Pairs -> SessionRecord] /\ x \in SessionRecord
  BY DEF IngestInv, SessionSound
<1>2. session' \in [Pairs -> SessionRecord] /\ session'[p] = x
      /\ \A q \in Pairs : q # p => session'[q] = session[q]
  BY <1>1
<1>3. ASSUME NEW q \in Pairs PROVE SessionSound(q, session'[q], ProcessedIn(q, row), Known(row))
  <2>1. CASE q = p
    BY <1>2, <2>1
  <2>2. CASE q # p
    BY <1>2, <2>2 DEF IngestInv
  <2> QED  BY <2>1, <2>2
<1>4. /\ monitor' \in [Pairs -> {"on", "retiring", "off"}]
      /\ PassSound(pass', head, checkpoint, monitor', row)
  <2>1. pass' = pass /\ monitor' = monitor
    OBVIOUS
  <2> QED  BY <2>1 DEF IngestInv
<1> QED  BY <1>2, <1>3, <1>4, OnlySessions

LEMMA LeaveInv == ASSUME IngestInv, NEW p \in Pairs, Leave(p) PROVE IngestInv'
<1>1. PICK s, D, K : s = session[p] /\ D = ProcessedIn(p, row) /\ K = Known(row)
  OBVIOUS
<1>2. SessionSound(p, s, D, K) /\ session \in [Pairs -> SessionRecord]
  BY <1>1 DEF IngestInv
<1>3. PICK st \in IF s.status = Waiting THEN {"REJECTED"} ELSE {"SELL_PENDING", "MANUAL_REVIEW", "CLOSED"} :
        session' = [session EXCEPT ![p].status = st]
  BY <1>1 DEF Leave
<1>4. PICK x : x = [s EXCEPT !.status = st]
  OBVIOUS
<1>5. session' = [session EXCEPT ![p] = x]
  BY <1>1, <1>3, <1>4
<1>6. s.status = Waiting \/ s.entry # 0
  BY <1>1, <1>2 DEF Leave, Monitorable, SessionSound
<1>7. SessionSound(p, x, D, K)
  BY <1>2, <1>3, <1>4, <1>6, LeftSound
<1>8. UNCHANGED <<head, checkpoint, row, monitor, pass, left>>
  BY DEF Leave
<1>9. left' \in [faults : 0..Faults, disturbances : 0..Disturbances]
  BY <1>8 DEF IngestInv
<1> QED  BY <1>1, <1>5, <1>7, <1>8, <1>9, OneSession

LEMMA ReturnInv == ASSUME IngestInv, NEW p \in Pairs, Return(p) PROVE IngestInv'
<1>1. PICK s, D, K : s = session[p] /\ D = ProcessedIn(p, row) /\ K = Known(row)
  OBVIOUS
<1>2. SessionSound(p, s, D, K) /\ D \subseteq Events
  BY <1>1 DEF IngestInv, ProcessedIn, EventsOf
<1>3. s.status \in InFlight \cup {"MANUAL_REVIEW"}
  BY <1>1 DEF Return
<1>4. \E x : /\ session' = [session EXCEPT ![p] = x]
             /\ SessionSound(p, x, D, K)
  <2>1. CASE s.entry = 0 /\ session' = [session EXCEPT ![p].status = "REJECTED"]
    <3>1. PICK x : x = [s EXCEPT !.status = "REJECTED"]
      OBVIOUS
    <3>2. SessionSound(p, x, D, K)
      BY <1>2, <2>1, <3>1, LeftSound
    <3>3. session' = [session EXCEPT ![p] = x]
      BY <1>1, <2>1, <3>1
    <3> QED  BY <3>2, <3>3
  <2>2. CASE /\ s.entry = 0
             /\ \E k \in EntryPoints(s) : session' = [session EXCEPT ![p].status = "HOLDING", ![p].entry = k]
    <3>1. PICK k \in EntryPoints(s) : session' = [session EXCEPT ![p].status = "HOLDING", ![p].entry = k]
      BY <2>2
    <3>2. PICK x : x = [s EXCEPT !.status = "HOLDING", !.entry = k]
      OBVIOUS
    <3>3. Unsettled(s)
      BY <1>3, <2>2 DEF Unsettled
    <3>4. SessionSound(p, x, D, K)
      BY <1>2, <3>2, <3>3, EnteredSound
    <3>5. session' = [session EXCEPT ![p] = x]
      BY <1>1, <3>1, <3>2 DEF IngestInv
    <3> QED  BY <3>4, <3>5
  <2>3. CASE s.entry # 0 /\ \E st \in {"HOLDING", "CLOSED"} : session' = [session EXCEPT ![p].status = st]
    <3>1. PICK st \in {"HOLDING", "CLOSED"} : session' = [session EXCEPT ![p].status = st]
      BY <2>3
    <3>2. PICK x : x = [s EXCEPT !.status = st]
      OBVIOUS
    <3>3. SessionSound(p, x, D, K)
      BY <1>2, <2>3, <3>2, LeftSound
    <3>4. session' = [session EXCEPT ![p] = x]
      BY <1>1, <3>1, <3>2
    <3> QED  BY <3>3, <3>4
  <2> QED  BY <1>1, <2>1, <2>2, <2>3 DEF Return
<1>5. UNCHANGED <<head, checkpoint, row, monitor, pass>> /\ Spend("disturbances")
  BY DEF Return
<1>6. left' \in [faults : 0..Faults, disturbances : 0..Disturbances]
  BY <1>5, SpendTyped DEF IngestInv
<1> QED  BY <1>1, <1>4, <1>5, <1>6, OneSession

LEMMA StopInv == ASSUME IngestInv, NEW p \in Pairs, Stop(p) PROVE IngestInv'
<1>1. /\ monitor' = [monitor EXCEPT ![p] = "off"]
      /\ pass' = [pass EXCEPT !.live = @ \ {p}]
      /\ UNCHANGED <<head, checkpoint, row, session>> /\ Spend("disturbances")
  BY DEF Stop
<1>2. /\ monitor \in [Pairs -> {"on", "retiring", "off"}]
      /\ PassSound(pass, head, checkpoint, monitor, row)
  BY DEF IngestInv
<1>3. PICK ps, hd, ck, mon, rw :
        ps = pass /\ hd = head /\ ck = checkpoint /\ mon = monitor /\ rw = row
  OBVIOUS
<1>4. PassSound([ps EXCEPT !.live = @ \ {p}], hd, ck, [mon EXCEPT ![p] = "off"], rw)
  BY <1>2, <1>3, LeftByPass
<1>5. PassSound(pass', head, checkpoint, monitor', row)
  BY <1>1, <1>3, <1>4
<1>6. left' \in [faults : 0..Faults, disturbances : 0..Disturbances]
  BY <1>1, SpendTyped DEF IngestInv
<1>7. monitor' \in [Pairs -> {"on", "retiring", "off"}]
  BY <1>1, <1>2
<1>8. /\ session' \in [Pairs -> SessionRecord]
      /\ \A q \in Pairs : SessionSound(q, session'[q], ProcessedIn(q, row), Known(row))
  BY <1>1 DEF IngestInv
<1> QED  BY <1>1, <1>5, <1>6, <1>7, <1>8, OnlySessions

LEMMA BesideInv ==
  ASSUME IngestInv, NEW p \in Pairs, Retire(p) \/ Start(p) PROVE IngestInv'
<1>1. PICK m \in {"on", "off"} : monitor' = [monitor EXCEPT ![p] = m]
  BY DEF Retire, Start
<1>2. PICK k : k = IF Retire(p) THEN 0 ELSE checkpoint[p]
  OBVIOUS
<1>3. /\ head \in Nat /\ checkpoint \in [Pairs -> 0..head] /\ Passed(checkpoint, row)
      /\ monitor \in [Pairs -> {"on", "retiring", "off"}]
      /\ PassSound(pass, head, checkpoint, monitor, row)
  BY DEF IngestInv
<1>4. checkpoint' = [checkpoint EXCEPT ![p] = k] /\ (k = 0 \/ k = checkpoint[p])
      /\ (monitor[p] # "retiring" => k = checkpoint[p])
  <2>1. CASE Retire(p)
    BY <1>2, <2>1 DEF Retire
  <2>2. CASE ~Retire(p)
    <3>1. checkpoint' = checkpoint
      BY <2>2 DEF Start
    <3> QED  BY <1>2, <1>3, <2>2, <3>1
  <2> QED  BY <2>1, <2>2
<1>5. checkpoint' \in [Pairs -> 0..head] /\ monitor' \in [Pairs -> {"on", "retiring", "off"}]
  BY <1>1, <1>3, <1>4
<1>6. Passed(checkpoint', row)
  <2>1. SUFFICES ASSUME NEW q \in Pairs, NEW e \in EventsOf(q), Log[e].block <= checkpoint'[q]
                 PROVE  row[e] = "PROCESSED"
    BY DEF Passed
  <2>2. Log[e].block \in Nat \ {0}
    BY EventsTyped DEF EventsOf
  <2>3. checkpoint'[q] = checkpoint[q] \/ checkpoint'[q] = 0
    BY <1>3, <1>4
  <2>4. checkpoint'[q] = checkpoint[q]
    BY <2>1, <2>2, <2>3
  <2> QED  BY <1>3, <2>1, <2>4 DEF Passed
<1>7. PassSound(pass, head, checkpoint', monitor', row)
  <2>1. PICK ps, hd, ck, mon, rw, ck2, mon2 :
          /\ ps = pass /\ hd = head /\ ck = checkpoint /\ mon = monitor /\ rw = row
          /\ ck2 = checkpoint' /\ mon2 = monitor'
    OBVIOUS
  <2>2. ps # NoPass => \A q \in DOMAIN ps.next : ck2[q] = ck[q] /\ mon2[q] # "retiring"
    <3>1. SUFFICES ASSUME ps # NoPass, NEW q \in DOMAIN ps.next
                   PROVE  ck2[q] = ck[q] /\ mon2[q] # "retiring"
      OBVIOUS
    <3>2. mon[q] # "retiring" /\ q \in Pairs
      BY <1>3, <2>1, <3>1, RecordOfPass DEF PassSound
    <3>3. CASE q = p
      BY <1>1, <1>3, <1>4, <2>1, <3>2, <3>3
    <3>4. CASE q # p
      BY <1>1, <1>3, <1>4, <2>1, <3>2, <3>4
    <3> QED  BY <3>3, <3>4
  <2>3. PassSound(ps, hd, ck, mon, rw) /\ hd \in Nat /\ hd <= hd
    BY <1>3, <2>1
  <2>4. PassSound(ps, hd, ck2, mon2, rw)
    BY <2>2, <2>3, FrameOfPass
  <2> QED  BY <2>1, <2>4
<1>8. head' = head /\ row' = row /\ session' = session /\ pass' = pass /\ left' = left
  BY DEF Retire, Start
<1> QED  BY <1>5, <1>6, <1>7, <1>8 DEF IngestInv

LEMMA NewBlockInv == ASSUME IngestInv, NewBlock PROVE IngestInv'
<1>1. head' = head + 1 /\ UNCHANGED <<checkpoint, row, session, monitor, pass, left>> /\ head \in Nat
  BY DEF NewBlock, IngestInv
<1>2. head' \in Nat /\ head <= head' /\ \A i \in 0..head : i \in 0..head'
  BY <1>1
<1>3. checkpoint \in [Pairs -> 0..head'] /\ PassSound(pass, head, checkpoint, monitor, row)
  BY <1>2 DEF IngestInv
<1>4. PassSound(pass, head', checkpoint, monitor, row)
  <2>1. PICK ps, hd, ck, mon, rw, hd2 :
          ps = pass /\ hd = head /\ ck = checkpoint /\ mon = monitor /\ rw = row /\ hd2 = head'
    OBVIOUS
  <2>2. ps # NoPass => \A q \in DOMAIN ps.next : ck[q] = ck[q] /\ mon[q] # "retiring"
    BY <1>3, <2>1 DEF PassSound
  <2>3. PassSound(ps, hd, ck, mon, rw) /\ hd \in Nat /\ hd2 \in Nat /\ hd <= hd2
    BY <1>1, <1>2, <1>3, <2>1
  <2>4. PassSound(ps, hd2, ck, mon, rw)
    BY <2>2, <2>3, FrameOfPass
  <2> QED  BY <2>1, <2>4
<1> QED  BY <1>1, <1>2, <1>3, <1>4 DEF IngestInv

------------------------------------------------------------------------------
(* The invariant, and what follows from it.                                 *)

LEMMA IngestNextInv == ASSUME ~MarkFaults, IngestInv, [IngestNext]_vars PROVE IngestInv'
<1>1. CASE UNCHANGED vars
  <2>1. /\ head' = head /\ checkpoint' = checkpoint /\ row' = row /\ session' = session
        /\ monitor' = monitor /\ pass' = pass /\ left' = left
    BY <1>1 DEF vars
  <2> QED  BY <2>1 DEF IngestInv
<1>2. CASE PassNext
  <2>1. CASE PassOfAll \/ PassOfSome
    <3>1. PICK targets \in SUBSET On : Snapshot(targets)
      BY <2>1 DEF PassOfAll, PassOfSome
    <3> QED  BY <3>1, SnapshotInv
  <2>2. CASE PassDone \/ BeginChunk \/ NoneExpires \/ ReadLogs \/ TargetGone
    BY <2>2, MoveInv
  <2>3. CASE LogsDone
    BY <2>3, LogsDoneInv
  <2>4. CASE CommitChunk
    BY <2>4, CommitChunkInv
  <2>5. CASE Expire
    BY <2>5, ExpireInv
  <2>6. CASE PassFails
    BY <2>6, PassFailsInv
  <2>7. ASSUME NEW e \in Events, Refuse(e) \/ Skip(e) \/ Process(e) \/ ProcessFails(e) PROVE IngestInv'
    BY <2>7, RefuseInv, SkipInv, ProcessInv, ProcessFailsInv
  <2> QED  BY <1>2, <2>1, <2>2, <2>3, <2>4, <2>5, <2>6, <2>7 DEF PassNext, PassProgress
<1>3. CASE OthersNext
  <2>1. CASE NewBlock
    BY <2>1, NewBlockInv
  <2>2. ASSUME NEW p \in Pairs, Leave(p) \/ Return(p) \/ Stop(p) \/ Retire(p) \/ Start(p) PROVE IngestInv'
    BY <2>2, LeaveInv, ReturnInv, StopInv, BesideInv
  <2> QED  BY <1>3, <2>1, <2>2 DEF OthersNext
<1> QED  BY <1>1, <1>2, <1>3 DEF IngestNext

\* What the rows, the checkpoints, the pass and the sessions know of one
\* another holds after any number of failing passes, stops and returns of
\* monitors (swap-log-batch-reconciler.ts, swap.listener.ts), as long as the
\* mark of a failed event is written.
THEOREM IngestInvariant == ~MarkFaults => (IngestSpec => []IngestInv)
<1> SUFFICES ASSUME ~MarkFaults PROVE IngestSpec => []IngestInv
  OBVIOUS
<1>1. IngestInit => IngestInv
  BY IngestInitInv
<1>2. IngestInv /\ [IngestNext]_vars => IngestInv'
  BY IngestNextInv
<1> QED  BY <1>1, <1>2, PTL DEF IngestSpec

\* No swap is dropped: what the checkpoint of a pair has passed was processed
\* (SwapLogBatchReconciler.reconcile, setManyAtomically).
THEOREM NoSwapIsDropped == ~MarkFaults => (IngestSpec => []NothingDropped)
<1> SUFFICES ASSUME ~MarkFaults PROVE IngestSpec => []NothingDropped
  OBVIOUS
<1>1. IngestInv => NothingDropped
  BY DEF IngestInv, Passed, NothingDropped
<1>2. IngestSpec => []IngestInv
  BY IngestInvariant
<1> QED  BY <1>1, <1>2, PTL

LEMMA TypedIngestion == IngestInv => IngestTypeOK
<1> SUFFICES ASSUME IngestInv PROVE IngestTypeOK
  OBVIOUS
<1>1. /\ head \in Nat /\ checkpoint \in [Pairs -> 0..head]
      /\ session \in [Pairs -> [status : Status, observed : SUBSET Events,
                                entry : {0} \cup Events, counted : SUBSET Events]]
      /\ monitor \in [Pairs -> {"on", "retiring", "off"}]
      /\ left \in [faults : 0..Faults, disturbances : 0..Disturbances]
  BY DEF IngestInv, SessionRecord
<1>2. row \in [Events -> {"none", "PROCESSING", "PROCESSED", "FAILED"}]
  BY DEF IngestInv, Rows
<1>3. /\ pass.pc \in {"idle", "chunk", "expire", "read", "logs", "commit"}
      /\ pass.live \subseteq Pairs /\ pass.head \in 0..head /\ pass.done \in {0} \cup Events
  <2>1. CASE pass = NoPass
    BY <1>1, <2>1 DEF NoPass
  <2>2. CASE pass # NoPass
    <3>1. pass \in PassRecord /\ pass.head <= head
      BY <2>2 DEF IngestInv, PassSound
    <3>2. /\ pass.pc \in Busy /\ pass.live \in SUBSET Pairs /\ pass.head \in Nat
          /\ pass.done \in {0} \cup Events
      BY <3>1, RecordOfPass
    <3> QED  BY <1>1, <3>1, <3>2 DEF Busy
  <2> QED  BY <2>1, <2>2
<1> QED  BY <1>1, <1>2, <1>3 DEF IngestTypeOK

LEMMA EarnedEntry ==
  ASSUME NEW p, NEW s, NEW D, NEW K, SessionSound(p, s, D, K), s.entry # 0
  PROVE  Cardinality({Log[e].tx : e \in s.observed}) >= FirstBuys
<1>1. /\ s.observed \in SUBSET Events /\ Enough(s)
      /\ \A e, f \in s.observed : Log[e].tx = Log[f].tx => e = f
  BY DEF SessionSound, SessionRecord
<1>2. PICK S : S = s.observed
  OBVIOUS
<1>3. Cardinality({Log[e].tx : e \in S}) = Cardinality(S)
  BY <1>1, <1>2, OneEventEach
<1> QED  BY <1>1, <1>2, <1>3 DEF Enough

\* A session has recorded every buy that was processed, and nothing else, and
\* a position was entered after the configured number of different
\* transactions, though events are delivered again and handlers throw half
\* way (EntryObservation.record, SessionEngine.onSwap).
THEOREM SwapsAreCounted == ~MarkFaults => (IngestSpec => []CountsSound)
<1> SUFFICES ASSUME ~MarkFaults PROVE IngestSpec => []CountsSound
  OBVIOUS
<1>1. IngestInv => CountsSound
  <2> SUFFICES ASSUME IngestInv PROVE CountsSound
    OBVIOUS
  <2>1. ASSUME NEW p \in Pairs
        PROVE  /\ session[p].status = Waiting =>
                    \A e \in BuysProcessed(p) : \E f \in session[p].observed : Log[f].tx = Log[e].tx
               /\ session[p].status = "HOLDING" =>
                    \A e \in BuysProcessed(p) :
                      e > session[p].entry => \E f \in session[p].counted : Log[f].tx = Log[e].tx
               /\ \A e \in session[p].observed \cup session[p].counted : row[e] # "none" /\ Log[e].pair = p
               /\ session[p].entry # 0 =>
                    Cardinality({Log[e].tx : e \in session[p].observed}) >= FirstBuys
    <3>1. PICK s, D, K : s = session[p] /\ D = ProcessedIn(p, row) /\ K = Known(row)
      OBVIOUS
    <3>2. SessionSound(p, s, D, K)
      BY <3>1 DEF IngestInv
    <3>3. \A e \in BuysProcessed(p) : e \in D /\ Log[e].kind = "BUY"
      BY <3>1 DEF BuysProcessed, ProcessedIn
    <3>4. s.status = Waiting => \A e \in BuysProcessed(p) : \E f \in s.observed : Log[f].tx = Log[e].tx
      BY <3>2, <3>3 DEF SessionSound, Recorded
    <3>5. s.status = "HOLDING" =>
            \A e \in BuysProcessed(p) : e > s.entry => \E f \in s.counted : Log[f].tx = Log[e].tx
      BY <3>2, <3>3 DEF SessionSound, Recorded
    <3>6. \A e \in s.observed \cup s.counted : row[e] # "none" /\ Log[e].pair = p
      BY <3>1, <3>2 DEF SessionSound, Known
    <3>7. s.entry # 0 => Cardinality({Log[e].tx : e \in s.observed}) >= FirstBuys
      BY <3>2, EarnedEntry
    <3> QED  BY <3>1, <3>4, <3>5, <3>6, <3>7
  <2>2. CountsComplete
    BY <2>1 DEF CountsComplete
  <2>3. EntryEarned
    BY <2>1 DEF EntryEarned
  <2> QED  BY <2>2, <2>3, TypedIngestion DEF CountsSound
<1>2. IngestSpec => []IngestInv
  BY IngestInvariant
<1> QED  BY <1>1, <1>2, PTL

LEMMA ProcessedInOrder ==
  ASSUME ~MarkFaults, IngestInv, [IngestNext]_vars, NEW e \in Events,
         row[e] # "PROCESSED", row'[e] = "PROCESSED",
         NEW f \in EventsOf(Log[e].pair), f < e
  PROVE  row[f] = "PROCESSED"
<1>1. row' # row
  OBVIOUS
<1>2. \E g \in Events : Process(g) \/ ProcessFails(g)
  BY <1>1 DEF IngestNext, PassNext, PassProgress, OthersNext, vars, passUnchanged, PassDone, BeginChunk,
     NoneExpires, ReadLogs, LogsDone, CommitChunk, TargetGone, Refuse, Skip, PassOfAll, PassOfSome,
     Snapshot, Expire, PassFails, NewBlock, Leave, Return, Stop, Retire, Start
<1>3. PICK g \in Events : Process(g) \/ ProcessFails(g)
  BY <1>2
<1>4. row \in [Events -> Rows]
  BY DEF IngestInv
<1>5. CASE Process(g)
  <2>1. Due(g) /\ row' = [row EXCEPT ![g] = "PROCESSED"]
    BY <1>5 DEF Process
  <2>2. e = g
    BY <1>4, <2>1
  <2> QED  BY <2>1, <2>2, DueFacts DEF EventsOf
<1>6. CASE ProcessFails(g)
  <2>1. row' = [row EXCEPT ![g] = "FAILED"]
    BY <1>6 DEF ProcessFails, Marked
  <2> QED  BY <1>4, <2>1
<1> QED  BY <1>3, <1>5, <1>6

LEMMA CheckpointForward ==
  ASSUME IngestInv, [IngestNext]_vars, NEW p \in Pairs
  PROVE  checkpoint'[p] >= checkpoint[p] \/ monitor[p] = "retiring"
<1>1. checkpoint \in [Pairs -> 0..head] /\ head \in Nat
  BY DEF IngestInv
<1>2. checkpoint[p] \in Nat
  BY <1>1
<1>3. CASE checkpoint' = checkpoint
  BY <1>2, <1>3
<1>4. CASE CommitChunk
  <2>1. pass # NoPass /\ pass.pc = "commit"
    BY <1>4 DEF CommitChunk, NoPass
  <2>2. pass \in PassRecord /\ \A q \in DOMAIN pass.next : pass.next[q] = checkpoint[q] + 1
    BY <2>1 DEF IngestInv, PassSound
  <2>3. checkpoint'[p] = IF p \in Concerned THEN Until ELSE checkpoint[p]
    BY <1>4 DEF CommitChunk
  <2>4. CASE p \in Concerned
    <3>1. checkpoint[p] + 1 <= Until /\ Until \in Nat
      BY <2>2, <2>4, RecordOfPass DEF Concerned, Targets, Until, UntilOf
    <3> QED  BY <1>2, <2>3, <2>4, <3>1
  <2>5. CASE p \notin Concerned
    BY <1>2, <2>3, <2>5
  <2> QED  BY <2>4, <2>5
<1>5. ASSUME NEW q \in Pairs, Retire(q) PROVE checkpoint'[p] >= checkpoint[p] \/ monitor[p] = "retiring"
  <2>1. CASE q = p
    BY <1>5, <2>1 DEF Retire
  <2>2. CASE q # p
    BY <1>1, <1>2, <1>5, <2>2 DEF Retire
  <2> QED  BY <2>1, <2>2
<1>6. checkpoint' = checkpoint \/ CommitChunk \/ \E q \in Pairs : Retire(q)
  BY DEF IngestNext, PassNext, PassProgress, OthersNext, vars, passUnchanged, PassDone, BeginChunk,
     NoneExpires, ReadLogs, LogsDone, TargetGone, Refuse, Skip, PassOfAll, PassOfSome, Process,
     ProcessFails, Snapshot, Expire, PassFails, NewBlock, Leave, Return, Stop, Start
<1> QED  BY <1>3, <1>4, <1>5, <1>6

\* The swaps of a pair are processed in the order of the chain, and the
\* checkpoint of a pair goes back only when its monitor is retired
\* (SwapLogBatchReconciler sorts the logs; retireTerminalMonitor).
THEOREM SwapsMoveForward == ~MarkFaults => (IngestSpec => MovesForward)
<1> SUFFICES ASSUME ~MarkFaults PROVE IngestSpec => MovesForward
  OBVIOUS
<1>1. IngestSpec => []IngestInv
  BY IngestInvariant
<1>2. IngestInv /\ [IngestNext]_vars =>
        [\A e \in Events : row[e] # "PROCESSED" /\ row'[e] = "PROCESSED" =>
           \A f \in EventsOf(Log[e].pair) : f < e => row[f] = "PROCESSED"]_vars
  BY ProcessedInOrder
<1>3. IngestInv /\ [IngestNext]_vars =>
        [\A p \in Pairs : checkpoint'[p] >= checkpoint[p] \/ monitor[p] = "retiring"]_vars
  BY CheckpointForward
<1>4. IngestSpec => InOrder
  BY <1>1, <1>2, PTL DEF IngestSpec, InOrder
<1>5. IngestSpec => NeverBackwards
  BY <1>1, <1>3, PTL DEF IngestSpec, NeverBackwards
<1> QED  BY <1>4, <1>5 DEF MovesForward
==============================================================================
