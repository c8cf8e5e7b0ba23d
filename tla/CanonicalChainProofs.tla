------------------------ MODULE CanonicalChainProofs -------------------------
(****************************************************************************)
(* What holds of the canonical chain for every content of the blocks, any   *)
(* number of pairs, reorganisations, failures and restarts: the stored      *)
(* chain is one chain, its checkpoints and events stand on it, and replays  *)
(* are complete. And, where no fork comes back, what the node has left it   *)
(* does not return to, and what is rolled back is what it has left.         *)
(****************************************************************************)
EXTENDS CanonicalChain, WellFoundedInduction, NaturalsInduction, TLAPS

------------------------------------------------------------------------------
(* The inductive invariant of the stored chain.                             *)

Chains == Seq(Labels)

\* js holds prefixes of t, t itself, and all of them from the first one on.
StoredOn(js, t) ==
  /\ t \in js /\ js \subseteq Chains \ {None}
  /\ \A h \in js : IsPrefix(h, t)
  /\ \A h \in js, n \in Heights : Len(h) < n /\ n < Len(t) => Upto(t, n) \in js

\* While headers are read: from a stored block on they continue one another,
\* so that those behind the tip continue it; what is not saved ends at it.
ScanSound(r, t) ==
  /\ r.at \in 1..r.head + 1 /\ r.first \in 1..Len(t)
  /\ ~r.save => Len(t) = r.head
  /\ r.scan = None => r.at <= Len(t)
  /\ r.scan # None => Len(r.scan) = r.at - 1
  /\ r.at > Len(t) => IsPrefix(t, r.scan)

PCs == {"idle", "tip", "scan", "chunk", "logs", "new tip", "walk", "verify", "rewind", "project"}
RequestRecord ==
  [pc : PCs, kind : {"none", "pairs", "swaps"}, head : Nat, from : Nat,
   targets : UNION {[T -> Nat] : T \in SUBSET Pairs}, anchor : Chains, save : BOOLEAN, first : Nat,
   kept : BOOLEAN, at : Int, scan : Chains, todo : Seq([event : Events, block : Chains]),
   new : Chains]

\* What a request knows of the stored chain t and of the chain ch of the node.
RequestSound(r, js, t, ch, cut) ==
  /\ r \in RequestRecord
  /\ r.pc # "idle" => r.head \in 1..Len(ch) /\ r.from >= 1
  /\ r.pc \in {"tip", "scan", "new tip", "walk"} => Len(t) <= r.head
  /\ r.pc = "scan" => ScanSound(r, t)
  /\ r.pc \in {"chunk", "logs"} => r.scan = t /\ Len(t) = r.head
  /\ r.pc = "logs" => \A i \in DOMAIN r.todo : IsPrefix(r.todo[i].block, t)
  /\ r.pc \in {"new tip", "walk"} => Len(r.scan) = Len(t)
  /\ r.pc = "walk" => r.at < Len(t)
  /\ r.pc \in {"verify", "rewind"} => r.scan = None \/ (r.scan \in js /\ Len(r.scan) >= Len(cut))

RowSound(x, t, ch, cut) ==
  /\ x = [block |-> x.block, canonical |-> x.canonical, before |-> x.before]
  /\ x.block \in Chains /\ x.canonical \in BOOLEAN
  /\ Len(x.block) <= Len(ch)
  /\ x.canonical /\ Len(x.block) > Len(cut) => IsPrefix(x.block, t)

States == {"HEALTHY", "RECONCILING", "MANUAL_REVIEW"}
Steps == {"none", "pairs", "admit", "swaps", "complete"}
CoordSound(c, au, rp, r) ==
  /\ c \in [state : States, ready : BOOLEAN, last : Chains \X Chains, pending : Seq(DOMAIN au)]
  /\ \A id \in DOMAIN au : /\ au[id] = [status |-> au[id].status, affected |-> au[id].affected]
                           /\ au[id].status \in Outcomes
  /\ rp \in [step : Steps, again : BOOLEAN]
  /\ rp.step # "none" => c.pending # <<>> /\ c.state # "HEALTHY"
  /\ r.pc \in {"rewind", "project"} => c.state # "HEALTHY"
  /\ r.pc = "project" => c.last \in DOMAIN au

ChainInv ==
  /\ chain \in Chains /\ Len(chain) \in Heights
  /\ cutoff \in Chains /\ 1 <= Len(cutoff) /\ Len(cutoff) <= Len(Tip)
  /\ StoredOn(journal, Tip) /\ Len(Tip) <= Len(chain)
  /\ checkpoint \in [Listeners -> Chains] /\ checkpoint[PairCreated] # None
  /\ \A l \in Listeners : IsPrefix(checkpoint[l], Tip)
  /\ DOMAIN row = Events /\ \A e \in Events : RowSound(row[e], Tip, chain, cutoff)
  /\ RequestSound(request, journal, Tip, chain, cutoff)
  /\ CoordSound(coord, audit, replay, request)
  /\ DOMAIN asked \subseteq Pairs /\ \A p \in DOMAIN asked : asked[p] \in Chains
  /\ monitor \in [Pairs -> {"off", "on", "stopped"}]
  /\ left \in [forks : Nat, faults : Nat, all : Nat]

------------------------------------------------------------------------------
(* Prefixes, and the tip.                                                   *)

LEMMA UptoIs ==
  ASSUME NEW h \in Chains, NEW n \in 0..Len(h)
  PROVE  /\ Upto(h, n) \in Chains /\ Len(Upto(h, n)) = n
         /\ \A i \in 1..n : Upto(h, n)[i] = h[i]
BY DEF Upto, Chains

LEMMA SameChain ==
  ASSUME NEW s \in Chains, NEW t \in Chains, Len(s) = Len(t), \A i \in 1..Len(s) : s[i] = t[i]
  PROVE  s = t
BY DEF Chains

LEMMA PrefixIs ==
  ASSUME NEW s \in Chains, NEW t \in Chains
  PROVE  IsPrefix(s, t) <=> (Len(s) <= Len(t) /\ \A i \in 1..Len(s) : s[i] = t[i])
<1> DEFINE a == SubSeq(s, 1, Len(s))
           b == SubSeq(t, 1, Len(s))
<1>1. CASE ~(Len(s) <= Len(t))
  BY <1>1 DEF IsPrefix
<1>2. CASE Len(s) <= Len(t)
  <2>1. Len(s) \in Nat /\ Len(t) \in Nat
    BY DEF Chains
  <2>2. a \in Chains /\ Len(a) = Len(s) /\ \A i \in 1..Len(s) : a[i] = s[i]
    BY <2>1 DEF Chains
  <2>3. b \in Chains /\ Len(b) = Len(s) /\ \A i \in 1..Len(s) : b[i] = t[i]
    BY <1>2, <2>1 DEF Chains
  <2>4. IsPrefix(s, t) <=> a = b
    BY <1>2 DEF IsPrefix
  <2> HIDE DEF a, b
  <2> QED
    BY <1>2, <2>2, <2>3, <2>4, SameChain
<1> QED
  BY <1>1, <1>2

LEMMA PrefixOfItself == ASSUME NEW s \in Chains PROVE IsPrefix(s, s)
BY PrefixIs DEF Chains

LEMMA NoneIsPrefix == ASSUME NEW s \in Chains PROVE None \in Chains /\ Len(None) = 0 /\ IsPrefix(None, s)
<1>1. None \in Chains /\ Len(None) = 0
  BY DEF Chains, None
<1>2. Len(s) \in Nat
  BY DEF Chains
<1>3. \A i \in 1..Len(None) : None[i] = s[i]
  BY <1>1
<1> HIDE DEF None
<1> QED
  BY <1>1, <1>2, <1>3, PrefixIs

LEMMA NoneIsShort == ASSUME NEW s \in Chains PROVE s = None <=> Len(s) = 0
BY DEF Chains, None

LEMMA PrefixThrough ==
  ASSUME NEW s \in Chains, NEW t \in Chains, NEW u \in Chains, IsPrefix(s, t), IsPrefix(t, u)
  PROVE  IsPrefix(s, u)
BY PrefixIs DEF Chains

\* Of two prefixes the shorter one is a prefix of the other.
LEMMA ShorterPrefix ==
  ASSUME NEW s \in Chains, NEW t \in Chains, NEW u \in Chains, IsPrefix(s, u), IsPrefix(t, u),
         Len(s) <= Len(t)
  PROVE  IsPrefix(s, t)
BY PrefixIs DEF Chains

LEMMA SamePrefix ==
  ASSUME NEW s \in Chains, NEW t \in Chains, IsPrefix(s, t), Len(s) = Len(t)
  PROVE  s = t
BY PrefixIs, SameChain

LEMMA UptoIsPrefix ==
  ASSUME NEW h \in Chains, NEW n \in 0..Len(h)
  PROVE  IsPrefix(Upto(h, n), h)
<1>1. /\ Upto(h, n) \in Chains /\ Len(Upto(h, n)) = n
      /\ \A i \in 1..n : Upto(h, n)[i] = h[i]
  BY UptoIs
<1>2. Len(h) \in Nat
  BY DEF Chains
<1> QED
  BY <1>1, <1>2, PrefixIs

LEMMA PrefixIsUpto ==
  ASSUME NEW s \in Chains, NEW t \in Chains
  PROVE  IsPrefix(s, t) <=> (Len(s) <= Len(t) /\ Upto(t, Len(s)) = s)
<1>1. Len(s) \in Nat /\ Len(t) \in Nat
  BY DEF Chains
<1>2. CASE Len(s) <= Len(t)
  <2>1. Len(s) \in 0..Len(t)
    BY <1>1, <1>2
  <2>2. /\ Upto(t, Len(s)) \in Chains /\ Len(Upto(t, Len(s))) = Len(s)
        /\ \A i \in 1..Len(s) : Upto(t, Len(s))[i] = t[i]
    BY <2>1, UptoIs
  <2> QED
    BY <1>2, <2>2, PrefixIs, SameChain
<1> QED
  BY <1>2, PrefixIs

\* The prefix of a prefix.
LEMMA UptoOfPrefix ==
  ASSUME NEW s \in Chains, NEW t \in Chains, IsPrefix(s, t), NEW n \in 0..Len(s)
  PROVE  Upto(s, n) = Upto(t, n)
<1>1. Len(s) \in Nat /\ Len(t) \in Nat /\ Len(s) <= Len(t) /\ n \in 0..Len(t)
  BY PrefixIs DEF Chains
<1>2. /\ Upto(s, n) \in Chains /\ Len(Upto(s, n)) = n /\ \A i \in 1..n : Upto(s, n)[i] = s[i]
  BY UptoIs
<1>3. /\ Upto(t, n) \in Chains /\ Len(Upto(t, n)) = n /\ \A i \in 1..n : Upto(t, n)[i] = t[i]
  BY <1>1, UptoIs
<1>4. \A i \in 1..n : s[i] = t[i]
  BY <1>1, PrefixIs
<1> QED
  BY <1>2, <1>3, <1>4, SameChain

LEMMA UptoWhole == ASSUME NEW h \in Chains PROVE Upto(h, Len(h)) = h
BY DEF Upto, Chains

\* A stored chain has one tip.
LEMMA TipIs ==
  ASSUME NEW t, journal \subseteq Chains, t \in journal, \A h \in journal : IsPrefix(h, t)
  PROVE  Tip = t
<1>1. \A h \in journal : Len(h) <= Len(t)
  BY PrefixIs
<1>2. Tip \in journal /\ \A g \in journal : Len(g) <= Len(Tip)
  BY <1>1 DEF Tip
<1>3. Len(Tip) = Len(t)
  BY <1>1, <1>2 DEF Chains
<1> QED
  BY <1>2, <1>3, SamePrefix

LEMMA TipIsPrime ==
  ASSUME NEW t, journal' \subseteq Chains, t \in journal', \A h \in journal' : IsPrefix(h, t)
  PROVE  Tip' = t
<1> DEFINE js == journal'
<1>1. \A h \in js : Len(h) <= Len(t)
  BY PrefixIs
<1>2. Tip' = CHOOSE h \in js : \A g \in js : Len(g) <= Len(h)
  BY DEF Tip
<1>3. Tip' \in js /\ \A g \in js : Len(g) <= Len(Tip')
  BY <1>1, <1>2
<1>4. Tip' \in Chains /\ t \in Chains /\ IsPrefix(Tip', t)
  BY <1>3
<1>5. Len(Tip') = Len(t)
  BY <1>1, <1>3, <1>4 DEF Chains
<1> QED
  BY <1>4, <1>5, SamePrefix

------------------------------------------------------------------------------
(* The bounds of the journal and of a scan.                                 *)

LEMMA ConstantsTyped ==
  /\ PairCreated \in Listeners /\ Pairs \subseteq Listeners
  /\ Events \subseteq Nat \ {0} /\ Created \subseteq Events /\ \A e \in Events : PairOf[e] \in Pairs
  /\ \A n \in Heights, f \in Labels : Content[n][f] \in Seq(Events)
  /\ Target \in Nat \ {0} /\ Retention \in Nat \ {0} /\ ChunkSize \in Nat \ {0}
  /\ MaxHeight \in Nat \ {0} /\ Forks \in Nat /\ Faults \in Nat /\ Troubles \in Nat
BY ChainAssumption DEF Listeners

LEMMA MinOfNats ==
  ASSUME NEW S \in SUBSET Nat, S # {}
  PROVE  Min(S) \in S /\ \A y \in S : Min(S) <= y
<1> DEFINE R == {ss \in Nat \X Nat : ss[1] < ss[2]}
<1>1. IsWellFoundedOn(R, Nat)
  BY NatLessThanWellFounded DEF OpToRel
<1> HIDE DEF R
<1>2. PICK x \in S : \A y \in S : ~(<<y, x>> \in R)
  BY <1>1, WFMin
<1>3. \A y \in S : ~(y < x)
  BY <1>2 DEF R
<1>4. \A y \in S : x <= y
  BY <1>3
<1> QED
  BY <1>4 DEF Min

LEMMA MinOfTwo ==
  ASSUME NEW a \in Int, NEW b \in Int
  PROVE  Min({a, b}) \in {a, b} /\ Min({a, b}) <= a /\ Min({a, b}) <= b
<1>1. \E x \in {a, b} : \A y \in {a, b} : x <= y
  OBVIOUS
<1> QED
  BY <1>1 DEF Min

LEMMA MaxOfTwo ==
  ASSUME NEW a \in Int, NEW b \in Int
  PROVE  Max({a, b}) \in {a, b} /\ Max({a, b}) >= a /\ Max({a, b}) >= b
<1>1. \E x \in {a, b} : \A y \in {a, b} : x >= y
  OBVIOUS
<1> QED
  BY <1>1 DEF Max

\* What every step needs of the invariant.
LEMMA AtChain ==
  ASSUME ChainInv
  PROVE  /\ chain \in Chains /\ Len(chain) \in Nat /\ 1 <= Len(chain) /\ Len(chain) <= MaxHeight
         /\ Tip \in Chains /\ Tip \in journal /\ Len(Tip) \in Nat /\ 1 <= Len(Tip) /\ Len(Tip) <= Len(chain)
         /\ cutoff \in Chains /\ Len(cutoff) \in Nat /\ 1 <= Len(cutoff) /\ Len(cutoff) <= Len(Tip)
         /\ journal \subseteq Chains \ {None} /\ \A h \in journal : Len(h) \in Nat \ {0} /\ IsPrefix(h, Tip)
         /\ \A l \in Listeners : checkpoint[l] \in Chains /\ Len(checkpoint[l]) \in Nat
                                 /\ IsPrefix(checkpoint[l], Tip) /\ Len(checkpoint[l]) <= Len(Tip)
<1> USE ConstantsTyped
<1>1. /\ chain \in Chains /\ Len(chain) \in Heights
      /\ cutoff \in Chains /\ 1 <= Len(cutoff) /\ Len(cutoff) <= Len(Tip)
      /\ StoredOn(journal, Tip) /\ Len(Tip) <= Len(chain)
      /\ checkpoint \in [Listeners -> Chains]
      /\ \A l \in Listeners : IsPrefix(checkpoint[l], Tip)
  BY DEF ChainInv
<1>2. \A h \in Chains : Len(h) \in Nat /\ (Len(h) = 0 <=> h = None)
  BY NoneIsShort DEF Chains
<1>3. journal \subseteq Chains \ {None} /\ Tip \in journal /\ \A h \in journal : IsPrefix(h, Tip)
  BY <1>1 DEF StoredOn
<1>4. \A l \in Listeners : checkpoint[l] \in Chains /\ Len(checkpoint[l]) <= Len(Tip)
  BY <1>1, <1>3, PrefixIs
<1> QED
  BY <1>1, <1>2, <1>3, <1>4 DEF Heights

LEMMA JournalStartIs ==
  ASSUME ChainInv, NEW head \in Nat
  PROVE  JournalStart(head) \in Nat /\ 1 <= JournalStart(head) /\ JournalStart(head) <= Len(Tip)
<1> USE ConstantsTyped
<1>1. Rows \subseteq Nat /\ Len(checkpoint[PairCreated]) \in Rows
  BY AtChain DEF Rows, ChainInv
<1>2. Min(Rows) \in Rows
  BY <1>1, MinOfNats
<1>3. Min(Rows) \in Nat /\ Min(Rows) <= Len(Tip)
  BY <1>2, AtChain DEF Rows
<1>4. OldestCheckpoint \in Nat /\ OldestCheckpoint <= Len(Tip)
  <2>1. Len(cutoff) \in Int /\ Min(Rows) \in Int
    BY <1>3, AtChain
  <2>2. LET m == Max({Len(cutoff), Min(Rows)}) IN m \in {Len(cutoff), Min(Rows)}
    BY <2>1, MaxOfTwo
  <2> QED
    BY <1>3, <2>2, AtChain DEF OldestCheckpoint
<1>5. WindowStart(head) \in Int
  <2>1. head - Retention + 1 \in Int /\ 1 \in Int
    OBVIOUS
  <2> QED
    BY <2>1, MaxOfTwo DEF WindowStart
<1>6. Min({OldestCheckpoint, WindowStart(head)}) \in Int
      /\ Min({OldestCheckpoint, WindowStart(head)}) <= OldestCheckpoint
  <2>1. OldestCheckpoint \in Int
    BY <1>4
  <2>2. LET m == Min({OldestCheckpoint, WindowStart(head)})
        IN m \in {OldestCheckpoint, WindowStart(head)} /\ m <= OldestCheckpoint
    BY <2>1, <1>5, MinOfTwo
  <2> QED
    BY <1>5, <2>1, <2>2
<1> DEFINE m == Min({OldestCheckpoint, WindowStart(head)})
<1>7. /\ JournalStart(head) \in {Len(cutoff), m}
      /\ JournalStart(head) >= Len(cutoff)
  <2>1. Len(cutoff) \in Int /\ m \in Int
    BY <1>6, AtChain
  <2>2. JournalStart(head) = Max({Len(cutoff), m})
    BY DEF JournalStart
  <2> HIDE DEF m
  <2> QED
    BY <2>1, <2>2, MaxOfTwo
<1> HIDE DEF m
<1>8. m \in Int /\ m <= OldestCheckpoint
  BY <1>6 DEF m
<1> QED
  BY <1>4, <1>7, <1>8, AtChain

LEMMA KnownIs ==
  ASSUME ChainInv
  PROVE  Tip \in Known /\ Known \subseteq journal /\ \A h \in Known : Len(h) >= Len(cutoff)
BY AtChain, ConstantsTyped DEF Known

LEMMA CachedIs ==
  ASSUME ChainInv, NEW head \in Nat, Len(Tip) <= head, Cached(head)
  PROVE  Len(Tip) = head
<1>1. JournalStart(head) \in Nat /\ JournalStart(head) <= head
  BY JournalStartIs, AtChain
<1>2. PICK h \in Known : Len(h) = head
  BY <1>1 DEF Cached
<1> QED
  BY <1>2, KnownIs, AtChain, PrefixIs

LEMMA ScanStartIs ==
  ASSUME ChainInv, request.head \in Nat, request.from \in Nat, request.from >= 1, Len(Tip) <= request.head
  PROVE  /\ ScanStart \in 1..request.head + 1
         /\ ScanStart <= Len(Tip) + 1
<1> DEFINE S == {request.head + 1}
                  \cup (IF Cached(request.head) THEN {} ELSE {JournalStart(request.head)})
                  \cup (IF request.from <= request.head THEN {request.from} ELSE {})
<1>1. JournalStart(request.head) \in Nat /\ 1 <= JournalStart(request.head)
      /\ JournalStart(request.head) <= Len(Tip)
  BY JournalStartIs
<1>2. S \subseteq Nat /\ request.head + 1 \in S /\ \A y \in S : y >= 1
  BY <1>1
<1>3. ScanStart = Min(S)
  BY DEF ScanStart
<1>4. CASE Cached(request.head)
  <2>1. Len(Tip) = request.head
    BY <1>4, CachedIs
  <2> HIDE DEF S
  <2>2. ScanStart \in S /\ ScanStart <= request.head + 1
    BY <1>2, <1>3, MinOfNats
  <2> QED
    BY <2>1, <2>2, <1>2
<1>5. CASE ~Cached(request.head)
  <2>1. JournalStart(request.head) \in S
    BY <1>5
  <2> HIDE DEF S
  <2>2. ScanStart \in S /\ ScanStart <= request.head + 1 /\ ScanStart <= JournalStart(request.head)
    BY <1>2, <1>3, <2>1, MinOfNats
  <2> QED
    BY <1>1, <1>2, <2>2, AtChain
<1> QED
  BY <1>4, <1>5

------------------------------------------------------------------------------
(* Parts of the invariant.                                                  *)

LEMMA NoFunction == <<>> \in [{} -> Nat]
<1>1. PICK x : x = <<>>
  OBVIOUS
<1>2. DOMAIN x = {} /\ x = [i \in {} |-> x[i]]
  BY <1>1
<1> QED
  BY <1>1, <1>2

LEMMA IdleTyped == Idle \in RequestRecord
<1>1. <<>> \in UNION {[T -> Nat] : T \in SUBSET Pairs}
  BY NoFunction
<1>2. None \in Chains /\ <<>> \in Seq([event : Events, block : Chains])
  BY DEF None, Chains
<1>3. PICK fs : fs = UNION {[T -> Nat] : T \in SUBSET Pairs}
  OBVIOUS
<1>4. PICK x : x = <<>>
  OBVIOUS
<1>5. x \in fs /\ x \in Chains /\ x \in Seq([event : Events, block : Chains])
  BY <1>1, <1>2, <1>3, <1>4 DEF None
<1>6. Idle = [pc |-> "idle", kind |-> "none", head |-> 0, from |-> 0, targets |-> x,
              anchor |-> x, save |-> FALSE, first |-> 0, kept |-> FALSE,
              at |-> 0, scan |-> x, todo |-> x, new |-> x]
  BY <1>4 DEF Idle, None
<1> QED
  BY <1>3, <1>5, <1>6 DEF RequestRecord, PCs

LEMMA IdleSound ==
  ASSUME NEW js, NEW t, NEW ch, NEW cut
  PROVE  RequestSound(Idle, js, t, ch, cut)
BY IdleTyped DEF RequestSound, Idle

\* A step that leaves the stored chain, the events and the node alone.
LEMMA Reassemble ==
  ASSUME ChainInv, UNCHANGED <<chain, cutoff, journal, checkpoint, row>>,
         RequestSound(request', journal, Tip, chain, cutoff),
         CoordSound(coord', audit', replay', request'),
         DOMAIN asked' \subseteq Pairs, \A p \in DOMAIN asked' : asked'[p] \in Chains,
         monitor' \in [Pairs -> {"off", "on", "stopped"}],
         left' \in [forks : Nat, faults : Nat, all : Nat]
  PROVE  ChainInv'
<1>1. Tip' = Tip
  BY DEF Tip
<1> QED
  BY <1>1 DEF ChainInv

\* What the parts of the invariant that have nothing to do with the chain say.
LEMMA AtCoord ==
  ASSUME ChainInv
  PROVE  /\ RequestSound(request, journal, Tip, chain, cutoff)
         /\ CoordSound(coord, audit, replay, request)
         /\ DOMAIN asked \subseteq Pairs /\ \A p \in DOMAIN asked : asked[p] \in Chains
         /\ monitor \in [Pairs -> {"off", "on", "stopped"}]
         /\ left \in [forks : Nat, faults : Nat, all : Nat]
BY DEF ChainInv

LEMMA SpendKeeps ==
  ASSUME left \in [forks : Nat, faults : Nat, all : Nat], Spend("forks") \/ Spend("faults")
  PROVE  left' \in [forks : Nat, faults : Nat, all : Nat]
<1>1. CASE Spend("forks")
  <2>1. left.forks > 0 /\ left.all > 0 /\ left' = [left EXCEPT !.forks = @ - 1, !.all = @ - 1]
    BY <1>1 DEF Spend
  <2>2. left' = [forks |-> left.forks - 1, faults |-> left.faults, all |-> left.all - 1]
    BY <2>1
  <2>3. left.forks \in Nat /\ left.faults \in Nat /\ left.all \in Nat
    OBVIOUS
  <2> QED
    BY <2>1, <2>2, <2>3
<1>2. CASE Spend("faults")
  <2>1. left.faults > 0 /\ left.all > 0 /\ left' = [left EXCEPT !.faults = @ - 1, !.all = @ - 1]
    BY <1>2 DEF Spend
  <2>2. left' = [forks |-> left.forks, faults |-> left.faults - 1, all |-> left.all - 1]
    BY <2>1
  <2>3. left.forks \in Nat /\ left.faults \in Nat /\ left.all \in Nat
    OBVIOUS
  <2> QED
    BY <2>1, <2>2, <2>3
<1> QED
  BY <1>1, <1>2

\* The coordinator does not look at the request outside a rollback.
LEMMA CoordBesideRequest ==
  ASSUME NEW c, NEW au, NEW rp, NEW r, NEW r2, CoordSound(c, au, rp, r),
         r2.pc \notin {"rewind", "project"}
  PROVE  CoordSound(c, au, rp, r2)
BY DEF CoordSound

LEMMA CoordThrown ==
  ASSUME NEW c, NEW au, NEW rp, NEW r, CoordSound(c, au, rp, r)
  PROVE  CoordSound(c, au, NoReplay, Idle)
BY DEF CoordSound, NoReplay, Idle, Steps

\* A request that fails.
LEMMA ThrowKeeps ==
  ASSUME ChainInv, Throw, UNCHANGED <<chain, cutoff, journal, checkpoint, row, coord, audit, asked, monitor>>,
         left' \in [forks : Nat, faults : Nat, all : Nat]
  PROVE  ChainInv'
<1>1. request' = Idle /\ replay' = NoReplay
  BY DEF Throw
<1>2. RequestSound(request', journal, Tip, chain, cutoff)
  BY <1>1, IdleSound
<1>3. CoordSound(coord', audit', replay', request')
  BY <1>1, AtCoord, CoordThrown
<1> QED
  BY <1>2, <1>3, AtCoord, Reassemble

\* A step of the request alone, outside a rollback.
LEMMA RequestKeeps ==
  ASSUME ChainInv, requestOnly, RequestSound(request', journal, Tip, chain, cutoff),
         request'.pc \notin {"rewind", "project"}
  PROVE  ChainInv'
<1>1. UNCHANGED <<chain, cutoff, journal, checkpoint, row, coord, audit, replay, asked, monitor, left>>
  BY DEF requestOnly, nodeVars, storeVars, projections, idleVars, monitors
<1>2. CoordSound(coord', audit', replay', request')
  BY <1>1, AtCoord, CoordBesideRequest
<1> QED
  BY <1>1, <1>2, AtCoord, Reassemble

\* The end of a request.
LEMMA ReturnIs ==
  ASSUME NEW diverged \in BOOLEAN, Return(diverged), replay \in [step : Steps, again : BOOLEAN]
  PROVE  /\ request' = Idle /\ replay' \in [step : Steps, again : BOOLEAN]
         /\ replay'.step # "none" => InReplay
BY DEF Return, NoReplay, InReplay, NextStep, Steps

------------------------------------------------------------------------------
(* The node, and the start of a request.                                    *)

LEMMA ChainMoves ==
  ASSUME ChainInv, chain' \in Chains, Len(chain') \in Heights, Len(chain') >= Len(chain),
         UNCHANGED <<cutoff, journal, checkpoint, row, request, coord, audit, replay, asked, monitor>>,
         left' \in [forks : Nat, faults : Nat, all : Nat]
  PROVE  ChainInv'
<1>1. Tip' = Tip
  BY DEF Tip
<1>2. Len(chain) \in Nat /\ Len(chain') \in Nat
  BY AtChain DEF Chains
<1>3. RequestSound(request, journal, Tip, chain', cutoff)
  <2>1. RequestSound(request, journal, Tip, chain, cutoff)
    BY AtCoord
  <2>2. \A x \in 1..Len(chain) : x \in 1..Len(chain')
    BY <1>2
  <2> QED
    BY <2>1, <2>2 DEF RequestSound
<1>4. \A e \in Events : RowSound(row[e], Tip, chain', cutoff)
  <2> TAKE e \in Events
  <2>1. RowSound(row[e], Tip, chain, cutoff) /\ Len(row[e].block) \in Nat
    BY DEF ChainInv, RowSound, Chains
  <2> QED
    BY <1>2, <2>1 DEF RowSound
<1>5. Len(Tip) <= Len(chain')
  BY <1>2, AtChain
<1> QED
  BY <1>1, <1>3, <1>4, <1>5 DEF ChainInv

LEMMA ExtendKeeps == ASSUME ChainInv, Extend PROVE ChainInv'
<1>1. /\ Len(chain) < MaxHeight /\ chain' = Append(chain, Last(chain))
      /\ UNCHANGED <<cutoff, journal, checkpoint, row, request, coord, audit, replay, asked, monitor, left>>
  BY DEF Extend, storeVars, projections, idleVars, monitors
<1>2. Last(chain) \in Labels
  BY AtChain DEF Last, Chains
<1>3. chain' \in Chains /\ Len(chain') = Len(chain) + 1
  BY <1>1, <1>2, AtChain DEF Chains
<1>4. Len(chain') \in Heights
  BY <1>1, <1>3, AtChain, ConstantsTyped DEF Heights
<1>5. Len(chain') >= Len(chain)
  BY <1>3, AtChain
<1> QED
  BY <1>1, <1>3, <1>4, <1>5, AtCoord, ChainMoves

LEMMA ReplaceKeeps == ASSUME ChainInv, Replace PROVE ChainInv'
<1>1. /\ Spend("forks")
      /\ UNCHANGED <<cutoff, journal, checkpoint, row, request, coord, audit, replay, asked, monitor>>
  BY DEF Replace, storeVars, projections, idleVars, monitors
<1>2. PICK n \in 2..Len(chain), f \in Labels :
        chain' = [i \in 1..Len(chain) |-> IF i < n THEN chain[i] ELSE f]
  BY DEF Replace
<1>3. chain' \in Chains /\ Len(chain') = Len(chain)
  BY <1>2, AtChain DEF Chains
<1>4. Len(chain') \in Heights /\ Len(chain') >= Len(chain)
  BY <1>3, AtChain DEF ChainInv
<1>5. left' \in [forks : Nat, faults : Nat, all : Nat]
  BY <1>1, AtCoord, SpendKeeps
<1> QED
  BY <1>1, <1>3, <1>4, <1>5, ChainMoves

Targets == UNION {[T -> Nat] : T \in SUBSET Pairs}

LEMMA StartSound ==
  ASSUME ChainInv, NEW kind \in {"pairs", "swaps"}, NEW from \in Nat \ {0}, NEW targets \in Targets,
         NEW anchor \in Chains, Len(Tip) <= Len(chain), Start(kind, from, targets, anchor)
  PROVE  RequestSound(request', journal, Tip, chain, cutoff) /\ request'.pc = "tip"
<1>1. Idle \in RequestRecord
  BY IdleTyped
<1>2. request' = [Idle EXCEPT !.pc = "tip", !.kind = kind, !.head = Len(chain), !.from = from,
                              !.targets = targets, !.anchor = anchor]
  BY DEF Start
<1> DEFINE r2 == request'
<1>3. /\ r2.pc = "tip" /\ r2.head = Len(chain) /\ r2.from = from
      /\ r2 = [pc |-> "tip", kind |-> kind, head |-> Len(chain), from |-> from, targets |-> targets,
               anchor |-> anchor, save |-> Idle.save, first |-> Idle.first, kept |-> Idle.kept,
               at |-> Idle.at, scan |-> Idle.scan, todo |-> Idle.todo, new |-> Idle.new]
  BY <1>2 DEF Idle
<1>4. r2 \in RequestRecord
  <2>1. Len(chain) \in Nat
    BY AtChain
  <2>2. /\ Idle.save \in BOOLEAN /\ Idle.first \in Nat /\ Idle.kept \in BOOLEAN /\ Idle.at \in Int
        /\ Idle.scan \in Chains /\ Idle.todo \in Seq([event : Events, block : Chains])
        /\ Idle.new \in Chains
    BY <1>1 DEF RequestRecord
  <2>3. Len(chain) \in Nat /\ "tip" \in PCs /\ kind \in {"none", "pairs", "swaps"}
    BY <2>1 DEF PCs
  <2> HIDE DEF r2
  <2>4. PICK i : i = Idle
    OBVIOUS
  <2> QED
    BY <1>3, <2>2, <2>3, <2>4 DEF RequestRecord, Targets
<1> HIDE DEF r2
<1> QED
  BY <1>3, <1>4, AtChain DEF RequestSound, r2

LEMMA PairsRequestKeeps == ASSUME ChainInv, PairsRequest PROVE ChainInv'
<1>1. <<>> \in Targets
  BY NoFunction DEF Targets
<1>2. checkpoint[PairCreated] \in Chains /\ Len(checkpoint[PairCreated]) + 1 \in Nat \ {0}
  BY AtChain, ConstantsTyped
<1>3. Len(Tip) <= Len(chain)
  BY AtChain
<1>4. Start("pairs", Len(checkpoint[PairCreated]) + 1, <<>>, checkpoint[PairCreated])
  BY DEF PairsRequest
<1>5. PICK from, targets, anchor : from = Len(checkpoint[PairCreated]) + 1 /\ targets = <<>>
                                   /\ anchor = checkpoint[PairCreated]
  OBVIOUS
<1>6. RequestSound(request', journal, Tip, chain, cutoff) /\ request'.pc = "tip"
  <2>1. Start("pairs", from, targets, anchor)
    BY <1>4, <1>5
  <2> QED
    BY <1>1, <1>2, <1>3, <1>5, <2>1, StartSound
<1> QED
  BY <1>6, RequestKeeps DEF PairsRequest, requestOnly

LEMMA NextTyped ==
  ASSUME ChainInv, NEW c \in Chains
  PROVE  NextOf(c) \in Nat \ {0}
<1>1. Len(c) \in Nat
  BY DEF Chains
<1> QED
  BY <1>1, AtChain DEF NextOf

LEMMA FirstTyped ==
  ASSUME ChainInv, NEW targets, DOMAIN targets # {}, \A p \in DOMAIN targets : targets[p] \in Chains
  PROVE  FirstOf(targets) \in Nat \ {0}
<1> DEFINE S == {NextOf(targets[p]) : p \in DOMAIN targets}
<1>1. S \subseteq Nat \ {0} /\ S # {}
  BY NextTyped
<1>2. FirstOf(targets) = Min(S)
  BY DEF FirstOf
<1> HIDE DEF S
<1> QED
  BY <1>1, <1>2, MinOfNats

LEMMA SnapshotTyped ==
  ASSUME ChainInv
  PROVE  DOMAIN Snapshot \subseteq Pairs /\ \A p \in DOMAIN Snapshot : Snapshot[p] \in Chains
BY AtChain, ConstantsTyped DEF Snapshot, On

LEMMA SwapsRequestKeeps == ASSUME ChainInv, SwapsRequest PROVE ChainInv'
<1>1. PICK targets : targets = IF InReplay THEN Snapshot ELSE asked
  OBVIOUS
<1>2. DOMAIN targets \subseteq Pairs /\ \A p \in DOMAIN targets : targets[p] \in Chains
  <2>1. CASE InReplay
    BY <1>1, <2>1, SnapshotTyped
  <2>2. CASE ~InReplay
    BY <1>1, <2>2, AtCoord
  <2> QED
    BY <2>1, <2>2
<1>3. PICK anchor : anchor = IF Anchors(targets) = {} THEN None ELSE CHOOSE c \in Anchors(targets) : TRUE
  OBVIOUS
<1>4. PICK from, nexts : from = FirstOf(targets) /\ nexts = [p \in DOMAIN targets |-> NextOf(targets[p])]
  OBVIOUS
<1>5. DOMAIN targets # {} /\ Start("swaps", from, nexts, anchor) /\ Len(Tip) <= Len(chain)
  BY <1>1, <1>3, <1>4 DEF SwapsRequest, Admitted
<1>6. from \in Nat \ {0}
  BY <1>2, <1>4, <1>5, FirstTyped
<1>7. nexts \in Targets
  <2>1. \A p \in DOMAIN targets : NextOf(targets[p]) \in Nat
    BY <1>2, NextTyped
  <2>2. nexts \in [DOMAIN targets -> Nat]
    BY <1>4, <2>1
  <2> QED
    BY <1>2, <2>2 DEF Targets
<1>8. anchor \in Chains
  <2>1. Anchors(targets) \subseteq Chains
    BY <1>2 DEF Anchors
  <2>2. None \in Chains
    BY AtChain, NoneIsPrefix
  <2> QED
    BY <1>3, <2>1, <2>2
<1>9. RequestSound(request', journal, Tip, chain, cutoff) /\ request'.pc = "tip"
  BY <1>5, <1>6, <1>7, <1>8, StartSound
<1>10. /\ UNCHANGED <<chain, cutoff, journal, checkpoint, row, coord, audit, replay, monitor, left>>
       /\ asked' = IF InReplay THEN asked ELSE None
  BY DEF SwapsRequest, nodeVars, storeVars, projections, monitors
<1>11. DOMAIN asked' \subseteq Pairs /\ \A p \in DOMAIN asked' : asked'[p] \in Chains
  <2>1. DOMAIN None = {}
    BY DEF None
  <2> QED
    BY <1>10, <2>1, AtCoord
<1>12. CoordSound(coord', audit', replay', request')
  BY <1>9, <1>10, AtCoord, CoordBesideRequest
<1> QED
  BY <1>9, <1>10, <1>11, <1>12, AtCoord, Reassemble

LEMMA AskKeeps == ASSUME ChainInv, Ask \/ DropAsked PROVE ChainInv'
<1>1. /\ UNCHANGED <<chain, cutoff, journal, checkpoint, row, coord, audit, replay, monitor, request, left>>
      /\ asked' \in {Snapshot, None}
  BY DEF Ask, DropAsked, nodeVars, storeVars, projections, monitors
<1>2. DOMAIN asked' \subseteq Pairs /\ \A p \in DOMAIN asked' : asked'[p] \in Chains
  <2>1. DOMAIN None = {}
    BY DEF None
  <2> QED
    BY <1>1, <2>1, SnapshotTyped
<1> QED
  BY <1>1, <1>2, AtCoord, Reassemble

LEMMA ThrowsKeep ==
  ASSUME ChainInv, RpcFails \/ ScanThrows \/ ChunkThrows \/ HandlingFails \/ WalkThrows \/ HandlerFails
  PROVE  ChainInv'
<1>1. Throw /\ UNCHANGED <<chain, cutoff, journal, checkpoint, row, coord, audit, asked, monitor>>
  BY DEF RpcFails, ScanThrows, ChunkThrows, HandlingFails, WalkThrows, HandlerFails,
         nodeVars, storeVars, projections, monitors
<1>2. Spend("faults") \/ UNCHANGED left
  BY DEF RpcFails, ScanThrows, ChunkThrows, HandlingFails, WalkThrows, HandlerFails
<1>3. left' \in [forks : Nat, faults : Nat, all : Nat]
  BY <1>2, AtCoord, SpendKeeps
<1> QED
  BY <1>1, <1>3, ThrowKeeps

------------------------------------------------------------------------------
(* The steps of a request before its chunks.                                *)

LEMMA AtRequest ==
  ASSUME ChainInv, request.pc # "idle"
  PROVE  /\ request \in RequestRecord /\ request.head \in Nat /\ request.head \in 1..Len(chain)
         /\ request.from \in Nat /\ request.from >= 1 /\ request.anchor \in Chains
         /\ request.scan \in Chains /\ request.at \in Int /\ request.new \in Chains
         /\ request.pc \in {"tip", "scan", "new tip", "walk"} => Len(Tip) <= request.head
         /\ request.pc = "scan" => ScanSound(request, Tip)
         /\ request.pc \in {"chunk", "logs"} => request.scan = Tip /\ Len(Tip) = request.head
BY AtCoord DEF RequestSound, RequestRecord

LEMMA TipHoldsKeeps == ASSUME ChainInv, TipHolds PROVE ChainInv'
<1>1. request.pc = "tip"
  BY DEF TipHolds
<1> DEFINE r2 == request'
<1>2. PICK at, first, save, scan :
        /\ at = ScanStart /\ first = JournalStart(request.head) /\ save = ~Cached(request.head)
        /\ scan = IF at = Len(Tip) + 1 THEN Tip
                  ELSE IF at = Len(request.anchor) + 1 THEN request.anchor ELSE None
  OBVIOUS
<1>3. r2 = [request EXCEPT !.pc = "scan", !.at = at, !.first = first, !.save = save, !.scan = scan]
  BY <1>2 DEF TipHolds
<1>4. at \in 1..request.head + 1 /\ at <= Len(Tip) + 1
  BY <1>1, <1>2, AtRequest, ScanStartIs
<1>5. first \in 1..Len(Tip)
  <2>1. request.head \in Nat
    BY <1>1, AtRequest
  <2>2. JournalStart(request.head) \in Nat /\ 1 <= JournalStart(request.head)
        /\ JournalStart(request.head) <= Len(Tip)
    BY <2>1, JournalStartIs
  <2> QED
    BY <1>2, <2>2, AtChain
<1>6. save \in BOOLEAN /\ (~save => Len(Tip) = request.head)
  BY <1>1, <1>2, AtRequest, CachedIs
<1>7. None \in Chains /\ Len(None) = 0
  BY AtChain, NoneIsPrefix
<1>8. scan \in Chains
  BY <1>1, <1>2, <1>7, AtRequest, AtChain
<1>9. /\ scan = None => at <= Len(Tip)
      /\ scan # None => Len(scan) = at - 1
      /\ at > Len(Tip) => IsPrefix(Tip, scan)
  BY <1>1, <1>2, <1>4, <1>7, AtRequest, AtChain, PrefixOfItself
<1>10. r2 \in RequestRecord
  <2>1. request \in RequestRecord /\ "scan" \in PCs /\ at \in Int /\ first \in Nat
    BY <1>1, <1>4, <1>5, AtRequest DEF PCs
  <2> QED
    BY <1>3, <1>6, <1>8, <2>1 DEF RequestRecord
<1>11. /\ r2.pc = "scan" /\ r2.at = at /\ r2.first = first /\ r2.save = save /\ r2.scan = scan
       /\ r2.head = request.head /\ r2.from = request.from
  BY <1>1, <1>3, AtRequest DEF RequestRecord
<1> HIDE DEF r2
<1>12. RequestSound(r2, journal, Tip, chain, cutoff)
  BY <1>1, <1>4, <1>5, <1>6, <1>9, <1>10, <1>11, AtRequest DEF RequestSound, ScanSound
<1> QED
  BY <1>11, <1>12, RequestKeeps DEF TipHolds, r2

LEMMA TipDivergesKeeps == ASSUME ChainInv, TipDiverges PROVE ChainInv'
<1>1. request.pc = "tip"
  BY DEF TipDiverges
<1> DEFINE r2 == request'
<1>2. PICK scan : scan = Upto(chain, Len(Tip))
  OBVIOUS
<1>3. scan \in Chains /\ Len(scan) = Len(Tip)
  BY <1>2, AtChain, UptoIs
<1>4. r2 = [request EXCEPT !.pc = "new tip", !.scan = scan]
  BY <1>2 DEF TipDiverges
<1>5. r2 \in RequestRecord
  <2>1. request \in RequestRecord /\ "new tip" \in PCs
    BY <1>1, AtRequest DEF PCs
  <2> QED
    BY <1>3, <1>4, <2>1 DEF RequestRecord
<1>6. r2.pc = "new tip" /\ r2.scan = scan /\ r2.head = request.head /\ r2.from = request.from
  BY <1>1, <1>4, AtRequest DEF RequestRecord
<1> HIDE DEF r2
<1>7. RequestSound(r2, journal, Tip, chain, cutoff)
  BY <1>1, <1>3, <1>5, <1>6, AtRequest DEF RequestSound
<1> QED
  BY <1>6, <1>7, RequestKeeps DEF TipDiverges, r2

LEMMA ScanHeaderKeeps == ASSUME ChainInv, ScanHeader PROVE ChainInv'
<1>1. request.pc = "scan" /\ request.at <= request.head
  BY DEF ScanHeader
<1> DEFINE r2 == request'
<1>2. PICK at, h : at = request.at /\ h = Upto(chain, at)
  OBVIOUS
<1>3. ScanSound(request, Tip) /\ at \in 1..request.head /\ at \in 0..Len(chain)
  BY <1>1, <1>2, AtRequest, AtChain DEF ScanSound
<1>4. h \in Chains /\ Len(h) = at
  BY <1>2, <1>3, AtChain, UptoIs
<1>5. Verified(h) /\ r2 = [request EXCEPT !.scan = h, !.at = at + 1]
  BY <1>2 DEF ScanHeader
<1>6. r2 \in RequestRecord
  <2>1. request \in RequestRecord /\ at + 1 \in Int
    BY <1>1, <1>3, AtRequest
  <2> QED
    BY <1>4, <1>5, <2>1 DEF RequestRecord
<1>7. /\ r2.pc = "scan" /\ r2.scan = h /\ r2.at = at + 1 /\ r2.head = request.head
      /\ r2.from = request.from /\ r2.first = request.first /\ r2.save = request.save
  BY <1>1, <1>5, AtRequest DEF RequestRecord
<1>8. h # None
  BY <1>3, <1>4, NoneIsShort
<1>9. ASSUME at + 1 > Len(Tip) PROVE IsPrefix(Tip, h)
  <2>1. CASE at = Len(Tip)
    <3>1. Len(Tip) = Len(h)
      BY <1>4, <2>1
    <3>2. Tip = h
      BY <1>5, <3>1, KnownIs DEF Verified
    <3> QED
      BY <1>4, <3>2, PrefixOfItself
  <2>2. CASE at > Len(Tip)
    <3>1. IsPrefix(Tip, request.scan) /\ request.scan \in Chains
      BY <1>1, <1>2, <1>3, <2>2, AtRequest DEF ScanSound
    <3>2. request.scan # None
      <4>1. Len(Tip) <= Len(request.scan)
        BY <3>1, AtChain, PrefixIs
      <4> QED
        BY <3>1, <4>1, AtChain, NoneIsShort
    <3>3. request.scan = Upto(h, Len(h) - 1) /\ Len(h) - 1 \in 0..Len(h)
      BY <1>3, <1>4, <1>5, <3>2 DEF Verified
    <3>4. IsPrefix(request.scan, h)
      BY <1>4, <3>3, UptoIsPrefix
    <3> QED
      BY <1>4, <3>1, <3>4, AtChain, PrefixThrough
  <2> QED
    BY <1>3, <1>9, <2>1, <2>2, AtChain
<1> HIDE DEF r2
<1>10. ScanSound(r2, Tip)
  <2>1. request.head \in Nat
    BY <1>1, AtRequest
  <2>2. at + 1 \in 1..request.head + 1 /\ Len(h) = (at + 1) - 1
    BY <1>3, <1>4, <2>1
  <2> QED
    BY <1>3, <1>7, <1>8, <1>9, <2>2 DEF ScanSound
<1>11. RequestSound(r2, journal, Tip, chain, cutoff)
  BY <1>1, <1>6, <1>7, <1>10, AtRequest DEF RequestSound
<1> QED
  BY <1>7, <1>11, RequestKeeps DEF ScanHeader, r2

LEMMA ReadNewTipKeeps == ASSUME ChainInv, ReadNewTip PROVE ChainInv'
<1>1. request.pc = "new tip"
  BY DEF ReadNewTip
<1> DEFINE r2 == request'
<1>2. PICK new, at : new = Upto(chain, request.head) /\ at = Len(Tip) - 1
  OBVIOUS
<1>3. new \in Chains /\ at \in Int /\ at < Len(Tip)
  <2>1. request.head \in 0..Len(chain)
    <3>1. request.head \in 1..Len(chain) /\ Len(chain) \in Nat
      BY <1>1, AtRequest, AtChain
    <3> QED
      BY <3>1
  <2> QED
    BY <1>2, <2>1, AtChain, UptoIs
<1>4. r2 = [request EXCEPT !.pc = "walk", !.new = new, !.at = at]
  BY <1>2 DEF ReadNewTip
<1>5. r2 \in RequestRecord
  <2>1. request \in RequestRecord /\ "walk" \in PCs
    BY <1>1, AtRequest DEF PCs
  <2> QED
    BY <1>3, <1>4, <2>1 DEF RequestRecord
<1>6. /\ r2.pc = "walk" /\ r2.scan = request.scan /\ r2.head = request.head /\ r2.from = request.from
      /\ r2.at = at
  BY <1>1, <1>4, AtRequest DEF RequestRecord
<1>7. Len(request.scan) = Len(Tip)
  BY <1>1, AtCoord DEF RequestSound
<1> HIDE DEF r2
<1>8. RequestSound(r2, journal, Tip, chain, cutoff)
  BY <1>1, <1>3, <1>5, <1>6, <1>7, AtRequest DEF RequestSound
<1> QED
  BY <1>6, <1>8, RequestKeeps DEF ReadNewTip, r2

LEMMA WalkKeeps == ASSUME ChainInv, Walk PROVE ChainInv'
<1>1. request.pc = "walk" /\ InWindow
  BY DEF Walk
<1> DEFINE r2 == request'
<1>2. PICK at, remote : at = request.at /\ remote = Upto(chain, at)
  OBVIOUS
<1>3. PICK h \in Known : Len(h) = at
  BY <1>1, <1>2 DEF InWindow
<1>4. at \in 0..Len(chain) /\ at >= Len(cutoff) /\ at < Len(Tip)
  BY <1>1, <1>2, <1>3, KnownIs, AtChain, AtCoord DEF RequestSound
<1>5. remote \in Chains /\ Len(remote) = at
  BY <1>2, <1>4, AtChain, UptoIs
<1>6. Len(request.scan) = Len(Tip)
  BY <1>1, AtCoord DEF RequestSound
<1>7. request \in RequestRecord /\ "verify" \in PCs /\ at \in Int
  BY <1>1, <1>4, AtRequest DEF PCs
<1>8. CASE remote \in journal
  <2>1. r2 = [request EXCEPT !.pc = "verify", !.scan = remote]
    BY <1>2, <1>8 DEF Walk
  <2>2. r2 \in RequestRecord
    BY <1>5, <1>7, <2>1 DEF RequestRecord
  <2>3. r2.pc = "verify" /\ r2.scan = remote /\ r2.head = request.head /\ r2.from = request.from
    BY <1>7, <2>1 DEF RequestRecord
  <2> HIDE DEF r2
  <2>4. RequestSound(r2, journal, Tip, chain, cutoff)
    BY <1>1, <1>4, <1>5, <1>8, <2>2, <2>3, AtRequest DEF RequestSound
  <2> QED
    BY <2>3, <2>4, RequestKeeps DEF Walk, r2
<1>9. CASE remote \notin journal
  <2>1. r2 = [request EXCEPT !.at = at - 1]
    BY <1>2, <1>9 DEF Walk
  <2>2. r2 \in RequestRecord
    BY <1>7, <2>1 DEF RequestRecord
  <2>3. r2.pc = "walk" /\ r2.scan = request.scan /\ r2.head = request.head /\ r2.from = request.from
        /\ r2.at = at - 1
    BY <1>1, <1>7, <2>1 DEF RequestRecord
  <2> HIDE DEF r2
  <2>4. at - 1 < Len(Tip)
    BY <1>4, AtChain
  <2>5. RequestSound(r2, journal, Tip, chain, cutoff)
    BY <1>1, <1>6, <2>2, <2>3, <2>4, AtRequest DEF RequestSound
  <2> QED
    BY <2>3, <2>5, RequestKeeps DEF Walk, r2
<1> QED
  BY <1>8, <1>9

LEMMA NoAncestorKeeps == ASSUME ChainInv, NoAncestor PROVE ChainInv'
<1>1. request.pc = "walk"
  BY DEF NoAncestor
<1> DEFINE r2 == request'
<1>2. r2 = [request EXCEPT !.pc = "verify", !.scan = None]
  BY DEF NoAncestor
<1>3. request \in RequestRecord /\ "verify" \in PCs /\ None \in Chains
  BY <1>1, AtRequest, AtChain, NoneIsPrefix DEF PCs
<1>4. r2 \in RequestRecord
  BY <1>2, <1>3 DEF RequestRecord
<1>5. r2.pc = "verify" /\ r2.scan = None /\ r2.head = request.head /\ r2.from = request.from
  BY <1>2, <1>3 DEF RequestRecord
<1> HIDE DEF r2
<1>6. RequestSound(r2, journal, Tip, chain, cutoff)
  BY <1>1, <1>4, <1>5, AtRequest DEF RequestSound
<1> QED
  BY <1>5, <1>6, RequestKeeps DEF NoAncestor, r2

------------------------------------------------------------------------------
(* What is kept of a sequence, and what a sequence of sequences holds.      *)

\* The least number of a set that stands for what is false.
LEMMA LeastOne ==
  ASSUME NEW S \in SUBSET Nat, S # {}
  PROVE  \E n \in S : \A m \in S : n <= m
<1>1. Min(S) \in S /\ \A y \in S : Min(S) <= y
  BY MinOfNats
<1> QED
  BY <1>1

\* k is the function Keep is computed by, up to n.
KeptUpto(k, s, S, n) ==
  k = [i \in 0..n |-> IF i = 0 THEN <<>>
                      ELSE IF s[i] \in S THEN Append(k[i - 1], s[i]) ELSE k[i - 1]]

LEMMA KeptExists ==
  ASSUME NEW s, NEW S, NEW len \in Nat
  PROVE  \E k : KeptUpto(k, s, S, len)
<1> DEFINE Bad == {n \in 0..len : ~\E k : KeptUpto(k, s, S, n)}
<1>1. Bad = {}
  <2> SUFFICES ASSUME Bad # {} PROVE FALSE
    OBVIOUS
  <2>1. PICK n \in Bad : \A m \in Bad : n <= m
    <3>1. Bad \subseteq Nat
      OBVIOUS
    <3> HIDE DEF Bad
    <3> QED
      BY <3>1, LeastOne
  <2>2. CASE n = 0
    <3>1. PICK k : k = [i \in 0..0 |-> <<>>]
      OBVIOUS
    <3>2. KeptUpto(k, s, S, 0)
      BY <3>1 DEF KeptUpto
    <3> QED
      BY <2>2, <3>2
  <2>3. CASE n # 0
    <3>1. n - 1 \in 0..len /\ n - 1 \notin Bad /\ n \in Nat
      BY <2>1, <2>3
    <3>2. PICK k : KeptUpto(k, s, S, n - 1)
      BY <3>1
    <3>3. PICK g : g = [i \in 0..n |-> IF i = n THEN (IF s[n] \in S THEN Append(k[n - 1], s[n]) ELSE k[n - 1])
                                       ELSE k[i]]
      OBVIOUS
    <3>4. \A i \in 0..n - 1 : k[i] = IF i = 0 THEN <<>>
                                     ELSE IF s[i] \in S THEN Append(k[i - 1], s[i]) ELSE k[i - 1]
      BY <3>2 DEF KeptUpto
    <3>5. \A i \in 0..n : g[i] = IF i = 0 THEN <<>>
                                 ELSE IF s[i] \in S THEN Append(g[i - 1], s[i]) ELSE g[i - 1]
      <4> TAKE i \in 0..n
      <4>1. CASE i = n
        <5>1. g[n] = (IF s[n] \in S THEN Append(k[n - 1], s[n]) ELSE k[n - 1]) /\ g[n - 1] = k[n - 1]
          BY <3>1, <3>3
        <5> QED
          BY <2>3, <4>1, <5>1
      <4>2. CASE i # n
        <5>1. i \in 0..n - 1 /\ g[i] = k[i]
          BY <3>1, <3>3, <4>2
        <5>2. i # 0 => g[i - 1] = k[i - 1]
          BY <3>1, <3>3, <4>2
        <5> QED
          BY <3>4, <5>1, <5>2
      <4> QED
        BY <4>1, <4>2
    <3>6. g = [i \in 0..n |-> IF i = 0 THEN <<>>
                              ELSE IF s[i] \in S THEN Append(g[i - 1], s[i]) ELSE g[i - 1]]
      BY <3>3, <3>5
    <3>7. KeptUpto(g, s, S, n)
      BY <3>6 DEF KeptUpto
    <3> QED
      BY <2>1, <3>7
  <2> QED
    BY <2>2, <2>3
<1> QED
  BY <1>1

LEMMA KeepBy ==
  ASSUME NEW A, NEW s \in Seq(A), NEW S
  PROVE  \E k : KeptUpto(k, s, S, Len(s)) /\ Keep(s, S) = k[Len(s)]
<1>1. Len(s) \in Nat
  OBVIOUS
<1>2. PICK k : k = CHOOSE x : KeptUpto(x, s, S, Len(s))
  OBVIOUS
<1>3. KeptUpto(k, s, S, Len(s))
  BY <1>1, <1>2, KeptExists
<1>4. Keep(s, S) = k[Len(s)]
  BY <1>2 DEF Keep, KeptUpto
<1> QED
  BY <1>3, <1>4

LEMMA KeepIs ==
  ASSUME NEW A, NEW s \in Seq(A), NEW S
  PROVE  /\ Keep(s, S) \in Seq(A)
         /\ \A x : (\E i \in DOMAIN Keep(s, S) : Keep(s, S)[i] = x)
                     <=> x \in S /\ \E i \in DOMAIN s : s[i] = x
<1>1. PICK k : KeptUpto(k, s, S, Len(s)) /\ Keep(s, S) = k[Len(s)]
  BY KeepBy
<1> DEFINE Holds(x, n) == \E i \in 1..n : s[i] = x
           Good(n) == /\ k[n] \in Seq(A)
                      /\ \A x : (\E i \in DOMAIN k[n] : k[n][i] = x) <=> x \in S /\ Holds(x, n)
           Bad == {n \in 0..Len(s) : ~Good(n)}
<1>2. /\ k[0] = <<>>
      /\ \A n \in 1..Len(s) : k[n] = IF s[n] \in S THEN Append(k[n - 1], s[n]) ELSE k[n - 1]
  <2>1. k = [i \in 0..Len(s) |-> IF i = 0 THEN <<>>
                                 ELSE IF s[i] \in S THEN Append(k[i - 1], s[i]) ELSE k[i - 1]]
    BY <1>1 DEF KeptUpto
  <2>2. \A i \in 0..Len(s) : k[i] = IF i = 0 THEN <<>>
                                    ELSE IF s[i] \in S THEN Append(k[i - 1], s[i]) ELSE k[i - 1]
    BY <2>1
  <2>3. Len(s) \in Nat /\ 0 \in 0..Len(s) /\ \A n \in 1..Len(s) : n \in 0..Len(s) /\ n # 0
    OBVIOUS
  <2> QED
    BY <2>2, <2>3
<1>3. Good(0)
  BY <1>2
<1>4. ASSUME NEW n \in 1..Len(s), Good(n - 1) PROVE Good(n)
  <2>1. PICK l, l2, e : l = k[n - 1] /\ l2 = k[n] /\ e = s[n]
    OBVIOUS
  <2>2. l \in Seq(A) /\ e \in A /\ l2 = IF e \in S THEN Append(l, e) ELSE l
    BY <1>2, <1>4, <2>1
  <2>3. l2 \in Seq(A)
    BY <2>2
  <2>4. ASSUME NEW x PROVE (\E i \in DOMAIN l2 : l2[i] = x) <=> ((\E i \in DOMAIN l : l[i] = x) \/ (e \in S /\ x = e))
    <3>1. CASE e \in S
      <4>1. /\ Len(l) \in Nat /\ DOMAIN l = 1..Len(l) /\ DOMAIN l2 = 1..(Len(l) + 1)
            /\ \A i \in 1..Len(l) : l2[i] = l[i] /\ l2[Len(l) + 1] = e
        BY <2>2, <3>1
      <4>2. l2[Len(l) + 1] = e
        BY <2>2, <3>1
      <4> QED
        BY <3>1, <4>1, <4>2
    <3>2. CASE e \notin S
      BY <2>2, <3>2
    <3> QED
      BY <3>1, <3>2
  <2>5. ASSUME NEW x PROVE Holds(x, n) <=> (Holds(x, n - 1) \/ x = e)
    BY <2>1
  <2>6. ASSUME NEW x PROVE (\E i \in DOMAIN l : l[i] = x) <=> x \in S /\ Holds(x, n - 1)
    BY <1>4, <2>1
  <2> HIDE DEF Holds
  <2>7. ASSUME NEW x PROVE (\E i \in DOMAIN l2 : l2[i] = x) <=> x \in S /\ Holds(x, n)
    BY <2>4, <2>5, <2>6
  <2> QED
    BY <2>1, <2>3, <2>7
<1>5. Bad = {}
  <2> SUFFICES ASSUME Bad # {} PROVE FALSE
    OBVIOUS
  <2>1. PICK n \in Bad : \A m \in Bad : n <= m
    <3>1. Bad \subseteq Nat
      OBVIOUS
    <3> HIDE DEF Bad
    <3> QED
      BY <3>1, LeastOne
  <2> HIDE DEF Good
  <2>2. n # 0 /\ n \in 1..Len(s) /\ n - 1 \in 0..Len(s)
    BY <1>3, <2>1
  <2>3. n - 1 \notin Bad
    BY <2>1, <2>2
  <2> QED
    BY <1>4, <2>1, <2>2, <2>3
<1>6. Good(Len(s))
  <2> HIDE DEF Good
  <2>1. Len(s) \in 0..Len(s)
    OBVIOUS
  <2> QED
    BY <1>5, <2>1
<1>7. DOMAIN s = 1..Len(s)
  OBVIOUS
<1> QED
  BY <1>1, <1>6, <1>7

\* k is the function FlattenSeq is computed by, up to n.
FlatUpto(k, ss, n) == k = [i \in 1..n |-> IF i = 1 THEN ss[i] ELSE k[i - 1] \o ss[i]]

LEMMA FlatExists ==
  ASSUME NEW ss, NEW len \in Nat
  PROVE  \E k : FlatUpto(k, ss, len)
<1> DEFINE Bad == {n \in 0..len : ~\E k : FlatUpto(k, ss, n)}
<1>1. Bad = {}
  <2> SUFFICES ASSUME Bad # {} PROVE FALSE
    OBVIOUS
  <2>1. PICK n \in Bad : \A m \in Bad : n <= m
    <3>1. Bad \subseteq Nat
      OBVIOUS
    <3> HIDE DEF Bad
    <3> QED
      BY <3>1, LeastOne
  <2>2. CASE n = 0
    <3>1. PICK k : k = [i \in 1..0 |-> ss[i]]
      OBVIOUS
    <3>2. FlatUpto(k, ss, 0)
      BY <3>1 DEF FlatUpto
    <3> QED
      BY <2>1, <2>2, <3>2
  <2>3. CASE n # 0
    <3>1. n - 1 \in 0..len /\ n - 1 \notin Bad /\ n \in Nat
      BY <2>1, <2>3
    <3>2. PICK k : FlatUpto(k, ss, n - 1)
      BY <3>1
    <3>3. PICK g : g = [i \in 1..n |-> IF i = n THEN (IF n = 1 THEN ss[n] ELSE k[n - 1] \o ss[n])
                                       ELSE k[i]]
      OBVIOUS
    <3>4. \A i \in 1..n - 1 : k[i] = IF i = 1 THEN ss[i] ELSE k[i - 1] \o ss[i]
      BY <3>2 DEF FlatUpto
    <3>5. \A i \in 1..n : g[i] = IF i = 1 THEN ss[i] ELSE g[i - 1] \o ss[i]
      <4> TAKE i \in 1..n
      <4>1. CASE i = n
        <5>1. g[n] = (IF n = 1 THEN ss[n] ELSE k[n - 1] \o ss[n]) /\ (n # 1 => g[n - 1] = k[n - 1])
          BY <2>3, <3>1, <3>3
        <5> QED
          BY <4>1, <5>1
      <4>2. CASE i # n
        <5>1. i \in 1..n - 1 /\ g[i] = k[i]
          BY <3>1, <3>3, <4>2
        <5>2. i # 1 => g[i - 1] = k[i - 1]
          BY <3>1, <3>3, <4>2
        <5> QED
          BY <3>4, <5>1, <5>2
      <4> QED
        BY <4>1, <4>2
    <3>6. g = [i \in 1..n |-> IF i = 1 THEN ss[i] ELSE g[i - 1] \o ss[i]]
      BY <3>3, <3>5
    <3>7. FlatUpto(g, ss, n)
      BY <3>6 DEF FlatUpto
    <3> QED
      BY <2>1, <3>7
  <2> QED
    BY <2>2, <2>3
<1> QED
  BY <1>1

LEMMA FlatBy ==
  ASSUME NEW A, NEW ss \in Seq(Seq(A)), Len(ss) > 0
  PROVE  \E k : FlatUpto(k, ss, Len(ss)) /\ FlattenSeq(ss) = k[Len(ss)]
<1>1. Len(ss) \in Nat /\ Len(ss) # 0
  OBVIOUS
<1>2. PICK k : k = CHOOSE x : FlatUpto(x, ss, Len(ss))
  OBVIOUS
<1>3. FlatUpto(k, ss, Len(ss))
  BY <1>1, <1>2, FlatExists
<1>4. FlattenSeq(ss) = k[Len(ss)]
  BY <1>1, <1>2 DEF FlattenSeq, FlatUpto
<1> QED
  BY <1>3, <1>4

LEMMA FlatIs ==
  ASSUME NEW A, NEW ss \in Seq(Seq(A)), Len(ss) > 0
  PROVE  /\ FlattenSeq(ss) \in Seq(A)
         /\ \A x : (\E i \in DOMAIN FlattenSeq(ss) : FlattenSeq(ss)[i] = x)
                     <=> \E n \in DOMAIN ss : \E i \in DOMAIN ss[n] : ss[n][i] = x
<1>1. PICK k : FlatUpto(k, ss, Len(ss)) /\ FlattenSeq(ss) = k[Len(ss)]
  BY FlatBy
<1> DEFINE In(x, s) == \E i \in DOMAIN s : s[i] = x
           Good(n) == /\ k[n] \in Seq(A)
                      /\ \A x : In(x, k[n]) <=> \E m \in 1..n : In(x, ss[m])
           Bad == {n \in 1..Len(ss) : ~Good(n)}
<1>2. /\ k[1] = ss[1]
      /\ \A n \in 2..Len(ss) : k[n] = k[n - 1] \o ss[n]
  <2>1. k = [i \in 1..Len(ss) |-> IF i = 1 THEN ss[i] ELSE k[i - 1] \o ss[i]]
    BY <1>1 DEF FlatUpto
  <2>2. \A i \in 1..Len(ss) : k[i] = IF i = 1 THEN ss[i] ELSE k[i - 1] \o ss[i]
    BY <2>1
  <2>3. Len(ss) \in Nat /\ 1 \in 1..Len(ss) /\ \A n \in 2..Len(ss) : n \in 1..Len(ss) /\ n # 1
    OBVIOUS
  <2> QED
    BY <2>2, <2>3
<1>3. Good(1)
  <2>1. ss[1] \in Seq(A)
    OBVIOUS
  <2> HIDE DEF In
  <2>2. \A m \in 1..1 : m = 1
    OBVIOUS
  <2> QED
    BY <1>2, <2>1, <2>2
<1>4. ASSUME NEW n \in 2..Len(ss), Good(n - 1) PROVE Good(n)
  <2>1. PICK l, l2, s : l = k[n - 1] /\ l2 = k[n] /\ s = ss[n]
    OBVIOUS
  <2>2. l \in Seq(A) /\ s \in Seq(A) /\ l2 = l \o s
    <3>1. ss[n] \in Seq(A)
      <4>1. n \in 1..Len(ss)
        OBVIOUS
      <4> QED
        BY <4>1
    <3>2. k[n] = k[n - 1] \o ss[n]
      BY <1>2
    <3>3. k[n - 1] \in Seq(A)
      BY <1>4
    <3> HIDE DEF Good
    <3> QED
      BY <2>1, <3>1, <3>2, <3>3
  <2>3. l2 \in Seq(A)
    BY <2>2
  <2>4. /\ Len(l) \in Nat /\ Len(s) \in Nat /\ DOMAIN l = 1..Len(l) /\ DOMAIN s = 1..Len(s)
        /\ DOMAIN l2 = 1..(Len(l) + Len(s))
        /\ \A i \in 1..Len(l) : l2[i] = l[i]
        /\ \A i \in 1..Len(s) : l2[Len(l) + i] = s[i]
    BY <2>2
  <2>5. ASSUME NEW x PROVE In(x, l2) <=> (In(x, l) \/ In(x, s))
    <3>1. ASSUME In(x, l2) PROVE In(x, l) \/ In(x, s)
      <4>1. PICK i \in 1..(Len(l) + Len(s)) : l2[i] = x
        BY <2>4, <3>1
      <4>2. CASE i <= Len(l)
        <5>1. i \in 1..Len(l) /\ l2[i] = l[i]
          BY <2>4, <4>1, <4>2
        <5>2. i \in DOMAIN l /\ l[i] = x
          BY <2>4, <4>1, <5>1
        <5> QED
          BY <5>2
      <4>3. CASE i > Len(l)
        <5>1. PICK j \in 1..Len(s) : Len(l) + j = i
          <6>1. i - Len(l) \in 1..Len(s) /\ Len(l) + (i - Len(l)) = i
            BY <2>4, <4>1, <4>3
          <6> QED
            BY <6>1
        <5>2. j \in DOMAIN s /\ s[j] = x
          BY <2>4, <4>1, <5>1
        <5> QED
          BY <5>2
      <4>4. i <= Len(l) \/ i > Len(l)
        BY <2>4, <4>1
      <4> QED
        BY <4>2, <4>3, <4>4
    <3>2. ASSUME In(x, l) PROVE In(x, l2)
      BY <2>4, <3>2
    <3>3. ASSUME In(x, s) PROVE In(x, l2)
      <4>1. PICK i \in 1..Len(s) : s[i] = x
        BY <2>4, <3>3
      <4>2. Len(l) + i \in 1..(Len(l) + Len(s))
        BY <2>4, <4>1
      <4> QED
        BY <2>4, <4>1, <4>2
    <3> QED
      BY <3>1, <3>2, <3>3
  <2> HIDE DEF In
  <2>6. ASSUME NEW x PROVE In(x, l) <=> \E m \in 1..(n - 1) : In(x, ss[m])
    BY <1>4, <2>1
  <2>7. \A m : m \in 1..n <=> (m \in 1..(n - 1) \/ m = n)
    OBVIOUS
  <2>8. ASSUME NEW x PROVE In(x, l2) <=> \E m \in 1..n : In(x, ss[m])
    BY <2>1, <2>5, <2>6, <2>7
  <2> QED
    BY <2>1, <2>3, <2>8
<1>5. Bad = {}
  <2> SUFFICES ASSUME Bad # {} PROVE FALSE
    OBVIOUS
  <2>1. PICK n \in Bad : \A m \in Bad : n <= m
    <3>1. Bad \subseteq Nat
      OBVIOUS
    <3> HIDE DEF Bad
    <3> QED
      BY <3>1, LeastOne
  <2> HIDE DEF Good
  <2>2. n # 1 /\ n \in 2..Len(ss) /\ n - 1 \in 1..Len(ss)
    BY <1>3, <2>1
  <2>3. n - 1 \notin Bad
    BY <2>1, <2>2
  <2> QED
    BY <1>4, <2>1, <2>2, <2>3
<1>6. Good(Len(ss))
  <2> HIDE DEF Good
  <2>1. Len(ss) \in 1..Len(ss)
    OBVIOUS
  <2> QED
    BY <1>5, <2>1
<1>7. DOMAIN ss = 1..Len(ss)
  OBVIOUS
<1> QED
  BY <1>1, <1>6, <1>7

------------------------------------------------------------------------------
(* The chunks of a request.                                                 *)

LEMMA UntilIs ==
  ASSUME request.head \in Nat, request.from \in Nat
  PROVE  /\ Until \in Int /\ Until <= request.head
         /\ request.from <= request.head => request.from <= Until
         /\ request.head >= 1 /\ request.from >= 1 => Until >= 1
<1>1. PICK a, b : a = request.head /\ b = request.from + ChunkSize - 1
  OBVIOUS
<1>2. a \in Int /\ b \in Int /\ b >= request.from
  BY <1>1, ConstantsTyped
<1>3. Until = Min({a, b})
  BY <1>1 DEF Until
<1>4. Until \in {a, b} /\ Until <= a
  BY <1>2, <1>3, MinOfTwo
<1> QED
  BY <1>1, <1>2, <1>4

LEMMA EventsTyped ==
  ASSUME NEW h \in Chains, Len(h) \in Heights
  PROVE  EventsAt(h) \in Seq(Events)
<1>1. Last(h) \in Labels
  BY DEF Chains, Last, Heights
<1>2. PICK c : c = Content[Len(h)][Last(h)]
  OBVIOUS
<1>3. c \in Seq(Events)
  BY <1>1, <1>2, ConstantsTyped
<1>4. PICK S : S = {e \in Events : \A n \in 1..Len(h) - 1 : e \notin Range(Content[n][h[n]])}
  OBVIOUS
<1> QED
  BY <1>2, <1>3, <1>4, KeepIs DEF EventsAt

LEMMA AnswerTyped ==
  ASSUME ChainInv, NEW n \in 1..Len(chain)
  PROVE  Answer(n) \in Seq(Events)
<1>1. PICK h : h = Upto(chain, n)
  OBVIOUS
<1>2. h \in Chains /\ Len(h) \in Heights
  <2>1. n \in 0..Len(chain) /\ n \in Heights
    BY AtChain, ConstantsTyped DEF Heights
  <2> QED
    BY <1>1, <2>1, AtChain, UptoIs
<1>3. PICK c : c = EventsAt(h)
  OBVIOUS
<1>4. c \in Seq(Events)
  BY <1>2, <1>3, EventsTyped
<1>5. PICK S : S = IF request.kind = "pairs" THEN Created
                   ELSE {e \in Events \ Created : PairOf[e] \in Concerned}
  OBVIOUS
<1>6. Answer(n) = Keep(c, S)
  BY <1>1, <1>3, <1>5 DEF Answer
<1> QED
  BY <1>4, <1>6, KeepIs

LogRecord == [event : Events, block : Chains]

LEMMA TodoTyped ==
  ASSUME ChainInv, request.pc = "chunk", request.from <= request.head
  PROVE  Todo \in Seq(LogRecord) /\ \A i \in DOMAIN Todo : IsPrefix(Todo[i].block, Tip)
<1>1. /\ request.scan = Tip /\ Len(Tip) = request.head /\ request.head \in Nat
      /\ request.head <= Len(chain) /\ request.from \in Nat /\ request.from >= 1
  BY AtRequest, AtChain
<1>2. PICK t, first, until : t = Tip /\ first = request.from /\ until = Until
  OBVIOUS
<1>3. /\ t \in Chains /\ Len(t) = request.head /\ first \in Nat /\ first >= 1
      /\ until \in Nat /\ first <= until /\ until <= Len(t)
  <2>1. until \in Int /\ until <= request.head /\ first <= until
    BY <1>1, <1>2, UntilIs
  <2> QED
    BY <1>1, <1>2, <2>1, AtChain
<1> DEFINE A == {x \in LogRecord : IsPrefix(x.block, t)}
           of(n) == Keep(Answer(n), IF request.kind = "pairs" THEN Events
                                ELSE {e \in Events : PairOf[e] \in Concerned
                                                      /\ request.targets[PairOf[e]] <= n})
           placed(n) == [i \in DOMAIN of(n) |-> [event |-> of(n)[i], block |-> Upto(request.scan, n)]]
           ss == [i \in 1..(Until - request.from + 1) |-> placed(request.from + i - 1)]
<1>4. ASSUME NEW n \in first..until PROVE placed(n) \in Seq(A)
  <2>1. n \in 1..Len(chain) /\ n \in 0..Len(t)
    BY <1>1, <1>3
  <2>2. PICK answer, S : /\ answer = Answer(n)
                         /\ S = IF request.kind = "pairs" THEN Events
                                ELSE {e \in Events : PairOf[e] \in Concerned
                                                      /\ request.targets[PairOf[e]] <= n}
    OBVIOUS
  <2>3. answer \in Seq(Events)
    BY <2>1, <2>2, AnswerTyped
  <2>4. PICK o, block : o = Keep(answer, S) /\ block = Upto(t, n)
    OBVIOUS
  <2>5. o \in Seq(Events) /\ of(n) = o
    BY <2>2, <2>3, <2>4, KeepIs
  <2>6. block \in Chains /\ IsPrefix(block, t)
    BY <1>3, <2>1, <2>4, UptoIs, UptoIsPrefix
  <2> HIDE DEF of
  <2>7. placed(n) = [i \in DOMAIN o |-> [event |-> o[i], block |-> block]]
    BY <1>1, <1>2, <2>4, <2>5
  <2>8. DOMAIN o = 1..Len(o) /\ Len(o) \in Nat /\ \A i \in 1..Len(o) : o[i] \in Events
    BY <2>5
  <2>9. \A i \in 1..Len(o) : [event |-> o[i], block |-> block] \in A
    BY <2>6, <2>8 DEF LogRecord
  <2> HIDE DEF A, placed
  <2> QED
    BY <2>7, <2>8, <2>9
<1> HIDE DEF placed, of
<1>5. ss = [i \in 1..(until - first + 1) |-> placed(first + i - 1)]
  BY <1>2
<1>6. ss \in Seq(Seq(A)) /\ Len(ss) > 0
  <2>1. until - first + 1 \in Nat /\ until - first + 1 > 0
    BY <1>3
  <2>2. \A i \in 1..(until - first + 1) : first + i - 1 \in first..until
    BY <1>3
  <2>3. \A i \in 1..(until - first + 1) : placed(first + i - 1) \in Seq(A)
    BY <1>4, <2>2
  <2>4. PICK m, B : m = until - first + 1 /\ B = Seq(A)
    OBVIOUS
  <2> HIDE DEF A, ss
  <2>5. ss \in [1..m -> B]
    BY <1>5, <2>3, <2>4
  <2>6. ss \in Seq(B) /\ Len(ss) = m
    BY <2>1, <2>4, <2>5
  <2> QED
    BY <2>1, <2>4, <2>6
<1>7. PICK a, x : a = A /\ x = ss
  OBVIOUS
<1>8. Todo = FlattenSeq(x)
  BY <1>7 DEF Todo, placed, of
<1> HIDE DEF ss
<1>9. Todo \in Seq(a)
  BY <1>6, <1>7, <1>8, FlatIs
<1> HIDE DEF A
<1>10. PICK todo : todo = Todo
  OBVIOUS
<1>11. /\ todo \in Seq(LogRecord)
       /\ \A i \in DOMAIN todo : IsPrefix(todo[i].block, t)
  BY <1>7, <1>9, <1>10 DEF A
<1> QED
  BY <1>2, <1>10, <1>11

LEMMA ReadLogsKeeps == ASSUME ChainInv, ReadLogs PROVE ChainInv'
<1>1. request.pc = "chunk" /\ request.from <= request.head
  BY DEF ReadLogs, AtChunk
<1> DEFINE r2 == request'
<1>2. PICK todo : todo = Todo
  OBVIOUS
<1>3. todo \in Seq([event : Events, block : Chains]) /\ \A i \in DOMAIN todo : IsPrefix(todo[i].block, Tip)
  BY <1>1, <1>2, TodoTyped DEF LogRecord
<1>4. r2 = [request EXCEPT !.pc = "logs", !.todo = todo]
  BY <1>2 DEF ReadLogs
<1>5. request \in RequestRecord /\ "logs" \in PCs
  BY <1>1, AtRequest DEF PCs
<1>6. r2 \in RequestRecord
  BY <1>3, <1>4, <1>5 DEF RequestRecord
<1>7. r2.pc = "logs" /\ r2.scan = request.scan /\ r2.head = request.head /\ r2.from = request.from
      /\ r2.todo = todo
  BY <1>4, <1>5 DEF RequestRecord
<1> HIDE DEF r2
<1>8. RequestSound(r2, journal, Tip, chain, cutoff)
  BY <1>1, <1>3, <1>6, <1>7, AtRequest DEF RequestSound
<1> QED
  BY <1>7, <1>8, RequestKeeps DEF ReadLogs, r2

\* A step that leaves the journal and the node alone.
LEMMA ReassembleStore ==
  ASSUME ChainInv, UNCHANGED <<chain, cutoff, journal>>,
         checkpoint' \in [Listeners -> Chains], checkpoint'[PairCreated] # None,
         \A l \in Listeners : IsPrefix(checkpoint'[l], Tip),
         DOMAIN row' = Events, \A e \in Events : RowSound(row'[e], Tip, chain, cutoff),
         RequestSound(request', journal, Tip, chain, cutoff),
         CoordSound(coord', audit', replay', request'),
         DOMAIN asked' \subseteq Pairs, \A p \in DOMAIN asked' : asked'[p] \in Chains,
         monitor' \in [Pairs -> {"off", "on", "stopped"}],
         left' \in [forks : Nat, faults : Nat, all : Nat]
  PROVE  ChainInv'
<1>1. Tip' = Tip
  BY DEF Tip
<1> QED
  BY <1>1 DEF ChainInv

LEMMA AtStore ==
  ASSUME ChainInv
  PROVE  /\ checkpoint \in [Listeners -> Chains] /\ checkpoint[PairCreated] # None
         /\ \A l \in Listeners : IsPrefix(checkpoint[l], Tip)
         /\ DOMAIN row = Events /\ \A e \in Events : RowSound(row[e], Tip, chain, cutoff)
BY DEF ChainInv

\* The log at hand is of a block of the stored chain; so are those behind it.
LEMMA LogIs ==
  ASSUME ChainInv, request.pc = "logs", request.todo # <<>>
  PROVE  /\ Log.event \in Events /\ Log.block \in Chains /\ IsPrefix(Log.block, Tip)
         /\ RowSound(Processed, Tip, chain, cutoff)
         /\ NextLog => RequestSound(request', journal, Tip, chain, cutoff) /\ request'.pc = "logs"
<1>1. PICK todo : todo = request.todo
  OBVIOUS
<1>2. todo \in Seq(LogRecord) /\ todo # <<>>
  BY <1>1, AtRequest DEF RequestRecord, LogRecord
<1>3. \A i \in DOMAIN todo : IsPrefix(todo[i].block, Tip)
  BY <1>1, AtCoord DEF RequestSound
<1>4. Log = todo[1] /\ 1 \in DOMAIN todo /\ todo[1] \in LogRecord
  BY <1>1, <1>2 DEF Log
<1>5. Log.event \in Events /\ Log.block \in Chains /\ IsPrefix(Log.block, Tip)
  BY <1>3, <1>4 DEF LogRecord
<1>6. RowSound(Processed, Tip, chain, cutoff)
  <2>1. PICK block, before : block = Log.block /\ before = session[PairOf[Log.event]]
    OBVIOUS
  <2>2. Processed = [block |-> block, canonical |-> TRUE, before |-> before]
    BY <2>1 DEF Processed
  <2>3. block \in Chains /\ IsPrefix(block, Tip) /\ Len(block) <= Len(Tip) /\ Len(block) \in Nat
    BY <1>5, <2>1, AtChain, PrefixIs DEF Chains
  <2> QED
    BY <2>2, <2>3, AtChain DEF RowSound
<1>7. ASSUME NextLog PROVE RequestSound(request', journal, Tip, chain, cutoff) /\ request'.pc = "logs"
  <2> DEFINE r2 == request'
  <2>1. PICK rest : rest = Tail(todo)
    OBVIOUS
  <2>2. rest \in Seq(LogRecord) /\ \A i \in DOMAIN rest : i + 1 \in DOMAIN todo /\ rest[i] = todo[i + 1]
    BY <1>2, <2>1
  <2>3. \A i \in DOMAIN rest : IsPrefix(rest[i].block, Tip)
    BY <1>3, <2>2
  <2>4. r2 = [request EXCEPT !.todo = rest]
    BY <1>1, <1>7, <2>1 DEF NextLog
  <2>5. request \in RequestRecord
    BY AtRequest
  <2>6. r2 \in RequestRecord
    BY <2>2, <2>4, <2>5 DEF RequestRecord, LogRecord
  <2>7. r2.pc = "logs" /\ r2.scan = request.scan /\ r2.head = request.head /\ r2.from = request.from
        /\ r2.todo = rest
    BY <2>4, <2>5 DEF RequestRecord
  <2> HIDE DEF r2
  <2>8. RequestSound(r2, journal, Tip, chain, cutoff) /\ r2.pc = "logs"
    BY <2>3, <2>6, <2>7, AtRequest DEF RequestSound
  <2> QED
    BY <2>8 DEF r2
<1> QED
  BY <1>5, <1>6, <1>7

LEMMA AdmitPairKeeps == ASSUME ChainInv, AdmitPair PROVE ChainInv'
<1>1. request.pc = "logs" /\ request.todo # <<>> /\ NextLog
  BY DEF AdmitPair
<1>2. UNCHANGED <<chain, cutoff, journal, checkpoint, audit, coord, replay, asked, monitor, left>>
  BY DEF AdmitPair, nodeVars, idleVars, monitors
<1>3. row' = row \/ row' = [row EXCEPT ![Log.event] = Processed]
  BY DEF AdmitPair
<1>4. RequestSound(request', journal, Tip, chain, cutoff) /\ request'.pc = "logs"
  BY <1>1, LogIs
<1>5. DOMAIN row' = Events /\ \A e \in Events : RowSound(row'[e], Tip, chain, cutoff)
  <2>1. PICK e, x : e = Log.event /\ x = Processed
    OBVIOUS
  <2>2. e \in Events /\ RowSound(x, Tip, chain, cutoff)
    BY <1>1, <2>1, LogIs
  <2>3. row' = row \/ row' = [row EXCEPT ![e] = x]
    BY <1>3, <2>1
  <2> QED
    BY <2>2, <2>3, AtStore
<1>6. CoordSound(coord', audit', replay', request')
  BY <1>2, <1>4, AtCoord, CoordBesideRequest
<1> QED
  BY <1>2, <1>4, <1>5, <1>6, AtStore, AtCoord, ReassembleStore

LEMMA HandleSwapKeeps == ASSUME ChainInv, HandleSwap PROVE ChainInv'
<1>1. request.pc = "logs" /\ request.todo # <<>> /\ NextLog
  BY DEF HandleSwap
<1>2. UNCHANGED <<chain, cutoff, journal, checkpoint, audit, coord, replay, asked, left>>
  BY DEF HandleSwap, nodeVars
<1>3. PICK e, x, p : e = Log.event /\ x = Processed /\ p = PairOf[e]
  OBVIOUS
<1>4. /\ row' = row \/ row' = [row EXCEPT ![e] = x]
      /\ monitor' = monitor \/ monitor' = [monitor EXCEPT ![p] = "stopped"]
  BY <1>3 DEF HandleSwap, projections, monitors
<1>5. RequestSound(request', journal, Tip, chain, cutoff) /\ request'.pc = "logs"
  BY <1>1, LogIs
<1>6. DOMAIN row' = Events /\ \A f \in Events : RowSound(row'[f], Tip, chain, cutoff)
  <2>1. e \in Events /\ RowSound(x, Tip, chain, cutoff)
    BY <1>1, <1>3, LogIs
  <2> QED
    BY <1>4, <2>1, AtStore
<1>7. monitor' \in [Pairs -> {"off", "on", "stopped"}]
  BY <1>4, AtCoord
<1>8. CoordSound(coord', audit', replay', request')
  BY <1>2, <1>5, AtCoord, CoordBesideRequest
<1> QED
  BY <1>2, <1>5, <1>6, <1>7, <1>8, AtStore, AtCoord, ReassembleStore

LEMMA CommitChunkKeeps == ASSUME ChainInv, CommitChunk PROVE ChainInv'
<1>1. request.pc = "logs"
  BY DEF CommitChunk
<1>2. UNCHANGED <<chain, cutoff, journal, row, audit, coord, replay, asked, monitor, left>>
  BY DEF CommitChunk, nodeVars, projections, idleVars, monitors
<1>3. PICK moved, until, h, kept :
        /\ moved = IF request.kind = "pairs" THEN {PairCreated} ELSE Concerned
        /\ until = Until /\ h = Upto(request.scan, Until) /\ kept = (request.kept \/ request.kind = "pairs")
  OBVIOUS
<1> DEFINE r2 == request'
<1>4. PICK targets : targets = [p \in DOMAIN request.targets |->
                                  IF p \in moved THEN until + 1 ELSE request.targets[p]]
  OBVIOUS
<1>5. /\ checkpoint' = [l \in Listeners |-> IF l \in moved THEN h ELSE checkpoint[l]]
      /\ r2 = [request EXCEPT !.pc = "chunk", !.from = until + 1, !.kept = kept, !.targets = targets]
  BY <1>3, <1>4 DEF CommitChunk
<1>6. until \in Nat /\ until >= 1 /\ until <= Len(Tip) /\ request.scan = Tip
  <2>1. until \in Int /\ until <= request.head /\ until >= 1
    BY <1>1, <1>3, AtRequest, UntilIs
  <2> QED
    BY <1>1, <2>1, AtRequest
<1>7. h \in Chains /\ IsPrefix(h, Tip) /\ h # None
  <2>1. PICK t : t = Tip
    OBVIOUS
  <2>2. h = Upto(t, until) /\ t \in Chains /\ until \in 0..Len(t)
    BY <1>3, <1>6, <2>1, AtChain
  <2>3. h \in Chains /\ Len(h) = until /\ IsPrefix(h, t)
    BY <2>2, UptoIs, UptoIsPrefix
  <2> QED
    BY <1>6, <2>1, <2>3, NoneIsShort
<1>8. /\ checkpoint' \in [Listeners -> Chains] /\ checkpoint'[PairCreated] # None
      /\ \A l \in Listeners : IsPrefix(checkpoint'[l], Tip)
  BY <1>5, <1>7, AtStore, ConstantsTyped
<1>9. request \in RequestRecord /\ "chunk" \in PCs /\ until + 1 \in Nat /\ kept \in BOOLEAN
  BY <1>1, <1>3, <1>6, AtRequest DEF PCs
<1>10. targets \in UNION {[T -> Nat] : T \in SUBSET Pairs}
  <2>1. PICK old : old = request.targets
    OBVIOUS
  <2>2. old \in UNION {[T -> Nat] : T \in SUBSET Pairs}
    BY <1>9, <2>1 DEF RequestRecord
  <2>3. PICK T \in SUBSET Pairs : old \in [T -> Nat]
    BY <2>2
  <2>4. targets = [p \in T |-> IF p \in moved THEN until + 1 ELSE old[p]]
    BY <1>4, <2>1, <2>3
  <2>5. targets \in [T -> Nat]
    BY <1>9, <2>3, <2>4
  <2> QED
    BY <2>5
<1>11. r2 \in RequestRecord
  BY <1>5, <1>9, <1>10 DEF RequestRecord
<1>12. r2.pc = "chunk" /\ r2.scan = request.scan /\ r2.head = request.head /\ r2.from = until + 1
  BY <1>5, <1>9 DEF RequestRecord
<1> HIDE DEF r2
<1>13. RequestSound(r2, journal, Tip, chain, cutoff)
  BY <1>1, <1>6, <1>11, <1>12, AtRequest DEF RequestSound
<1>14. RequestSound(request', journal, Tip, chain, cutoff) /\ request'.pc = "chunk"
  BY <1>12, <1>13 DEF r2
<1>15. CoordSound(coord', audit', replay', request')
  BY <1>2, <1>14, AtCoord, CoordBesideRequest
<1> QED
  BY <1>2, <1>8, <1>14, <1>15, AtStore, AtCoord, ReassembleStore

------------------------------------------------------------------------------
(* The journal is written and pruned.                                       *)

\* A step after which the stored chain is t, which continues the one before.
LEMMA TipGrows ==
  ASSUME ChainInv, NEW t \in Chains, StoredOn(journal', t), IsPrefix(Tip, t), Len(t) <= Len(chain),
         UNCHANGED <<chain, cutoff, checkpoint, row, coord, audit, asked, monitor, left>>,
         RequestSound(request', journal', t, chain, cutoff),
         CoordSound(coord', audit', replay', request')
  PROVE  ChainInv'
<1>1. Tip' = t
  BY TipIsPrime DEF StoredOn
<1>2. Len(Tip) <= Len(t) /\ Len(t) \in Nat
  BY AtChain, PrefixIs DEF Chains
<1>3. \A l \in Listeners : IsPrefix(checkpoint[l], t)
  BY AtChain, PrefixThrough
<1>4. \A e \in Events : RowSound(row[e], t, chain, cutoff)
  <2> TAKE e \in Events
  <2>1. RowSound(row[e], Tip, chain, cutoff) /\ row[e].block \in Chains
    BY AtStore DEF RowSound
  <2>2. IsPrefix(row[e].block, Tip) => IsPrefix(row[e].block, t)
    BY <2>1, AtChain, PrefixThrough
  <2> QED
    BY <2>1, <2>2 DEF RowSound
<1>5. Len(cutoff) <= Len(t)
  BY <1>2, AtChain
<1> QED
  BY <1>1, <1>3, <1>4, <1>5, AtStore, AtCoord DEF ChainInv

LEMMA PersistJournalKeeps == ASSUME ChainInv, PersistJournal PROVE ChainInv'
<1>1. request.pc = "scan" /\ request.at > request.head
  BY DEF PersistJournal
<1>2. UNCHANGED <<chain, cutoff, checkpoint, row, coord, audit, replay, asked, monitor, left>>
  BY DEF PersistJournal, nodeVars, projections, idleVars, monitors
<1>3. PICK t, head, first, tip, js : /\ t = request.scan /\ head = request.head /\ first = request.first
                                     /\ tip = Tip /\ js = journal
  OBVIOUS
<1>4. /\ t \in Chains /\ head \in 1..Len(chain) /\ Len(tip) <= head /\ first \in 1..Len(tip)
      /\ ~request.save => Len(tip) = head
      /\ t = None => request.at <= Len(tip)
      /\ t # None => Len(t) = request.at - 1
      /\ request.at > Len(tip) => IsPrefix(tip, t)
      /\ request.at \in 1..head + 1
  BY <1>1, <1>3, AtRequest DEF ScanSound
<1>5. /\ tip \in Chains /\ Len(tip) \in Nat /\ Len(tip) >= 1 /\ head \in Nat /\ Len(t) \in Nat
      /\ tip \in js /\ js \subseteq Chains \ {None} /\ \A h \in js : Len(h) \in Nat /\ IsPrefix(h, tip)
      /\ \A h \in js, n \in Heights : Len(h) < n /\ n < Len(tip) => Upto(tip, n) \in js
      /\ Len(chain) <= MaxHeight /\ Len(chain) \in Nat
  <2>1. StoredOn(js, tip)
    BY <1>3 DEF ChainInv
  <2> QED
    BY <1>3, <1>4, <2>1, AtChain DEF StoredOn, Chains
<1>6. request.at = head + 1 /\ IsPrefix(tip, t) /\ t # None /\ Len(t) = head
  BY <1>1, <1>3, <1>4, <1>5
<1> DEFINE saved == IF request.save THEN {Upto(t, n) : n \in first..head} ELSE {}
<1>7. journal' = saved \cup {h \in js : \A g \in saved : Len(g) # Len(h)}
  BY <1>3 DEF PersistJournal
<1>8. StoredOn(journal', t)
  <2>1. CASE ~request.save
    <3>1. journal' = js
      BY <1>7, <2>1
    <3>2. tip = t
      BY <1>4, <1>5, <1>6, <2>1, SamePrefix
    <3> QED
      BY <1>5, <3>1, <3>2 DEF StoredOn
  <2>2. CASE request.save
    <3>1. \A n \in first..head : /\ n \in 0..Len(t) /\ Upto(t, n) \in Chains \ {None}
                                 /\ Len(Upto(t, n)) = n /\ IsPrefix(Upto(t, n), t)
      <4> TAKE n \in first..head
      <4>1. n \in 0..Len(t) /\ n >= 1
        BY <1>4, <1>5, <1>6
      <4> QED
        BY <1>4, <4>1, UptoIs, UptoIsPrefix, NoneIsShort
    <3>2. saved = {Upto(t, n) : n \in first..head}
      BY <2>2
    <3> HIDE DEF saved
    <3>3. t \in journal'
      <4>1. head \in first..head /\ Upto(t, head) = t
        BY <1>4, <1>5, <1>6, UptoWhole
      <4> QED
        BY <1>7, <3>2, <4>1
    <3>4. ASSUME NEW h \in journal' PROVE h \in Chains \ {None} /\ IsPrefix(h, t)
      <4>1. CASE h \in saved
        BY <3>1, <3>2, <4>1
      <4>2. CASE h \in js
        BY <1>4, <1>5, <1>6, <4>2, PrefixThrough
      <4> QED
        BY <1>7, <4>1, <4>2
    <3>5. ASSUME NEW h \in journal', NEW n \in Heights, Len(h) < n, n < Len(t)
          PROVE  Upto(t, n) \in journal'
      <4>1. CASE n >= first
        <5>1. n \in first..head
          BY <1>4, <1>5, <1>6, <3>5, <4>1, ConstantsTyped DEF Heights
        <5> QED
          BY <1>7, <3>2, <5>1
      <4>2. CASE n < first
        <5>1. h \notin saved
          <6>1. \A m \in first..head : Len(Upto(t, m)) # Len(h)
            BY <1>4, <1>5, <3>1, <3>5, <4>2, ConstantsTyped DEF Heights
          <6> QED
            BY <3>2, <6>1
        <5>2. h \in js /\ n < Len(tip) /\ n \in 0..Len(tip) /\ n \in Nat
          BY <1>4, <1>5, <1>7, <4>2, <5>1, ConstantsTyped DEF Heights
        <5>3. Upto(tip, n) \in js /\ Upto(tip, n) = Upto(t, n) /\ Len(Upto(tip, n)) = n
          BY <1>4, <1>5, <1>6, <3>5, <5>2, UptoOfPrefix, UptoIs
        <5>4. \A g \in saved : Len(g) # n
          BY <1>4, <3>1, <3>2, <4>2, <5>2
        <5> QED
          BY <1>7, <5>3, <5>4
      <4> QED
        BY <1>4, <4>1, <4>2, ConstantsTyped DEF Heights
    <3> QED
      BY <3>3, <3>4, <3>5 DEF StoredOn
  <2> QED
    BY <2>1, <2>2
<1> HIDE DEF saved
<1> DEFINE r2 == request'
<1>9. r2 = [request EXCEPT !.pc = "chunk", !.kept = request.save]
  BY DEF PersistJournal
<1>10. request \in RequestRecord /\ "chunk" \in PCs /\ request.save \in BOOLEAN
  BY <1>1, AtRequest DEF PCs, RequestRecord
<1>11. r2 \in RequestRecord
  BY <1>9, <1>10 DEF RequestRecord
<1>12. r2.pc = "chunk" /\ r2.scan = t /\ r2.head = head /\ r2.from = request.from
  BY <1>3, <1>9, <1>10 DEF RequestRecord
<1>13. request.from >= 1
  BY <1>1, AtRequest
<1> HIDE DEF r2
<1>14. RequestSound(r2, journal', t, chain, cutoff)
  BY <1>4, <1>6, <1>11, <1>12, <1>13 DEF RequestSound
<1>15. RequestSound(request', journal', t, chain, cutoff) /\ request'.pc = "chunk"
  BY <1>12, <1>14 DEF r2
<1>16. CoordSound(coord', audit', replay', request')
  BY <1>2, <1>15, AtCoord, CoordBesideRequest
<1>17. Len(t) <= Len(chain) /\ IsPrefix(Tip, t)
  BY <1>3, <1>4, <1>6
<1> QED
  BY <1>2, <1>4, <1>8, <1>15, <1>16, <1>17, TipGrows

LEMMA PruneKeeps == ASSUME ChainInv, Prune PROVE ChainInv'
<1>1. request.pc = "chunk" /\ Return(FALSE)
  BY DEF Prune
<1>2. UNCHANGED <<chain, cutoff, checkpoint, row, coord, audit, asked, monitor, left>>
  BY DEF Prune, nodeVars, projections, monitors
<1>3. PICK first, tip : first = JournalStart(request.head) /\ tip = Tip
  OBVIOUS
<1>4. first \in Nat /\ first <= Len(tip)
  BY <1>1, <1>3, AtRequest, JournalStartIs
<1>5. StoredOn(journal, tip) /\ tip \in Chains /\ Len(tip) <= Len(chain) /\ Len(tip) \in Nat
  BY <1>3, AtChain DEF ChainInv
<1>6. journal' = journal \/ journal' = {h \in journal : Len(h) >= first}
  BY <1>3 DEF Prune
<1>7. StoredOn(journal', tip)
  <2>1. CASE journal' = journal
    BY <1>5, <2>1
  <2>2. CASE journal' = {h \in journal : Len(h) >= first}
    <3>1. tip \in journal'
      BY <1>4, <1>5, <2>2 DEF StoredOn
    <3>2. ASSUME NEW h \in journal', NEW n \in Heights, Len(h) < n, n < Len(tip)
          PROVE  Upto(tip, n) \in journal'
      <4>1. n \in 0..Len(tip) /\ n >= first
        BY <1>3, <1>4, <1>5, <2>2, <3>2, AtChain, ConstantsTyped DEF Heights
      <4>2. Upto(tip, n) \in journal /\ Len(Upto(tip, n)) = n
        BY <1>5, <2>2, <3>2, <4>1, UptoIs DEF StoredOn
      <4> QED
        BY <2>2, <4>1, <4>2
    <3> QED
      BY <1>5, <2>2, <3>1, <3>2 DEF StoredOn
  <2> QED
    BY <1>6, <2>1, <2>2
<1>8. RequestSound(request', journal', tip, chain, cutoff)
  <2>1. request' = Idle
    BY <1>1 DEF Return
  <2> QED
    BY <2>1, IdleSound
<1>9. CoordSound(coord', audit', replay', request')
  <2>1. CoordSound(coord, audit, replay, request)
    BY AtCoord
  <2>2. replay \in [step : Steps, again : BOOLEAN]
    BY <2>1 DEF CoordSound
  <2>3. request' = Idle /\ replay' \in [step : Steps, again : BOOLEAN] /\ (replay'.step # "none" => InReplay)
    BY <1>1, <2>2, ReturnIs
  <2> QED
    BY <1>2, <2>1, <2>3 DEF CoordSound, InReplay, Idle
<1>10. IsPrefix(Tip, tip)
  BY <1>3, <1>5, PrefixOfItself
<1> QED
  BY <1>2, <1>5, <1>7, <1>8, <1>9, <1>10, TipGrows

------------------------------------------------------------------------------
(* The rollback and its replay.                                             *)

LEMMA StatusIs ==
  ASSUME NEW au, NEW rp, NEW r, CoordSound(coord, au, rp, r),
         NEW state \in States, NEW ready \in BOOLEAN, NEW last \in Chains \X Chains
  PROVE  /\ Status(state, ready, last) = [state |-> state, ready |-> ready, last |-> last,
                                          pending |-> coord.pending]
         /\ Status(state, ready, last)
              \in [state : States, ready : BOOLEAN, last : Chains \X Chains, pending : Seq(DOMAIN au)]
<1>1. coord \in [state : States, ready : BOOLEAN, last : Chains \X Chains, pending : Seq(DOMAIN au)]
  BY DEF CoordSound
<1>2. Status(state, ready, last) = [state |-> state, ready |-> ready, last |-> last,
                                    pending |-> coord.pending]
  <2>1. PICK c, S : c = coord /\ S = Seq(DOMAIN au)
    OBVIOUS
  <2>2. c \in [state : States, ready : BOOLEAN, last : Chains \X Chains, pending : S]
    BY <1>1, <2>1
  <2>3. c = [state |-> c.state, ready |-> c.ready, last |-> c.last, pending |-> c.pending]
    BY <2>2
  <2>4. Status(state, ready, last) = [c EXCEPT !.state = state, !.ready = ready, !.last = last]
    BY <2>1 DEF Status
  <2> QED
    BY <2>1, <2>3, <2>4
<1> QED
  BY <1>1, <1>2

LEMMA DivergeKeeps == ASSUME ChainInv, Diverge PROVE ChainInv'
<1>1. request.pc = "verify"
  BY DEF Diverge
<1>2. UNCHANGED <<chain, cutoff, journal, checkpoint, row, audit, replay, asked, monitor, left>>
  BY DEF Diverge, nodeVars, storeVars, projections, monitors
<1> DEFINE r2 == request'
<1>3. r2 = [request EXCEPT !.pc = "rewind"]
  BY DEF Diverge
<1>4. request \in RequestRecord /\ "rewind" \in PCs
  BY <1>1, AtRequest DEF PCs
<1>5. r2 \in RequestRecord
  BY <1>3, <1>4 DEF RequestRecord
<1>6. r2.pc = "rewind" /\ r2.scan = request.scan /\ r2.head = request.head /\ r2.from = request.from
  BY <1>3, <1>4 DEF RequestRecord
<1>7. request.scan = None \/ (request.scan \in journal /\ Len(request.scan) >= Len(cutoff))
  BY <1>1, AtCoord DEF RequestSound
<1> HIDE DEF r2
<1>8. RequestSound(r2, journal, Tip, chain, cutoff)
  BY <1>1, <1>5, <1>6, <1>7, AtRequest DEF RequestSound
<1>9. RequestSound(request', journal, Tip, chain, cutoff) /\ request'.pc = "rewind"
  BY <1>6, <1>8 DEF r2
<1>10. CoordSound(coord', audit', replay', request')
  <2>1. CoordSound(coord, audit, replay, request)
    BY AtCoord
  <2>2. PICK last : last = Reorg
    OBVIOUS
  <2>3. last \in Chains \X Chains
    BY <1>1, <2>2, AtRequest, AtChain DEF Reorg
  <2>4. coord' = Status("RECONCILING", FALSE, last)
    BY <2>2 DEF Diverge
  <2>5. /\ coord' = [state |-> "RECONCILING", ready |-> FALSE, last |-> last, pending |-> coord.pending]
        /\ coord' \in [state : States, ready : BOOLEAN, last : Chains \X Chains,
                       pending : Seq(DOMAIN audit)]
    BY <2>1, <2>3, <2>4, StatusIs DEF States
  <2> QED
    BY <1>2, <1>9, <2>1, <2>5 DEF CoordSound
<1> QED
  BY <1>2, <1>9, <1>10, AtCoord, Reassemble

\* An entry is added to the audit.
LEMMA AuditGrows ==
  ASSUME CoordSound(coord, audit, replay, request), NEW status \in Outcomes, NEW affected
  PROVE  /\ DOMAIN Audited([status |-> status, affected |-> affected]) = DOMAIN audit \cup {coord.last}
         /\ \A id \in DOMAIN Audited([status |-> status, affected |-> affected]) :
              LET x == Audited([status |-> status, affected |-> affected])[id]
              IN x = [status |-> x.status, affected |-> x.affected] /\ x.status \in Outcomes
<1>1. PICK entry, au : entry = [status |-> status, affected |-> affected] /\ au = Audited(entry)
  OBVIOUS
<1>2. au = [id \in DOMAIN audit \cup {coord.last} |-> IF id = coord.last THEN entry ELSE audit[id]]
  BY <1>1 DEF Audited
<1>3. \A id \in DOMAIN audit : /\ audit[id] = [status |-> audit[id].status, affected |-> audit[id].affected]
                               /\ audit[id].status \in Outcomes
  BY DEF CoordSound
<1>4. entry = [status |-> entry.status, affected |-> entry.affected] /\ entry.status \in Outcomes
  BY <1>1
<1> QED
  BY <1>1, <1>2, <1>3, <1>4

\* The status of an audited rollback changes.
LEMMA AuditMoves ==
  ASSUME CoordSound(coord, audit, replay, request), NEW id \in DOMAIN audit, NEW status \in Outcomes
  PROVE  LET au == [audit EXCEPT ![id].status = status]
         IN /\ DOMAIN au = DOMAIN audit
            /\ \A i \in DOMAIN au : au[i] = [status |-> au[i].status, affected |-> au[i].affected]
                                    /\ au[i].status \in Outcomes
<1>1. PICK a, x : a = audit /\ x = audit[id]
  OBVIOUS
<1>2. \A i \in DOMAIN a : a[i] = [status |-> a[i].status, affected |-> a[i].affected]
                          /\ a[i].status \in Outcomes
  BY <1>1 DEF CoordSound
<1>3. [x EXCEPT !.status = status] = [status |-> status, affected |-> x.affected]
  BY <1>1, <1>2
<1>4. PICK y, au : /\ y = [x EXCEPT !.status = status]
                   /\ au = [audit EXCEPT ![id].status = status]
  OBVIOUS
<1>5. /\ DOMAIN au = DOMAIN a /\ au[id] = y /\ \A i \in DOMAIN a : i # id => au[i] = a[i]
  BY <1>1, <1>4
<1>6. y = [status |-> y.status, affected |-> y.affected] /\ y.status \in Outcomes
  BY <1>3, <1>4
<1> QED
  BY <1>1, <1>2, <1>4, <1>5, <1>6

\* The rollback at hand is left to a human.
LEMMA ReviewedIs ==
  ASSUME CoordSound(coord, audit, replay, request), coord.last \in DOMAIN audit
  PROVE  /\ DOMAIN Reviewed = DOMAIN audit
         /\ \A i \in DOMAIN Reviewed :
              LET x == Reviewed[i]
              IN x = [status |-> x.status, affected |-> x.affected] /\ x.status \in Outcomes
<1>1. PICK last, status : /\ last = coord.last
                          /\ status = IF audit[last].status = "RECONCILING" THEN "MANUAL_REVIEW"
                                      ELSE audit[last].status
  OBVIOUS
<1>2. status \in Outcomes
  BY <1>1 DEF CoordSound, Outcomes
<1>3. PICK au : au = Reviewed
  OBVIOUS
<1>4. au = [audit EXCEPT ![last].status = status]
  BY <1>1, <1>3 DEF Reviewed
<1>5. /\ DOMAIN au = DOMAIN audit
      /\ \A i \in DOMAIN au : au[i] = [status |-> au[i].status, affected |-> au[i].affected]
                              /\ au[i].status \in Outcomes
  BY <1>1, <1>2, <1>4, AuditMoves
<1> QED
  BY <1>3, <1>5

LEMMA PendingGrows ==
  ASSUME NEW S, NEW T, S \subseteq T, NEW s \in Seq(S)
  PROVE  s \in Seq(T)
OBVIOUS

LEMMA DeepReorgKeeps == ASSUME ChainInv, DeepReorg PROVE ChainInv'
<1>1. UNCHANGED <<chain, cutoff, journal, checkpoint, row, asked, monitor, left>>
  BY DEF DeepReorg, nodeVars, projections, monitors
<1>2. request' = Idle /\ replay' = NoReplay
  BY DEF DeepReorg, Throw
<1>3. CoordSound(coord, audit, replay, request)
  BY AtCoord
<1>4. PICK last : last = coord.last
  OBVIOUS
<1>5. coord \in [state : States, ready : BOOLEAN, last : Chains \X Chains, pending : Seq(DOMAIN audit)]
      /\ last \in Chains \X Chains
  BY <1>3, <1>4 DEF CoordSound
<1>6. coord' = Status("MANUAL_REVIEW", FALSE, last)
  BY <1>4 DEF DeepReorg
<1>7. coord' = [state |-> "MANUAL_REVIEW", ready |-> FALSE, last |-> last, pending |-> coord.pending]
  BY <1>3, <1>5, <1>6, StatusIs DEF States
<1>8. PICK au : au = audit'
  OBVIOUS
<1>9. /\ DOMAIN audit \subseteq DOMAIN au
      /\ \A id \in DOMAIN au : au[id] = [status |-> au[id].status, affected |-> au[id].affected]
                               /\ au[id].status \in Outcomes
  <2>1. CASE last \in DOMAIN audit
    <3>1. au = Reviewed
      BY <1>4, <1>8, <2>1 DEF DeepReorg
    <3> QED
      BY <1>3, <1>4, <2>1, <3>1, ReviewedIs
  <2>2. CASE last \notin DOMAIN audit
    <3>1. PICK x, status : x = <<>> /\ status = "MANUAL_REVIEW"
      OBVIOUS
    <3>2. au = Audited([status |-> status, affected |-> x]) /\ status \in Outcomes
      BY <1>4, <1>8, <2>2, <3>1 DEF DeepReorg, Outcomes
    <3> QED
      BY <1>3, <1>4, <3>2, AuditGrows
  <2> QED
    BY <2>1, <2>2
<1>10. CoordSound(coord', audit', replay', request')
  <2>1. coord.pending \in Seq(DOMAIN au)
    BY <1>5, <1>9, PendingGrows
  <2>2. CoordSound(coord', au, NoReplay, Idle)
    BY <1>5, <1>7, <1>9, <2>1 DEF CoordSound, States, NoReplay, Idle, Steps
  <2> QED
    BY <1>2, <1>8, <2>2
<1>11. RequestSound(request', journal, Tip, chain, cutoff)
  BY <1>2, IdleSound
<1> QED
  BY <1>1, <1>10, <1>11, AtCoord, Reassemble

LEMMA RewindKeeps == ASSUME ChainInv, Rewind PROVE ChainInv'
<1>1. request.pc = "rewind" /\ request.scan # None
  BY DEF Rewind
<1>2. UNCHANGED <<chain, cutoff, coord, replay, asked, monitor, left>>
  BY DEF Rewind, nodeVars, idleVars, monitors
<1>3. PICK t, last : t = request.scan /\ last = coord.last
  OBVIOUS
<1>4. t \in journal /\ Len(t) >= Len(cutoff)
  BY <1>1, <1>3, AtCoord DEF RequestSound
<1>5. t \in Chains /\ t # None /\ IsPrefix(t, Tip) /\ Len(t) <= Len(Tip) /\ Len(t) \in Nat
  BY <1>4, AtChain, PrefixIs
<1> DEFINE r2 == request'
<1>6. r2 = [request EXCEPT !.pc = "project"]
  BY DEF Rewind
<1>7. request \in RequestRecord /\ "project" \in PCs
  BY <1>1, AtRequest DEF PCs
<1>8. r2 \in RequestRecord
  BY <1>6, <1>7 DEF RequestRecord
<1>9. r2.pc = "project" /\ r2.head = request.head /\ r2.from = request.from
  BY <1>6, <1>7 DEF RequestRecord
<1> HIDE DEF r2
<1>10. ASSUME NEW js, NEW x PROVE RequestSound(r2, js, x, chain, cutoff)
  BY <1>1, <1>8, <1>9, AtRequest DEF RequestSound
<1>11. request'.pc = "project" /\ \A js, x : RequestSound(request', js, x, chain, cutoff)
  BY <1>9, <1>10 DEF r2
<1>12. CoordSound(coord, audit, replay, request)
  BY AtCoord
<1>13. CASE last \in DOMAIN audit
  <2>1. UNCHANGED <<row, journal, checkpoint, audit>>
    BY <1>3, <1>13 DEF Rewind
  <2>2. CoordSound(coord', audit', replay', request')
    BY <1>1, <1>2, <1>3, <1>11, <1>12, <1>13, <2>1 DEF CoordSound
  <2> QED
    BY <1>2, <1>11, <2>1, <2>2, AtCoord, Reassemble
<1>14. CASE last \notin DOMAIN audit
  <2>1. PICK orphans, affected :
          /\ orphans = Above(t)
          /\ affected = [p \in {PairOf[e] : e \in orphans} |-> Impact(p, orphans)]
    OBVIOUS
  <2>2. /\ row' = [e \in Events |-> RewoundRow(e)]
        /\ journal' = {h \in journal : Len(h) <= Len(t)}
        /\ checkpoint' = [l \in Listeners |-> RewoundCheckpoint(l)]
        /\ audit' = Audited([status |-> "RECONCILING", affected |-> affected])
    BY <1>3, <1>14, <2>1 DEF Rewind
  <2>3. StoredOn(journal', t) /\ Tip' = t
    <3>1. StoredOn(journal, Tip)
      BY DEF ChainInv
    <3>2. t \in journal' /\ journal' \subseteq journal
      BY <1>4, <1>5, <2>2
    <3>3. \A h \in journal' : h \in Chains \ {None} /\ IsPrefix(h, t)
      BY <1>5, <2>2, <3>2, AtChain, ShorterPrefix
    <3>4. ASSUME NEW h \in journal', NEW n \in Heights, Len(h) < n, n < Len(t)
          PROVE  Upto(t, n) \in journal'
      <4>1. n \in 0..Len(t) /\ n < Len(Tip) /\ n \in Nat
        BY <1>5, <3>4, AtChain, ConstantsTyped DEF Heights
      <4>2. PICK tip : tip = Tip
        OBVIOUS
      <4>3. Upto(tip, n) \in journal
        BY <3>1, <3>2, <3>4, <4>1, <4>2 DEF StoredOn
      <4>4. Upto(t, n) = Upto(tip, n) /\ Len(Upto(t, n)) = n
        BY <1>5, <4>1, <4>2, AtChain, UptoOfPrefix, UptoIs
      <4> QED
        BY <1>5, <2>2, <3>4, <4>1, <4>3, <4>4
    <3>5. StoredOn(journal', t)
      BY <3>2, <3>3, <3>4 DEF StoredOn
    <3>6. Tip' = t
      BY <3>2, <3>3, <1>5, TipIsPrime
    <3> QED
      BY <3>5, <3>6
  <2>4. \A l \in Listeners : /\ checkpoint'[l] \in Chains /\ IsPrefix(checkpoint'[l], t)
                             /\ checkpoint'[l] = checkpoint[l] \/ checkpoint'[l] = t
    <3> TAKE l \in Listeners
    <3>1. checkpoint'[l] = IF Len(checkpoint[l]) > Len(t) THEN t ELSE checkpoint[l]
      BY <1>3, <2>2 DEF RewoundCheckpoint
    <3>2. PICK c : c = checkpoint[l]
      OBVIOUS
    <3>3. c \in Chains /\ Len(c) \in Nat /\ IsPrefix(c, Tip)
      BY <3>2, AtChain
    <3>4. Len(c) <= Len(t) => IsPrefix(c, t)
      BY <1>5, <3>3, AtChain, ShorterPrefix
    <3> QED
      BY <1>5, <3>1, <3>2, <3>3, <3>4, PrefixOfItself
  <2>5. /\ checkpoint' \in [Listeners -> Chains] /\ checkpoint'[PairCreated] # None
        /\ \A l \in Listeners : IsPrefix(checkpoint'[l], t)
    <3>1. checkpoint' \in [Listeners -> Chains]
      BY <2>2, <2>4
    <3> QED
      BY <1>5, <2>4, <3>1, AtStore, ConstantsTyped
  <2>6. DOMAIN row' = Events /\ \A e \in Events : RowSound(row'[e], t, chain, cutoff)
    <3>1. DOMAIN row' = Events
      BY <2>2
    <3>2. ASSUME NEW e \in Events PROVE RowSound(row'[e], t, chain, cutoff)
      <4>1. PICK x : x = row[e]
        OBVIOUS
      <4>2. RowSound(x, Tip, chain, cutoff)
        BY <4>1, AtStore
      <4>3. PICK canonical : canonical = (x.canonical /\ Len(x.block) <= Len(t))
        OBVIOUS
      <4>4. row'[e] = [x EXCEPT !.canonical = canonical]
        BY <1>3, <2>2, <4>1, <4>3 DEF RewoundRow
      <4>5. x = [block |-> x.block, canonical |-> x.canonical, before |-> x.before]
            /\ x.block \in Chains /\ x.canonical \in BOOLEAN /\ Len(x.block) <= Len(chain)
            /\ Len(x.block) \in Nat
        BY <4>2 DEF RowSound, Chains
      <4>6. PICK y : y = row'[e]
        OBVIOUS
      <4>7. y = [block |-> x.block, canonical |-> canonical, before |-> x.before]
        BY <4>4, <4>5, <4>6
      <4>8. ASSUME canonical, Len(x.block) > Len(cutoff) PROVE IsPrefix(x.block, t)
        <5>1. IsPrefix(x.block, Tip) /\ Len(x.block) <= Len(t)
          BY <4>2, <4>3, <4>8 DEF RowSound
        <5> QED
          BY <1>5, <4>5, <5>1, AtChain, ShorterPrefix
      <4>9. canonical \in BOOLEAN
        BY <4>3
      <4>10. RowSound(y, t, chain, cutoff)
        BY <4>5, <4>7, <4>8, <4>9 DEF RowSound
      <4> QED
        BY <4>6, <4>10
    <3> QED
      BY <3>1, <3>2
  <2>7. CoordSound(coord', audit', replay', request')
    <3>1. PICK au, status : au = audit' /\ status = "RECONCILING"
      OBVIOUS
    <3>2. au = Audited([status |-> status, affected |-> affected]) /\ status \in Outcomes
      BY <2>2, <3>1 DEF Outcomes
    <3>3. /\ DOMAIN au = DOMAIN audit \cup {coord.last}
          /\ \A id \in DOMAIN au : au[id] = [status |-> au[id].status, affected |-> au[id].affected]
                                   /\ au[id].status \in Outcomes
      BY <1>12, <3>2, AuditGrows
    <3>4. PICK c, S, T : c = coord /\ S = DOMAIN audit /\ T = DOMAIN au
      OBVIOUS
    <3>5. c \in [state : States, ready : BOOLEAN, last : Chains \X Chains, pending : Seq(S)]
      BY <1>12, <3>4 DEF CoordSound
    <3>6. c.pending \in Seq(T)
      BY <3>3, <3>4, <3>5, PendingGrows
    <3>7. c \in [state : States, ready : BOOLEAN, last : Chains \X Chains, pending : Seq(T)]
      BY <3>5, <3>6
    <3> QED
      BY <1>1, <1>2, <1>11, <1>12, <3>1, <3>3, <3>4, <3>7 DEF CoordSound
  <2>8. Len(t) <= Len(chain)
    BY <1>5, AtChain
  <2> QED
    BY <1>2, <1>4, <1>11, <2>3, <2>5, <2>6, <2>7, <2>8, AtCoord DEF ChainInv
<1> QED
  BY <1>13, <1>14

LEMMA ProjectKeeps == ASSUME ChainInv, Project PROVE ChainInv'
<1>1. request.pc = "project" /\ Return(TRUE)
  BY DEF Project
<1>2. UNCHANGED <<chain, cutoff, journal, checkpoint, row, asked, left>>
  BY DEF Project, nodeVars
<1>3. monitor' = [p \in Pairs |-> IF Monitorable(session'[p]) THEN monitor[p] ELSE "off"]
  BY DEF Project
<1>4. monitor' \in [Pairs -> {"off", "on", "stopped"}]
  BY <1>3, AtCoord
<1>5. CoordSound(coord, audit, replay, request)
  BY AtCoord
<1>6. request' = Idle /\ replay' \in [step : Steps, again : BOOLEAN]
      /\ (replay'.step # "none" => InReplay)
  BY <1>1, <1>5, ReturnIs DEF CoordSound
<1>7. PICK last, c, a : last = coord.last /\ c = coord /\ a = audit
  OBVIOUS
<1>8. /\ c \in [state : States, ready : BOOLEAN, last : Chains \X Chains, pending : Seq(DOMAIN a)]
      /\ last \in DOMAIN a /\ last = c.last /\ last \in Chains \X Chains
      /\ replay.step # "none" => c.pending # <<>>
  BY <1>1, <1>5, <1>7 DEF CoordSound
<1>9. CoordSound(coord', audit', replay', request')
  <2>1. CASE Lost # {}
    <3>1. coord' = Status("MANUAL_REVIEW", FALSE, last) /\ audit' = Reviewed
      BY <1>7, <2>1 DEF Project
    <3>2. PICK au : au = audit'
      OBVIOUS
    <3>3. /\ DOMAIN au = DOMAIN a
          /\ \A i \in DOMAIN au : au[i] = [status |-> au[i].status, affected |-> au[i].affected]
                                  /\ au[i].status \in Outcomes
      BY <1>5, <1>7, <1>8, <3>1, <3>2, ReviewedIs
    <3>6. coord' = [state |-> "MANUAL_REVIEW", ready |-> FALSE, last |-> last, pending |-> c.pending]
      BY <1>5, <1>7, <1>8, <3>1, StatusIs DEF States
    <3>7. CoordSound(coord', au, replay', Idle)
      BY <1>6, <1>8, <3>3, <3>6 DEF CoordSound, States, InReplay, Idle
    <3> QED
      BY <1>6, <3>2, <3>7
  <2>2. CASE Lost = {}
    <3>1. /\ coord' = [Status("RECONCILING", TRUE, last) EXCEPT !.pending = Append(@, last)]
          /\ audit' = audit
      BY <1>7, <2>2 DEF Project
    <3>2. PICK pending : pending = Append(c.pending, last)
      OBVIOUS
    <3>3. pending \in Seq(DOMAIN a) /\ pending # <<>>
      BY <1>8, <3>2
    <3>4. Status("RECONCILING", TRUE, last)
            = [state |-> "RECONCILING", ready |-> TRUE, last |-> last, pending |-> c.pending]
      BY <1>5, <1>7, <1>8, StatusIs, ZenonT(30) DEF States
    <3>5. coord' = [state |-> "RECONCILING", ready |-> TRUE, last |-> last, pending |-> pending]
      <4>1. PICK st : st = Status("RECONCILING", TRUE, last)
        OBVIOUS
      <4>2. coord' = [st EXCEPT !.pending = Append(@, last)]
        BY <3>1, <4>1
      <4>3. st = [state |-> "RECONCILING", ready |-> TRUE, last |-> last, pending |-> c.pending]
        BY <3>4, <4>1
      <4> QED
        BY <3>2, <4>2, <4>3
    <3>6. CoordSound(coord', a, replay', Idle)
      BY <1>5, <1>6, <1>7, <1>8, <3>3, <3>5 DEF CoordSound, States, InReplay, Idle
    <3> QED
      BY <1>6, <1>7, <3>1, <3>6
  <2> QED
    BY <2>1, <2>2
<1>10. RequestSound(request', journal, Tip, chain, cutoff)
  BY <1>6, IdleSound
<1> QED
  BY <1>2, <1>4, <1>9, <1>10, AtCoord, Reassemble

\* The replay goes on.
LEMMA ReplayMoves ==
  ASSUME ChainInv, UNCHANGED <<chain, cutoff, journal, checkpoint, row, coord, audit, asked, request, left>>,
         monitor' \in [Pairs -> {"off", "on", "stopped"}],
         replay' \in [step : Steps, again : BOOLEAN],
         replay'.step # "none" => coord.pending # <<>> /\ coord.state # "HEALTHY"
  PROVE  ChainInv'
<1>1. CoordSound(coord, audit, replay, request)
  BY AtCoord
<1>2. CoordSound(coord', audit', replay', request')
  BY <1>1 DEF CoordSound
<1> QED
  BY <1>2, AtCoord, Reassemble

LEMMA ReplayStepsKeep == ASSUME ChainInv, Finalize \/ AdmitReplay \/ SkipStep PROVE ChainInv'
<1>1. /\ UNCHANGED <<chain, cutoff, journal, checkpoint, row, coord, audit, asked, request, left>>
      /\ monitor' = monitor \/ AdmitReplay
  BY DEF Finalize, AdmitReplay, SkipStep, nodeVars, storeVars, projections, monitors
<1>2. monitor' \in [Pairs -> {"off", "on", "stopped"}]
  BY <1>1, AtCoord DEF AdmitReplay
<1>3. CoordSound(coord, audit, replay, request)
  BY AtCoord
<1>4. replay \in [step : Steps, again : BOOLEAN]
      /\ (replay.step # "none" => coord.pending # <<>> /\ coord.state # "HEALTHY")
  BY <1>3 DEF CoordSound
<1>5. /\ replay' \in [step : Steps, again : BOOLEAN]
      /\ replay'.step # "none" => coord.pending # <<>> /\ coord.state # "HEALTHY"
  <2>1. CASE Finalize
    BY <2>1 DEF Finalize, Steps
  <2>2. CASE AdmitReplay
    BY <1>4, <2>2 DEF AdmitReplay, Steps
  <2>3. CASE SkipStep
    BY <1>4, <2>3 DEF SkipStep, NextStep, Steps
  <2> QED
    BY <2>1, <2>2, <2>3
<1> QED
  BY <1>1, <1>2, <1>5, ReplayMoves

LEMMA CompleteKeeps == ASSUME ChainInv, Complete PROVE ChainInv'
<1>1. UNCHANGED <<chain, cutoff, journal, checkpoint, row, asked, monitor, request, left>>
  BY DEF Complete, nodeVars, projections, monitors
<1>2. CoordSound(coord, audit, replay, request)
  BY AtCoord
<1>3. PICK c, a, done : c = coord /\ a = audit /\ done = Head(coord.pending)
  OBVIOUS
<1>4. /\ c \in [state : States, ready : BOOLEAN, last : Chains \X Chains, pending : Seq(DOMAIN a)]
      /\ c.pending # <<>> /\ request = Idle
  BY <1>2, <1>3 DEF CoordSound, Complete
<1>5. done \in DOMAIN a /\ Tail(c.pending) \in Seq(DOMAIN a) /\ (Len(c.pending) > 1 => Tail(c.pending) # <<>>)
  <2>1. PICK s, S : s = c.pending /\ S = DOMAIN a
    OBVIOUS
  <2>2. s \in Seq(S) /\ s # <<>>
    BY <1>4, <2>1
  <2>3. Head(s) \in S /\ Tail(s) \in Seq(S) /\ Len(Tail(s)) = Len(s) - 1 /\ Len(s) \in Nat
    BY <2>2
  <2>4. PICK rest : rest = Tail(s)
    OBVIOUS
  <2>5. rest \in Seq(S) /\ (Len(s) > 1 => Len(rest) > 0)
    BY <2>3, <2>4
  <2>6. Len(s) > 1 => rest # <<>>
    BY <2>5
  <2> QED
    BY <1>3, <2>1, <2>3, <2>4, <2>6
<1>6. PICK status, healthy, next, pending :
        /\ status = IF audit[done].status = "RECONCILING" THEN "RECOVERED" ELSE audit[done].status
        /\ healthy = (~replay.again /\ c.state = "RECONCILING" /\ done = c.last)
        /\ next = (replay.again /\ c.state = "RECONCILING" /\ Len(c.pending) > 1)
        /\ pending = Tail(c.pending)
  OBVIOUS
<1>7. /\ audit' = [audit EXCEPT ![done].status = status]
      /\ coord' = [c EXCEPT !.pending = pending, !.state = IF healthy THEN "HEALTHY" ELSE @,
                            !.ready = @ /\ ~healthy]
      /\ replay' = IF next THEN [step |-> "pairs", again |-> FALSE] ELSE NoReplay
  BY <1>3, <1>6 DEF Complete
<1>8. PICK au : au = audit'
  OBVIOUS
<1>9. /\ DOMAIN au = DOMAIN a
      /\ \A i \in DOMAIN au : au[i] = [status |-> au[i].status, affected |-> au[i].affected]
                              /\ au[i].status \in Outcomes
  <2>1. status \in Outcomes
    BY <1>2, <1>3, <1>5, <1>6 DEF CoordSound, Outcomes
  <2> QED
    BY <1>2, <1>3, <1>5, <1>7, <1>8, <2>1, AuditMoves
<1>10. coord' = [state |-> IF healthy THEN "HEALTHY" ELSE c.state, ready |-> c.ready /\ ~healthy,
                 last |-> c.last, pending |-> pending]
  <2>1. PICK S : S = Seq(DOMAIN a)
    OBVIOUS
  <2>2. c \in [state : States, ready : BOOLEAN, last : Chains \X Chains, pending : S]
    BY <1>4, <2>1
  <2>3. c = [state |-> c.state, ready |-> c.ready, last |-> c.last, pending |-> c.pending]
    BY <2>2
  <2> QED
    BY <1>7, <2>3
<1>11. CoordSound(coord', au, replay', Idle)
  <2>1. /\ coord' \in [state : States, ready : BOOLEAN, last : Chains \X Chains, pending : Seq(DOMAIN au)]
    <3>1. c.state \in States /\ c.ready \in BOOLEAN /\ c.last \in Chains \X Chains
          /\ pending \in Seq(DOMAIN au)
      BY <1>4, <1>5, <1>6, <1>9
    <3>2. (IF healthy THEN "HEALTHY" ELSE c.state) \in States /\ (c.ready /\ ~healthy) \in BOOLEAN
      BY <3>1 DEF States
    <3> QED
      BY <1>10, <3>1, <3>2
  <2>2. replay' \in [step : Steps, again : BOOLEAN]
    BY <1>7 DEF NoReplay, Steps
  <2>3. ASSUME replay'.step # "none" PROVE coord'.pending # <<>> /\ coord'.state # "HEALTHY"
    <3>1. next
      BY <1>7, <2>3 DEF NoReplay
    <3>2. ~healthy /\ c.state # "HEALTHY" /\ pending # <<>>
      BY <1>5, <1>6, <3>1
    <3> QED
      BY <1>10, <3>2
  <2> QED
    BY <1>9, <2>1, <2>2, <2>3 DEF CoordSound, Idle
<1>12. CoordSound(coord', audit', replay', request')
  BY <1>1, <1>4, <1>8, <1>11
<1> QED
  BY <1>1, <1>12, AtCoord, Reassemble

------------------------------------------------------------------------------
(* Beside the coordinator.                                                  *)

LEMMA StartMonitorKeeps == ASSUME ChainInv, NEW p \in Pairs, StartMonitor(p) PROVE ChainInv'
<1>1. /\ UNCHANGED <<chain, cutoff, journal, checkpoint, row, coord, audit, replay, asked, request, left>>
      /\ monitor' = [monitor EXCEPT ![p] = "on"]
  BY DEF StartMonitor, nodeVars, storeVars, projections
<1>2. monitor' \in [Pairs -> {"off", "on", "stopped"}]
  BY <1>1, AtCoord
<1>3. RequestSound(request', journal, Tip, chain, cutoff) /\ CoordSound(coord', audit', replay', request')
  BY <1>1, AtCoord
<1> QED
  BY <1>1, <1>2, <1>3, AtCoord, Reassemble

LEMMA RetireKeeps == ASSUME ChainInv, NEW p \in Pairs, Retire(p) PROVE ChainInv'
<1>1. /\ UNCHANGED <<chain, cutoff, journal, row, coord, audit, replay, asked, request, left>>
      /\ monitor' = [monitor EXCEPT ![p] = "off"]
      /\ checkpoint' = [checkpoint EXCEPT ![p] = None]
  BY DEF Retire, nodeVars, projections
<1>2. monitor' \in [Pairs -> {"off", "on", "stopped"}]
  BY <1>1, AtCoord
<1>3. RequestSound(request', journal, Tip, chain, cutoff) /\ CoordSound(coord', audit', replay', request')
  BY <1>1, AtCoord
<1>4. None \in Chains /\ IsPrefix(None, Tip)
  BY AtChain, NoneIsPrefix
<1>5. p # PairCreated
  BY ChainAssumption
<1>6. /\ checkpoint' \in [Listeners -> Chains] /\ checkpoint'[PairCreated] # None
      /\ \A l \in Listeners : IsPrefix(checkpoint'[l], Tip)
  <2>1. PICK x : x = None
    OBVIOUS
  <2>2. checkpoint' = [checkpoint EXCEPT ![p] = x] /\ x \in Chains /\ IsPrefix(x, Tip)
    BY <1>1, <1>4, <2>1
  <2>3. checkpoint'[PairCreated] = checkpoint[PairCreated]
    BY <1>5, <2>2, AtStore, ConstantsTyped
  <2> QED
    BY <2>2, <2>3, AtStore, ConstantsTyped
<1> QED
  BY <1>1, <1>2, <1>3, <1>6, AtStore, AtCoord, ReassembleStore

LEMMA PolicySaleKeeps == ASSUME ChainInv, NEW p \in Pairs, PolicySale(p) PROVE ChainInv'
<1>1. /\ UNCHANGED <<chain, cutoff, journal, checkpoint, row, coord, audit, replay, asked, monitor, request>>
      /\ Spend("faults")
  BY DEF PolicySale, nodeVars, idleVars, monitors
<1>2. left' \in [forks : Nat, faults : Nat, all : Nat]
  BY <1>1, AtCoord, SpendKeeps
<1>3. RequestSound(request', journal, Tip, chain, cutoff) /\ CoordSound(coord', audit', replay', request')
  BY <1>1, AtCoord
<1> QED
  BY <1>1, <1>2, <1>3, AtCoord, Reassemble

\* A chain of one block of the journal, with every listener at it or at nothing.
LEMMA FreshStored ==
  ASSUME NEW t \in Chains, Len(t) >= 1
  PROVE  StoredOn({t}, t)
<1>1. t # None
  BY NoneIsShort
<1>2. \A n \in Heights : ~(Len(t) < n /\ n < Len(t))
  BY ConstantsTyped DEF Heights, Chains
<1> QED
  BY <1>1, <1>2, PrefixOfItself DEF StoredOn

LEMMA FreshCoord ==
  ASSUME NEW au, \A id \in DOMAIN au : au[id] = [status |-> au[id].status, affected |-> au[id].affected]
                                       /\ au[id].status \in Outcomes
  PROVE  CoordSound([state |-> "HEALTHY", ready |-> FALSE, last |-> NoReorg, pending |-> <<>>],
                    au, NoReplay, Idle)
<1>1. None \in Chains
  BY DEF None, Chains
<1>2. NoReorg \in Chains \X Chains
  BY <1>1 DEF NoReorg
<1>3. <<>> \in Seq(DOMAIN au)
  OBVIOUS
<1> QED
  BY <1>2, <1>3 DEF CoordSound, NoReplay, Idle, States, Steps

LEMMA RestartKeeps == ASSUME ChainInv, Restart PROVE ChainInv'
<1>1. /\ UNCHANGED <<chain, row, audit>> /\ Spend("faults")
      /\ cutoff' = chain /\ journal' = {chain}
      /\ checkpoint' = [l \in Listeners |-> IF l = PairCreated \/ checkpoint[l] # None THEN chain ELSE None]
      /\ coord' = [state |-> "HEALTHY", ready |-> FALSE, last |-> NoReorg, pending |-> <<>>]
      /\ request' = Idle /\ replay' = NoReplay /\ asked' = None
      /\ monitor' = [p \in Pairs |-> "off"]
  BY DEF Restart
<1>2. PICK t : t = chain
  OBVIOUS
<1>3. t \in Chains /\ Len(t) \in Heights /\ Len(t) >= 1 /\ Len(t) \in Nat
  BY <1>2, AtChain DEF ChainInv
<1>4. StoredOn(journal', t) /\ Tip' = t
  <2>1. journal' = {t} /\ StoredOn({t}, t)
    BY <1>1, <1>2, <1>3, FreshStored
  <2> QED
    BY <1>3, <2>1, TipIsPrime, PrefixOfItself
<1>5. /\ checkpoint' \in [Listeners -> Chains] /\ checkpoint'[PairCreated] # None
      /\ \A l \in Listeners : IsPrefix(checkpoint'[l], t)
  <2>1. None \in Chains /\ IsPrefix(None, t) /\ IsPrefix(t, t) /\ t # None
    BY <1>3, NoneIsPrefix, PrefixOfItself, NoneIsShort
  <2>2. PICK x : x = None
    OBVIOUS
  <2>3. checkpoint' = [l \in Listeners |-> IF l = PairCreated \/ checkpoint[l] # None THEN t ELSE x]
    BY <1>1, <1>2, <2>2
  <2> QED
    BY <1>3, <2>1, <2>2, <2>3, ConstantsTyped
<1>6. \A e \in Events : RowSound(row[e], t, t, t)
  <2> TAKE e \in Events
  <2>1. RowSound(row[e], Tip, t, cutoff)
    BY <1>2, AtStore
  <2>2. Len(row[e].block) \in Nat /\ Len(row[e].block) <= Len(t)
    BY <2>1 DEF RowSound, Chains
  <2> QED
    BY <1>3, <2>1, <2>2 DEF RowSound
<1>7. RequestSound(request', journal', t, t, t)
  BY <1>1, IdleSound
<1>8. CoordSound(coord', audit', replay', request')
  <2>1. CoordSound(coord, audit, replay, request)
    BY AtCoord
  <2>2. \A id \in DOMAIN audit : audit[id] = [status |-> audit[id].status, affected |-> audit[id].affected]
                                 /\ audit[id].status \in Outcomes
    BY <2>1 DEF CoordSound
  <2> QED
    BY <1>1, <2>2, FreshCoord
<1>9. left' \in [forks : Nat, faults : Nat, all : Nat]
  BY <1>1, AtCoord, SpendKeeps
<1>10. DOMAIN asked' \subseteq Pairs /\ (\A p \in DOMAIN asked' : asked'[p] \in Chains)
       /\ monitor' \in [Pairs -> {"off", "on", "stopped"}]
  BY <1>1 DEF None
<1> QED
  BY <1>1, <1>2, <1>3, <1>4, <1>5, <1>6, <1>7, <1>8, <1>9, <1>10, AtStore DEF ChainInv

LEMMA ChainInit == Init => ChainInv
<1> SUFFICES ASSUME Init PROVE ChainInv
  OBVIOUS
<1>1. PICK t : t = <<1>>
  OBVIOUS
<1>2. t \in Chains /\ Len(t) = 1 /\ Len(t) \in Heights
  <2>1. 1 \in Labels /\ 1 \in Heights
    BY ConstantsTyped DEF Labels, Heights
  <2> QED
    BY <1>1, <2>1 DEF Chains
<1>3. /\ chain = t /\ cutoff = t /\ journal = {t}
      /\ checkpoint = [l \in Listeners |-> IF l = PairCreated THEN t ELSE None]
      /\ row = [e \in Events |-> NoRow] /\ audit = <<>>
      /\ coord = [state |-> "HEALTHY", ready |-> FALSE, last |-> NoReorg, pending |-> <<>>]
      /\ request = Idle /\ replay = NoReplay /\ asked = None
      /\ monitor = [p \in Pairs |-> "off"]
      /\ left = [forks |-> Forks, faults |-> Faults, all |-> Troubles]
  BY <1>1 DEF Init
<1>4. StoredOn(journal, t) /\ Tip = t
  <2>1. StoredOn({t}, t)
    BY <1>2, FreshStored
  <2> QED
    BY <1>2, <1>3, <2>1, TipIs, PrefixOfItself
<1>5. /\ None \in Chains /\ Len(None) = 0 /\ IsPrefix(None, t) /\ IsPrefix(t, t) /\ t # None
  BY <1>2, NoneIsPrefix, PrefixOfItself, NoneIsShort
<1>6. /\ checkpoint \in [Listeners -> Chains] /\ checkpoint[PairCreated] # None
      /\ \A l \in Listeners : IsPrefix(checkpoint[l], t)
  <2>1. PICK x : x = None
    OBVIOUS
  <2>2. checkpoint = [l \in Listeners |-> IF l = PairCreated THEN t ELSE x]
    BY <1>3, <2>1
  <2> QED
    BY <1>2, <1>5, <2>1, <2>2, ConstantsTyped
<1>7. DOMAIN row = Events /\ \A e \in Events : RowSound(row[e], t, t, t)
  <2>1. PICK x, y, b : x = None /\ y = NoSession /\ b = NoRow
    OBVIOUS
  <2>2. b = [block |-> x, canonical |-> FALSE, before |-> y]
    BY <2>1 DEF NoRow
  <2>3. RowSound(b, t, t, t)
    BY <1>2, <1>5, <2>1, <2>2 DEF RowSound
  <2> QED
    BY <1>3, <2>1, <2>3
<1>8. RequestSound(request, journal, t, t, t)
  BY <1>3, IdleSound
<1>9. CoordSound(coord, audit, replay, request)
  <2>1. PICK a : a = <<>>
    OBVIOUS
  <2>2. DOMAIN a = {}
    BY <2>1
  <2> QED
    BY <1>3, <2>1, <2>2, FreshCoord
<1>10. /\ DOMAIN asked \subseteq Pairs /\ \A p \in DOMAIN asked : asked[p] \in Chains
       /\ monitor \in [Pairs -> {"off", "on", "stopped"}]
       /\ left \in [forks : Nat, faults : Nat, all : Nat]
  BY <1>3, ConstantsTyped DEF None
<1>11. chain = t /\ cutoff = t /\ Tip = t
  BY <1>3, <1>4
<1>12. /\ chain \in Chains /\ Len(chain) \in Heights
       /\ cutoff \in Chains /\ 1 <= Len(cutoff) /\ Len(cutoff) <= Len(Tip) /\ Len(Tip) <= Len(chain)
  BY <1>2, <1>11
<1>13. /\ StoredOn(journal, Tip) /\ \A l \in Listeners : IsPrefix(checkpoint[l], Tip)
       /\ \A e \in Events : RowSound(row[e], Tip, chain, cutoff)
       /\ RequestSound(request, journal, Tip, chain, cutoff)
  BY <1>4, <1>6, <1>7, <1>8, <1>11
<1> QED
  BY <1>6, <1>7, <1>9, <1>10, <1>12, <1>13 DEF ChainInv

LEMMA ChainStutters == ASSUME ChainInv, UNCHANGED vars PROVE ChainInv'
<1>1. UNCHANGED <<chain, cutoff, journal, checkpoint, row, coord, audit, replay, asked, monitor, request, left>>
  BY DEF vars, nodeVars, storeVars, projections, idleVars, monitors
<1> QED
  BY <1>1, AtCoord, Reassemble

\* Every step of the system keeps the stored chain sound: the requests that read
\* (CanonicalChainCoordinator.reconcile, processChunk), the rollback
\* (reconcileDivergence, rewindToAncestor), its replay and what happens beside it.
LEMMA ChainNext == ASSUME ChainInv, [Next]_vars PROVE ChainInv'
<1>1. CASE Extend
  BY <1>1, ExtendKeeps
<1>2. CASE Reading
  BY <1>2, PairsRequestKeeps, SwapsRequestKeeps, TipHoldsKeeps, TipDivergesKeeps, ScanHeaderKeeps,
     ThrowsKeep, PersistJournalKeeps, ReadLogsKeeps, AdmitPairKeeps, HandleSwapKeeps,
     CommitChunkKeeps, PruneKeeps DEF Reading
<1>3. CASE RollingBack
  BY <1>3, ReadNewTipKeeps, WalkKeeps, NoAncestorKeeps, ThrowsKeep, DivergeKeeps, DeepReorgKeeps,
     RewindKeeps, ProjectKeeps DEF RollingBack
<1>4. CASE Replaying
  BY <1>4, ReplayStepsKeep, CompleteKeeps DEF Replaying
<1>5. CASE Faulting
  BY <1>5, ThrowsKeep, RestartKeeps, ReplaceKeeps DEF Faulting
<1>6. CASE Beside
  <2>1. CASE Ask \/ DropAsked
    BY <2>1, AskKeeps
  <2>2. CASE \E p \in Pairs : StartMonitor(p) \/ Retire(p) \/ PolicySale(p)
    BY <2>2, StartMonitorKeeps, RetireKeeps, PolicySaleKeeps
  <2> QED
    BY <1>6, <2>1, <2>2 DEF Beside
<1>7. CASE UNCHANGED vars
  BY <1>7, ChainStutters
<1> QED
  BY <1>1, <1>2, <1>3, <1>4, <1>5, <1>6, <1>7 DEF Next

\* The inductive invariant holds in every reachable state.
THEOREM ChainInvariant == Spec => []ChainInv
<1>1. ChainInv /\ [Next]_vars => ChainInv'
  BY ChainNext
<1> QED
  BY <1>1, ChainInit, PTL DEF Spec

\* The stored chain is one chain without a gap, and the checkpoints and the
\* canonical events stand on it, whatever the node, the failures and the restarts
\* do (canonical-chain.coordinator.ts, canonical-chain.repository.ts).
THEOREM ChainIsSound == Spec => []ChainSound
<1>1. ChainInv => ChainSound
  <2> SUFFICES ASSUME ChainInv PROVE ChainSound
    OBVIOUS
  <2>1. ChainTypeOK
    <3>1. chain \in Seq(Labels) /\ Len(chain) \in Heights
      BY DEF ChainInv, Chains
    <3>2. Len(cutoff) \in Heights
      BY AtChain, ConstantsTyped DEF Heights
    <3>3. \A l \in Listeners : checkpoint[l] \in Seq(Labels)
      BY AtChain DEF Chains
    <3>4. CoordSound(coord, audit, replay, request)
      BY AtCoord
    <3>5. \A id \in DOMAIN audit : audit[id].status \in Outcomes
      BY <3>4 DEF CoordSound
    <3>6. \A i \in DOMAIN coord.pending : coord.pending[i] \in DOMAIN audit
      BY <3>4 DEF CoordSound
    <3>7. InReplay => coord.pending # <<>> /\ coord.state # "HEALTHY"
      BY <3>4 DEF CoordSound, InReplay
    <3>8. \A p \in Pairs : monitor[p] \in {"off", "on", "stopped"}
      BY AtCoord
    <3> QED
      BY <3>1, <3>2, <3>3, <3>5, <3>6, <3>7, <3>8 DEF ChainTypeOK
  <2>2. StoredChain
    BY DEF ChainInv, StoredOn, StoredChain
  <2>3. CanonicalRows
    BY DEF ChainInv, RowSound, CanonicalRows
  <2> QED
    BY <2>1, <2>2, <2>3 DEF ChainSound
<1> QED
  BY <1>1, ChainInvariant, PTL

------------------------------------------------------------------------------
(* The inductive invariant of the replay.                                   *)

Busy == {"tip", "scan", "chunk", "logs", "new tip", "walk", "verify"}

\* The tip that won is not beyond the node, and a pending rollback stands for a
\* chain that is longer than the cutoff.
HeadsSound ==
  /\ Len(coord.last[2]) <= Len(chain)
  /\ request.pc \in {"walk", "verify"} => Len(request.new) = request.head
  /\ coord.pending # <<>> => Len(chain) > Len(cutoff)
  /\ request.pc = "walk" => request.at < request.head
  /\ request.pc \in {"verify", "rewind"} =>
       request.scan = None \/ Len(request.scan) < request.head
  /\ request.pc = "project" => Len(chain) > Len(cutoff)

\* A request of the replay reaches the tip that won, and reads on from the
\* checkpoints it will move.
ReadSound ==
  InReplay /\ request.pc \in Busy =>
    /\ request.head >= Len(coord.last[2]) /\ request.head > Len(cutoff)
    /\ request.kind = "pairs" => Len(checkpoint[PairCreated]) + 1 >= request.from
    /\ request.kind = "swaps" =>
         \A p \in On :
           /\ p \in DOMAIN request.targets /\ request.targets[p] >= request.from
           /\ Len(checkpoint[p]) + 1 >= request.targets[p] \/ request.targets[p] = Len(cutoff) + 1

\* Nothing has diverged since the replay has begun.
Undisturbed ==
  ~replay.again /\ coord.state # "MANUAL_REVIEW" /\ request.pc \notin {"rewind", "project"}

\* What the steps of a replay have reached.
StepsSound ==
  /\ replay.step \in {"admit", "swaps", "complete"} /\ Undisturbed =>
       Len(checkpoint[PairCreated]) >= Len(coord.last[2])
  /\ replay.step = "complete" /\ Undisturbed =>
       \A p \in On : Len(checkpoint[p]) >= Len(coord.last[2])

ReplayInv ==
  /\ HeadsSound
  /\ coord.state = "MANUAL_REVIEW" => request.pc = "idle"
  /\ InReplay /\ request.pc # "idle" => request.kind = replay.step
  /\ ReadSound /\ StepsSound

\* The replay, or the request outside one, is given up.
LEMMA ThrowReplays ==
  ASSUME ReplayInv, Throw, UNCHANGED <<chain, cutoff>>,
         coord'.last = coord.last, coord'.pending = coord.pending
  PROVE  ReplayInv'
<1>1. request'.pc = "idle" /\ replay'.step = "none"
  BY DEF Throw, Idle, NoReplay
<1> QED
  BY <1>1 DEF ReplayInv, HeadsSound, ReadSound, StepsSound, InReplay, Busy

\* The node moves.
LEMMA ChainReplays ==
  ASSUME ReplayInv, Len(chain') >= Len(chain), Len(chain) \in Nat, Len(chain') \in Nat,
         Len(cutoff) \in Nat, Len(coord.last[2]) \in Nat,
         UNCHANGED <<cutoff, checkpoint, request, coord, replay, monitor>>
  PROVE  ReplayInv'
<1>1. On' = On
  BY DEF On
<1> QED
  BY <1>1 DEF ReplayInv, HeadsSound, ReadSound, StepsSound, InReplay, Undisturbed

\* A request goes on, and at most stops some of the listeners.
LEMMA RequestReplays ==
  ASSUME ReplayInv, UNCHANGED <<chain, cutoff, checkpoint, coord, replay>>, On' \subseteq On,
         request.pc \in Busy, request'.pc \in Busy,
         request'.kind = request.kind, request'.head = request.head, request'.from = request.from,
         request'.targets = request.targets,
         request'.pc \in {"walk", "verify"} => Len(request'.new) = request'.head,
         request'.pc = "walk" => request'.at < request'.head,
         request'.pc = "verify" => request'.scan = None \/ Len(request'.scan) < request'.head
  PROVE  ReplayInv'
<1>1. request'.pc \notin {"idle", "rewind", "project"} /\ request.pc \notin {"idle", "rewind", "project"}
  BY DEF Busy
<1>2. HeadsSound'
  BY <1>1 DEF ReplayInv, HeadsSound
<1>3. ReadSound'
  BY DEF ReplayInv, ReadSound, InReplay
<1>4. StepsSound'
  BY <1>1 DEF ReplayInv, StepsSound, Undisturbed
<1> QED
  BY <1>1, <1>2, <1>3, <1>4 DEF ReplayInv, InReplay

\* Nothing of the replay changes.
LEMMA BesideReplays ==
  ASSUME ReplayInv, UNCHANGED <<chain, cutoff, request, coord, replay>>,
         On' \subseteq On \/ ~InReplay,
         InReplay => \A l \in On' \cup {PairCreated} : checkpoint'[l] = checkpoint[l]
  PROVE  ReplayInv'
<1>1. HeadsSound'
  BY DEF ReplayInv, HeadsSound
<1>2. CASE InReplay
  <2>1. ReadSound'
    BY <1>2 DEF ReplayInv, ReadSound, InReplay
  <2>2. StepsSound'
    BY <1>2 DEF ReplayInv, StepsSound, Undisturbed, InReplay
  <2> QED
    BY <1>1, <2>1, <2>2 DEF ReplayInv, InReplay
<1>3. CASE ~InReplay
  <2>1. ReadSound' /\ StepsSound'
    BY <1>3 DEF ReplayInv, ReadSound, StepsSound, InReplay
  <2> QED
    BY <1>1, <2>1, <1>3 DEF ReplayInv, InReplay
<1> QED
  BY <1>2, <1>3

LEMMA LastTyped ==
  ASSUME ChainInv
  PROVE  /\ coord.last[2] \in Chains /\ Len(coord.last[2]) \in Nat /\ coord.last \in Chains \X Chains
         /\ coord.state \in States /\ coord.pending \in Seq(DOMAIN audit)
         /\ coord.last = <<coord.last[1], coord.last[2]>>
         /\ replay \in [step : Steps, again : BOOLEAN]
         /\ InReplay => coord.pending # <<>>
         /\ request.pc \in {"rewind", "project"} => coord.state # "HEALTHY"
<1>1. CoordSound(coord, audit, replay, request)
  BY AtCoord
<1>2. coord.last \in Chains \X Chains /\ coord.state \in States /\ coord.pending \in Seq(DOMAIN audit)
      /\ replay \in [step : Steps, again : BOOLEAN] /\ (InReplay => coord.pending # <<>>)
      /\ (request.pc \in {"rewind", "project"} => coord.state # "HEALTHY")
  BY <1>1 DEF CoordSound, InReplay
<1>3. coord.last[2] \in Chains
  BY <1>2
<1> QED
  BY <1>2, <1>3 DEF Chains

LEMMA NodeReplays == ASSUME ChainInv, ReplayInv, Extend \/ Replace PROVE ReplayInv'
<1>1. UNCHANGED <<cutoff, checkpoint, request, coord, replay, monitor>>
  BY DEF Extend, Replace, storeVars, projections, idleVars, monitors
<1>2. Len(chain') >= Len(chain) /\ Len(chain') \in Nat
  <2>1. CASE Extend
    <3>1. chain' = Append(chain, Last(chain)) /\ Last(chain) \in Labels
      BY <2>1, AtChain DEF Extend, Last, Chains
    <3>2. Len(chain') = Len(chain) + 1
      BY <3>1, AtChain DEF Chains
    <3> QED
      BY <3>2, AtChain
  <2>2. CASE Replace
    <3>1. PICK n \in 2..Len(chain), f \in Labels :
            chain' = [i \in 1..Len(chain) |-> IF i < n THEN chain[i] ELSE f]
      BY <2>2 DEF Replace
    <3>2. Len(chain') = Len(chain)
      BY <3>1, AtChain DEF Chains
    <3> QED
      BY <3>2, AtChain
  <2> QED
    BY <2>1, <2>2
<1> QED
  BY <1>1, <1>2, AtChain, LastTyped, ChainReplays

\* A step of the request alone that keeps its kind and what it is about.
LEMMA StepReplays ==
  ASSUME ChainInv, ReplayInv, requestOnly, request.pc \in Busy, request'.pc \in Busy,
         request'.kind = request.kind, request'.head = request.head, request'.from = request.from,
         request'.targets = request.targets,
         request'.pc \in {"walk", "verify"} => Len(request'.new) = request'.head,
         request'.pc = "walk" => request'.at < request'.head,
         request'.pc = "verify" => request'.scan = None \/ Len(request'.scan) < request'.head
  PROVE  ReplayInv'
<1>1. UNCHANGED <<chain, cutoff, checkpoint, coord, replay, monitor>>
  BY DEF requestOnly, nodeVars, storeVars, idleVars, monitors
<1>2. On' = On
  BY <1>1 DEF On
<1> QED
  BY <1>1, <1>2, RequestReplays

LEMMA HeaderReplays ==
  ASSUME ChainInv, ReplayInv, TipHolds \/ TipDiverges \/ ScanHeader \/ ReadLogs
  PROVE  ReplayInv'
<1>1. requestOnly /\ request.pc \in {"tip", "scan", "chunk"}
  BY DEF TipHolds, TipDiverges, ScanHeader, ReadLogs, AtChunk
<1>2. request \in RequestRecord
  BY <1>1, AtRequest
<1> DEFINE r2 == request'
<1>3. CASE TipHolds
  <2>1. PICK at, first, save, scan :
          r2 = [request EXCEPT !.pc = "scan", !.at = at, !.first = first, !.save = save, !.scan = scan]
    BY <1>3 DEF TipHolds
  <2>2. /\ r2.pc = "scan" /\ r2.kind = request.kind /\ r2.head = request.head
        /\ r2.from = request.from /\ r2.targets = request.targets
    BY <1>2, <2>1 DEF RequestRecord
  <2> QED
    BY <1>1, <2>2, StepReplays DEF Busy
<1>4. CASE TipDiverges
  <2>1. PICK scan : r2 = [request EXCEPT !.pc = "new tip", !.scan = scan]
    BY <1>4 DEF TipDiverges
  <2>2. /\ r2.pc = "new tip" /\ r2.kind = request.kind /\ r2.head = request.head
        /\ r2.from = request.from /\ r2.targets = request.targets
    BY <1>2, <2>1 DEF RequestRecord
  <2> QED
    BY <1>1, <2>2, StepReplays DEF Busy
<1>5. CASE ScanHeader
  <2>1. PICK at, scan : r2 = [request EXCEPT !.scan = scan, !.at = at]
    BY <1>5 DEF ScanHeader
  <2>2. /\ r2.pc = request.pc /\ r2.kind = request.kind /\ r2.head = request.head
        /\ r2.from = request.from /\ r2.targets = request.targets
    BY <1>2, <2>1 DEF RequestRecord
  <2>3. request.pc = "scan"
    BY <1>5 DEF ScanHeader
  <2> QED
    BY <1>1, <2>2, <2>3, StepReplays DEF Busy
<1>6. CASE ReadLogs
  <2>1. PICK todo : r2 = [request EXCEPT !.pc = "logs", !.todo = todo]
    BY <1>6 DEF ReadLogs
  <2>2. /\ r2.pc = "logs" /\ r2.kind = request.kind /\ r2.head = request.head
        /\ r2.from = request.from /\ r2.targets = request.targets
    BY <1>2, <2>1 DEF RequestRecord
  <2> QED
    BY <1>1, <2>2, StepReplays DEF Busy
<1> QED
  BY <1>3, <1>4, <1>5, <1>6

LEMMA WalkReplays ==
  ASSUME ChainInv, ReplayInv, ReadNewTip \/ Walk \/ NoAncestor
  PROVE  ReplayInv'
<1>1. requestOnly /\ request.pc \in {"new tip", "walk"}
  BY DEF ReadNewTip, Walk, NoAncestor
<1>2. request \in RequestRecord /\ request.head \in 1..Len(chain) /\ Len(Tip) <= request.head
      /\ request.at \in Int /\ request.head \in Nat
  BY <1>1, AtRequest
<1> DEFINE r2 == request'
<1>3. CASE ReadNewTip
  <2>1. PICK new, at : new = Upto(chain, request.head) /\ at = Len(Tip) - 1
    OBVIOUS
  <2>2. Len(new) = request.head /\ at < request.head /\ at \in Int
    <3>1. request.head \in 0..Len(chain)
      BY <1>2
    <3> QED
      BY <1>2, <2>1, <3>1, AtChain, UptoIs
  <2>3. r2 = [request EXCEPT !.pc = "walk", !.new = new, !.at = at]
    BY <1>3, <2>1 DEF ReadNewTip
  <2>4. /\ r2.pc = "walk" /\ r2.kind = request.kind /\ r2.head = request.head
        /\ r2.from = request.from /\ r2.targets = request.targets /\ r2.new = new /\ r2.at = at
    BY <1>2, <2>3 DEF RequestRecord
  <2> QED
    BY <1>1, <2>2, <2>4, StepReplays DEF Busy
<1>4. CASE Walk
  <2>1. request.pc = "walk" /\ InWindow
    BY <1>4 DEF Walk
  <2>2. Len(request.new) = request.head /\ request.at < request.head
    BY <2>1 DEF ReplayInv, HeadsSound
  <2>3. PICK at, remote : at = request.at /\ remote = Upto(chain, at)
    OBVIOUS
  <2>4. Len(remote) < request.head /\ at - 1 < request.head
    <3>1. PICK h \in Known : Len(h) = at
      BY <2>1, <2>3 DEF InWindow
    <3>2. at \in 0..Len(chain)
      BY <1>2, <2>2, <2>3, <3>1, KnownIs, AtChain
    <3> QED
      BY <1>2, <2>2, <2>3, <3>2, AtChain, UptoIs
  <2>5. CASE remote \in journal
    <3>1. r2 = [request EXCEPT !.pc = "verify", !.scan = remote]
      BY <1>4, <2>3, <2>5 DEF Walk
    <3>2. /\ r2.pc = "verify" /\ r2.kind = request.kind /\ r2.head = request.head
          /\ r2.from = request.from /\ r2.targets = request.targets /\ r2.new = request.new
          /\ r2.scan = remote
      BY <1>2, <3>1 DEF RequestRecord
    <3> QED
      BY <1>1, <2>1, <2>2, <2>4, <3>2, StepReplays DEF Busy
  <2>6. CASE remote \notin journal
    <3>1. r2 = [request EXCEPT !.at = at - 1]
      BY <1>4, <2>3, <2>6 DEF Walk
    <3>2. /\ r2.pc = "walk" /\ r2.kind = request.kind /\ r2.head = request.head
          /\ r2.from = request.from /\ r2.targets = request.targets /\ r2.new = request.new
          /\ r2.at = at - 1
      BY <1>2, <2>1, <3>1 DEF RequestRecord
    <3> QED
      BY <1>1, <2>1, <2>2, <2>4, <3>2, StepReplays DEF Busy
  <2> QED
    BY <2>5, <2>6
<1>5. CASE NoAncestor
  <2>1. request.pc = "walk" /\ Len(request.new) = request.head
    BY <1>5 DEF NoAncestor, ReplayInv, HeadsSound
  <2>2. r2 = [request EXCEPT !.pc = "verify", !.scan = None]
    BY <1>5 DEF NoAncestor
  <2>3. /\ r2.pc = "verify" /\ r2.kind = request.kind /\ r2.head = request.head
        /\ r2.from = request.from /\ r2.targets = request.targets /\ r2.new = request.new
        /\ r2.scan = None
    <3>1. PICK n : n = None
      OBVIOUS
    <3> QED
      BY <1>2, <2>2, <3>1 DEF RequestRecord
  <2> QED
    BY <1>1, <2>1, <2>3, StepReplays DEF Busy
<1> QED
  BY <1>3, <1>4, <1>5

LEMMA LogReplays ==
  ASSUME ChainInv, ReplayInv, AdmitPair \/ HandleSwap
  PROVE  ReplayInv'
<1>1. request.pc = "logs" /\ request.todo # <<>> /\ NextLog
  BY Zenon DEF AdmitPair, HandleSwap
<1>2. UNCHANGED <<chain, cutoff, checkpoint, coord, replay>>
  BY DEF AdmitPair, HandleSwap, nodeVars, idleVars
<1>3. On' \subseteq On
  <2>1. CASE AdmitPair
    <3>1. monitor' = monitor
      BY <2>1 DEF AdmitPair, idleVars, monitors
    <3> QED
      BY <3>1 DEF On
  <2>2. CASE HandleSwap
    <3>1. PICK p : p = PairOf[Log.event]
      OBVIOUS
    <3>2. monitor' = monitor \/ monitor' = [monitor EXCEPT ![p] = "stopped"]
      BY <2>2, <3>1 DEF HandleSwap, monitors
    <3> QED
      BY <3>2, AtCoord DEF On
  <2> QED
    BY <2>1, <2>2
<1> DEFINE r2 == request'
<1>4. PICK todo : r2 = [request EXCEPT !.todo = todo]
  BY <1>1 DEF NextLog
<1>5. /\ r2.pc = "logs" /\ r2.kind = request.kind /\ r2.head = request.head
      /\ r2.from = request.from /\ r2.targets = request.targets
  BY <1>1, <1>4, AtRequest DEF RequestRecord
<1> QED
  BY <1>1, <1>2, <1>3, <1>5, RequestReplays DEF Busy

LEMMA PersistReplays ==
  ASSUME ChainInv, ReplayInv, PersistJournal
  PROVE  ReplayInv'
<1>1. request.pc = "scan" /\ UNCHANGED <<chain, cutoff, checkpoint, coord, replay, monitor>>
  BY DEF PersistJournal, nodeVars, idleVars, monitors
<1> DEFINE r2 == request'
<1>2. r2 = [request EXCEPT !.pc = "chunk", !.kept = request.save]
  BY DEF PersistJournal
<1>3. /\ r2.pc = "chunk" /\ r2.kind = request.kind /\ r2.head = request.head
      /\ r2.from = request.from /\ r2.targets = request.targets
  BY <1>1, <1>2, AtRequest DEF RequestRecord
<1>4. On' = On
  BY <1>1 DEF On
<1> QED
  BY <1>1, <1>3, <1>4, RequestReplays DEF Busy

LEMMA PairsRequestReplays ==
  ASSUME ChainInv, ReplayInv, PairsRequest
  PROVE  ReplayInv'
<1>1. /\ request = Idle /\ UNCHANGED <<chain, cutoff, checkpoint, coord, replay, monitor>>
      /\ coord.state # "MANUAL_REVIEW" /\ (InReplay => replay.step = "pairs")
  BY DEF PairsRequest, Admitted, nodeVars, storeVars, idleVars, monitors
<1> DEFINE r2 == request'
<1>2. PICK from, targets, anchor :
        /\ from = Len(checkpoint[PairCreated]) + 1
        /\ r2 = [Idle EXCEPT !.pc = "tip", !.kind = "pairs", !.head = Len(chain), !.from = from,
                             !.targets = targets, !.anchor = anchor]
  BY DEF PairsRequest, Start
<1>3. r2.pc = "tip" /\ r2.kind = "pairs" /\ r2.head = Len(chain) /\ r2.from = from
  BY <1>2 DEF Idle
<1>4. request.pc = "idle"
  BY <1>1 DEF Idle
<1>5. HeadsSound'
  BY <1>1, <1>3 DEF ReplayInv, HeadsSound
<1>6. ReadSound'
  <2>1. SUFFICES ASSUME InReplay'
                 PROVE  /\ Len(chain) >= Len(coord.last[2]) /\ Len(chain) > Len(cutoff)
                        /\ Len(checkpoint[PairCreated]) + 1 >= from
    BY <1>1, <1>3 DEF ReadSound
  <2>2. InReplay
    BY <1>1, <2>1 DEF InReplay
  <2>3. coord.pending # <<>>
    BY <2>2, LastTyped
  <2>4. Len(coord.last[2]) <= Len(chain) /\ Len(chain) > Len(cutoff)
    BY <2>3 DEF ReplayInv, HeadsSound
  <2>5. Len(checkpoint[PairCreated]) \in Nat
    BY AtChain, ConstantsTyped
  <2> QED
    BY <1>2, <2>4, <2>5, LastTyped, AtChain
<1>7. StepsSound'
  BY <1>1, <1>3 DEF StepsSound, InReplay
<1> QED
  BY <1>1, <1>3, <1>5, <1>6, <1>7 DEF ReplayInv, InReplay

LEMMA SwapsRequestReplays ==
  ASSUME ChainInv, ReplayInv, SwapsRequest
  PROVE  ReplayInv'
<1>1. /\ request = Idle /\ UNCHANGED <<chain, cutoff, checkpoint, coord, replay, monitor>>
      /\ coord.state # "MANUAL_REVIEW" /\ (InReplay => replay.step = "swaps")
  BY DEF SwapsRequest, Admitted, nodeVars, storeVars, monitors
<1> DEFINE r2 == request'
<1>2. PICK read : read = IF InReplay THEN Snapshot ELSE asked
  OBVIOUS
<1>3. PICK from, targets, anchor :
        /\ from = FirstOf(read) /\ targets = [p \in DOMAIN read |-> NextOf(read[p])]
        /\ r2 = [Idle EXCEPT !.pc = "tip", !.kind = "swaps", !.head = Len(chain), !.from = from,
                             !.targets = targets, !.anchor = anchor]
        /\ DOMAIN read # {}
  BY <1>2 DEF SwapsRequest, Start
<1>4. /\ r2.pc = "tip" /\ r2.kind = "swaps" /\ r2.head = Len(chain) /\ r2.from = from
      /\ r2.targets = targets
  BY <1>3 DEF Idle
<1>5. request.pc = "idle" /\ On' = On
  BY <1>1 DEF Idle, On
<1>6. HeadsSound'
  BY <1>1, <1>4 DEF ReplayInv, HeadsSound
<1>7. ReadSound'
  <2>1. SUFFICES ASSUME InReplay'
                 PROVE  /\ Len(chain) >= Len(coord.last[2]) /\ Len(chain) > Len(cutoff)
                        /\ \A p \in On :
                             /\ p \in DOMAIN targets /\ targets[p] >= from
                             /\ \/ Len(checkpoint[p]) + 1 >= targets[p]
                                \/ targets[p] = Len(cutoff) + 1
    BY <1>1, <1>4, <1>5 DEF ReadSound
  <2>2. InReplay
    BY <1>1, <2>1 DEF InReplay
  <2>3. coord.pending # <<>>
    BY <2>2, LastTyped
  <2>4. Len(coord.last[2]) <= Len(chain) /\ Len(chain) > Len(cutoff)
    BY <2>3 DEF ReplayInv, HeadsSound
  <2>5. DOMAIN read = On /\ \A p \in On : read[p] = checkpoint[p] /\ read[p] \in Chains
    BY <1>2, <2>2, AtChain, ConstantsTyped DEF Snapshot, On
  <2>6. \A p \in On : targets[p] = NextOf(checkpoint[p]) /\ NextOf(checkpoint[p]) >= from
    <3> DEFINE S == {NextOf(read[p]) : p \in DOMAIN read}
    <3>1. S \subseteq Nat \ {0} /\ S # {}
      BY <1>3, <2>5, NextTyped
    <3>2. from = Min(S)
      BY <1>3 DEF FirstOf
    <3>3. \A p \in On : NextOf(checkpoint[p]) \in S
      BY <2>5
    <3>4. \A p \in On : targets[p] = NextOf(checkpoint[p])
      BY <1>3, <2>5
    <3> HIDE DEF S
    <3>5. \A y \in S : from <= y /\ y \in Nat /\ from \in Nat
      BY <3>1, <3>2, MinOfNats
    <3> QED
      BY <3>3, <3>4, <3>5
  <2>7. \A p \in On : Len(checkpoint[p]) \in Nat
    BY AtChain, ConstantsTyped DEF On
  <2>8. \A p \in On : Len(checkpoint[p]) + 1 >= targets[p] \/ targets[p] = Len(cutoff) + 1
    BY <2>6, <2>7 DEF NextOf
  <2>9. \A p \in On : p \in DOMAIN targets
    BY <1>3, <2>5
  <2> QED
    BY <2>4, <2>6, <2>8, <2>9, LastTyped, AtChain
<1>8. StepsSound'
  <2>1. replay.step # "complete"
    BY <1>1 DEF InReplay
  <2> QED
    BY <1>1, <1>5, <2>1 DEF ReplayInv, StepsSound, Undisturbed
<1> QED
  BY <1>1, <1>4, <1>6, <1>7, <1>8 DEF ReplayInv, InReplay

LEMMA CommitReplays ==
  ASSUME ChainInv, ReplayInv, CommitChunk
  PROVE  ReplayInv'
<1>1. request.pc = "logs" /\ request \in RequestRecord
  BY AtRequest DEF CommitChunk
<1>2. UNCHANGED <<chain, cutoff, coord, replay, monitor>> /\ On' = On
  BY DEF CommitChunk, nodeVars, idleVars, monitors, On
<1>3. PICK moved, until, h, kept :
        /\ moved = IF request.kind = "pairs" THEN {PairCreated} ELSE Concerned
        /\ until = Until /\ h = Upto(request.scan, Until) /\ kept = (request.kept \/ request.kind = "pairs")
  OBVIOUS
<1> DEFINE r2 == request'
<1>4. PICK targets : targets = [p \in DOMAIN request.targets |->
                                  IF p \in moved THEN until + 1 ELSE request.targets[p]]
  OBVIOUS
<1>5. /\ checkpoint' = [l \in Listeners |-> IF l \in moved THEN h ELSE checkpoint[l]]
      /\ r2 = [request EXCEPT !.pc = "chunk", !.from = until + 1, !.kept = kept, !.targets = targets]
  BY <1>3, <1>4 DEF CommitChunk
<1>6. until \in Nat /\ until <= Len(Tip) /\ request.scan = Tip
  <2>1. until \in Int /\ until <= request.head /\ until >= 1
    BY <1>1, <1>3, AtRequest, UntilIs
  <2> QED
    BY <1>1, <2>1, AtRequest
<1>7. Len(h) = until
  <2>1. PICK t : t = Tip
    OBVIOUS
  <2>2. h = Upto(t, until) /\ t \in Chains /\ until \in 0..Len(t)
    BY <1>3, <1>6, <2>1, AtChain
  <2> QED
    BY <2>2, UptoIs
<1>8. /\ r2.pc = "chunk" /\ r2.kind = request.kind /\ r2.head = request.head /\ r2.from = until + 1
      /\ r2.targets = targets
  BY <1>1, <1>5 DEF RequestRecord
<1>9. request.kind \in {"none", "pairs", "swaps"} /\ (InReplay => request.kind = replay.step)
  BY <1>1 DEF ReplayInv, RequestRecord
<1>10. HeadsSound'
  BY <1>1, <1>2, <1>8 DEF ReplayInv, HeadsSound
<1>11. ReadSound'
  <2>1. SUFFICES ASSUME InReplay'
                 PROVE  /\ request.head >= Len(coord.last[2]) /\ request.head > Len(cutoff)
                        /\ request.kind = "pairs" => Len(checkpoint'[PairCreated]) + 1 >= until + 1
                        /\ request.kind = "swaps" =>
                             \A p \in On :
                               /\ p \in DOMAIN targets /\ targets[p] >= until + 1
                               /\ \/ Len(checkpoint'[p]) + 1 >= targets[p]
                                  \/ targets[p] = Len(cutoff) + 1
    BY <1>2, <1>8 DEF ReadSound
  <2>2. InReplay /\ request.pc \in Busy
    BY <1>1, <1>2, <2>1 DEF InReplay, Busy
  <2>3. request.head >= Len(coord.last[2]) /\ request.head > Len(cutoff)
    BY <2>2 DEF ReplayInv, ReadSound
  <2>4. ASSUME request.kind = "pairs" PROVE Len(checkpoint'[PairCreated]) + 1 >= until + 1
    BY <1>3, <1>5, <1>6, <1>7, <2>4, ConstantsTyped
  <2>5. ASSUME request.kind = "swaps", NEW p \in On
        PROVE  /\ p \in DOMAIN targets /\ targets[p] >= until + 1
               /\ \/ Len(checkpoint'[p]) + 1 >= targets[p]
                  \/ targets[p] = Len(cutoff) + 1
    <3>1. /\ p \in DOMAIN request.targets /\ p \in Listeners
          /\ Len(checkpoint[p]) + 1 >= request.targets[p] \/ request.targets[p] = Len(cutoff) + 1
      BY <2>2, <2>5, ConstantsTyped DEF ReplayInv, ReadSound, On
    <3>2. request.targets[p] \in Nat
      <4>1. PICK old : old = request.targets
        OBVIOUS
      <4>2. old \in UNION {[T -> Nat] : T \in SUBSET Pairs}
        BY <1>1, <4>1 DEF RequestRecord
      <4>3. PICK T \in SUBSET Pairs : old \in [T -> Nat]
        BY <4>2
      <4> QED
        BY <3>1, <4>1, <4>3
    <3>3. moved = Concerned
      BY <1>3, <2>5
    <3>4. CASE p \in moved
      BY <1>4, <1>5, <1>6, <1>7, <3>1, <3>4
    <3>5. CASE p \notin moved
      <4>1. ~(request.targets[p] <= until)
        BY <1>3, <3>1, <3>3, <3>5 DEF Concerned
      <4> QED
        BY <1>4, <1>5, <1>6, <3>1, <3>2, <3>5, <4>1
    <3> QED
      BY <3>4, <3>5
  <2> QED
    BY <2>3, <2>4, <2>5
<1>12. StepsSound'
  <2>1. SUFFICES ASSUME replay.step \in {"admit", "swaps", "complete"}, Undisturbed'
                 PROVE  /\ replay.step # "complete"
                        /\ Len(checkpoint'[PairCreated]) >= Len(coord.last[2])
    BY <1>2 DEF StepsSound
  <2>2. InReplay /\ replay.step = "swaps"
    BY <1>9, <2>1 DEF InReplay
  <2>3. Undisturbed
    BY <1>1, <1>2, <2>1 DEF Undisturbed
  <2>4. Len(checkpoint[PairCreated]) >= Len(coord.last[2])
    BY <2>2, <2>3 DEF ReplayInv, StepsSound
  <2>5. PairCreated \notin moved
    <3>1. moved = Concerned
      BY <1>3, <1>9, <2>2
    <3>2. DOMAIN request.targets \subseteq Pairs
      <4>1. PICK old : old = request.targets
        OBVIOUS
      <4>2. old \in UNION {[T -> Nat] : T \in SUBSET Pairs}
        BY <1>1, <4>1 DEF RequestRecord
      <4> QED
        BY <4>1, <4>2
    <3> QED
      BY <3>1, <3>2, ChainAssumption DEF Concerned
  <2> QED
    BY <1>5, <2>2, <2>4, <2>5, ConstantsTyped
<1> QED
  BY <1>1, <1>2, <1>8, <1>9, <1>10, <1>11, <1>12, LastTyped DEF ReplayInv, InReplay

LEMMA PruneReplays ==
  ASSUME ChainInv, ReplayInv, Prune
  PROVE  ReplayInv'
<1>1. request.pc = "chunk" /\ request.from > request.head /\ request \in RequestRecord
      /\ request.from \in Nat /\ request.head \in Nat
  BY AtRequest DEF Prune
<1>2. UNCHANGED <<chain, cutoff, checkpoint, coord, monitor>> /\ On' = On
  BY DEF Prune, nodeVars, monitors, On
<1>3. /\ request'.pc = "idle"
      /\ replay' = IF InReplay THEN [step |-> NextStep(replay.step), again |-> replay.again \/ FALSE]
                               ELSE NoReplay
  BY DEF Prune, Return, Idle
<1>4. HeadsSound' /\ ReadSound'
  BY <1>2, <1>3 DEF ReplayInv, HeadsSound, ReadSound, Busy
<1>5. StepsSound'
  <2>1. SUFFICES ASSUME InReplay, ~replay.again, coord.state # "MANUAL_REVIEW"
                 PROVE  /\ Len(checkpoint[PairCreated]) >= Len(coord.last[2])
                        /\ NextStep(replay.step) = "complete" =>
                             \A p \in On : Len(checkpoint[p]) >= Len(coord.last[2])
    <3>1. CASE ~InReplay
      BY <1>2, <1>3, <3>1 DEF StepsSound, NoReplay
    <3>2. CASE InReplay
      <4>1. replay'.step = NextStep(replay.step) /\ replay'.again = (replay.again \/ FALSE)
        BY <1>3, <3>2
      <4> QED
        BY <1>2, <2>1, <3>2, <4>1 DEF StepsSound, Undisturbed
    <3> QED
      BY <3>1, <3>2
  <2>2. /\ request.head >= Len(coord.last[2]) /\ request.head > Len(cutoff)
        /\ request.kind = "pairs" => Len(checkpoint[PairCreated]) + 1 >= request.from
        /\ request.kind = "swaps" =>
             \A p \in On :
               /\ p \in DOMAIN request.targets /\ request.targets[p] >= request.from
               /\ Len(checkpoint[p]) + 1 >= request.targets[p] \/ request.targets[p] = Len(cutoff) + 1
    BY <1>1, <2>1 DEF ReplayInv, ReadSound, Busy
  <2>3. request.kind = replay.step /\ replay.step \in {"pairs", "swaps"}
    BY <1>1, <2>1 DEF ReplayInv, RequestRecord, InReplay
  <2>4. Len(checkpoint[PairCreated]) \in Nat /\ \A p \in On : Len(checkpoint[p]) \in Nat
    BY AtChain, ConstantsTyped DEF On
  <2>5. CASE replay.step = "pairs"
    BY <1>1, <2>2, <2>3, <2>4, <2>5, LastTyped DEF NextStep
  <2>6. CASE replay.step = "swaps"
    <3>1. Len(checkpoint[PairCreated]) >= Len(coord.last[2])
      BY <1>1, <2>1, <2>6 DEF ReplayInv, StepsSound, Undisturbed
    <3>2. ASSUME NEW p \in On PROVE Len(checkpoint[p]) >= Len(coord.last[2])
      <4>1. PICK old : old = request.targets
        OBVIOUS
      <4>2. old \in UNION {[T -> Nat] : T \in SUBSET Pairs}
        BY <1>1, <4>1 DEF RequestRecord
      <4>3. PICK T \in SUBSET Pairs : old \in [T -> Nat]
        BY <4>2
      <4>4. old[p] \in Nat
        BY <2>2, <2>3, <2>6, <4>1, <4>3
      <4>5. /\ old[p] >= request.from
            /\ Len(checkpoint[p]) + 1 >= old[p] \/ old[p] = Len(cutoff) + 1
        BY <2>2, <2>3, <2>6, <4>1
      <4>6. /\ Len(checkpoint[p]) \in Nat /\ Len(cutoff) \in Nat /\ Len(coord.last[2]) \in Nat
            /\ request.head \in Nat /\ request.from \in Nat
        BY <1>1, <2>4, LastTyped, AtChain
      <4>7. request.from > request.head /\ request.head >= Len(coord.last[2]) /\ request.head > Len(cutoff)
        BY <1>1, <2>2
      <4> HIDE DEF On
      <4> QED
        BY <4>4, <4>5, <4>6, <4>7
    <3> QED
      BY <3>1, <3>2
  <2> QED
    BY <2>3, <2>5, <2>6
<1> QED
  BY <1>2, <1>3, <1>4, <1>5 DEF ReplayInv

LEMMA ThrowsReplay ==
  ASSUME ChainInv, ReplayInv,
         RpcFails \/ ScanThrows \/ ChunkThrows \/ HandlingFails \/ WalkThrows \/ HandlerFails \/ DeepReorg
  PROVE  ReplayInv'
<1>1. Throw /\ UNCHANGED <<chain, cutoff>>
  BY DEF RpcFails, ScanThrows, ChunkThrows, HandlingFails, WalkThrows, HandlerFails, DeepReorg, nodeVars
<1>2. coord'.last = coord.last /\ coord'.pending = coord.pending
  <2>1. CASE DeepReorg
    <3>1. coord' = Status("MANUAL_REVIEW", FALSE, coord.last)
      BY <2>1 DEF DeepReorg
    <3>2. PICK last : last = coord.last
      OBVIOUS
    <3>3. last \in Chains \X Chains
      BY <3>2, LastTyped
    <3>4. coord' = [state |-> "MANUAL_REVIEW", ready |-> FALSE, last |-> last, pending |-> coord.pending]
      BY <3>1, <3>2, <3>3, AtCoord, StatusIs DEF States
    <3> QED
      BY <3>2, <3>4
  <2>2. CASE ~DeepReorg
    BY <2>2 DEF RpcFails, ScanThrows, ChunkThrows, HandlingFails, WalkThrows, HandlerFails
  <2> QED
    BY <2>1, <2>2
<1> QED
  BY <1>1, <1>2, ThrowReplays

LEMMA DivergeReplays ==
  ASSUME ChainInv, ReplayInv, Diverge
  PROVE  ReplayInv'
<1>1. request.pc = "verify" /\ request \in RequestRecord
  BY AtRequest DEF Diverge
<1>2. UNCHANGED <<chain, cutoff, checkpoint, replay, monitor>>
  BY DEF Diverge, nodeVars, storeVars, monitors
<1> DEFINE r2 == request'
<1>3. r2 = [request EXCEPT !.pc = "rewind"]
  BY DEF Diverge
<1>4. r2.pc = "rewind" /\ r2.scan = request.scan /\ r2.head = request.head /\ r2.kind = request.kind
  BY <1>1, <1>3 DEF RequestRecord
<1>5. PICK last : last = Reorg
  OBVIOUS
<1>6. last \in Chains \X Chains /\ last[2] = request.new
  BY <1>1, <1>5, AtRequest, AtChain DEF Reorg
<1>7. coord' = [state |-> "RECONCILING", ready |-> FALSE, last |-> last, pending |-> coord.pending]
  <2>1. coord' = Status("RECONCILING", FALSE, last)
    BY <1>5 DEF Diverge
  <2> QED
    BY <1>6, <2>1, AtCoord, StatusIs DEF States
<1>8. Len(coord'.last[2]) <= Len(chain)
  <2>1. Len(request.new) = request.head /\ request.head <= Len(chain)
    BY <1>1, AtRequest DEF ReplayInv, HeadsSound
  <2> QED
    BY <1>6, <1>7, <2>1
<1>9. coord'.pending = coord.pending /\ coord'.state = "RECONCILING"
  BY <1>7
<1>10. HeadsSound'
  BY <1>1, <1>2, <1>4, <1>8, <1>9 DEF ReplayInv, HeadsSound
<1>11. ReadSound' /\ StepsSound'
  BY <1>4 DEF ReadSound, StepsSound, Undisturbed, Busy
<1> QED
  BY <1>1, <1>2, <1>4, <1>9, <1>10, <1>11 DEF ReplayInv, InReplay

LEMMA RewindReplays ==
  ASSUME ChainInv, ReplayInv, Rewind
  PROVE  ReplayInv'
<1>1. request.pc = "rewind" /\ request.scan # None /\ request \in RequestRecord
  BY AtRequest DEF Rewind
<1>2. UNCHANGED <<chain, cutoff, coord, replay, monitor>>
  BY DEF Rewind, nodeVars, idleVars, monitors
<1> DEFINE r2 == request'
<1>3. r2 = [request EXCEPT !.pc = "project"]
  BY DEF Rewind
<1>4. r2.pc = "project" /\ r2.kind = request.kind
  BY <1>1, <1>3 DEF RequestRecord
<1>5. Len(chain) > Len(cutoff)
  <2>1. Len(request.scan) < request.head /\ Len(request.scan) >= Len(cutoff)
    BY <1>1, AtCoord DEF ReplayInv, HeadsSound, RequestSound
  <2>2. request.head \in 1..Len(chain) /\ request.scan \in Chains
    BY <1>1, AtRequest
  <2>3. Len(request.scan) \in Nat
    BY <2>2 DEF Chains
  <2> QED
    BY <2>1, <2>2, <2>3, AtChain
<1>6. HeadsSound'
  BY <1>2, <1>4, <1>5 DEF ReplayInv, HeadsSound
<1>7. ReadSound' /\ StepsSound'
  BY <1>4 DEF ReadSound, StepsSound, Undisturbed, Busy
<1>8. coord.state # "MANUAL_REVIEW"
  BY <1>1 DEF ReplayInv
<1> QED
  BY <1>1, <1>2, <1>4, <1>6, <1>7, <1>8 DEF ReplayInv, InReplay

LEMMA ProjectReplays ==
  ASSUME ChainInv, ReplayInv, Project
  PROVE  ReplayInv'
<1>1. request.pc = "project" /\ Return(TRUE) /\ UNCHANGED <<chain, cutoff>>
  BY DEF Project, nodeVars
<1>2. Len(chain) > Len(cutoff) /\ Len(coord.last[2]) <= Len(chain)
  BY <1>1 DEF ReplayInv, HeadsSound
<1>3. request'.pc = "idle"
  BY <1>1 DEF Return, Idle
<1>4. replay'.step = "none" \/ replay'.again = TRUE
  BY <1>1 DEF Return, NoReplay
<1>5. coord'.last = coord.last
  <2>1. PICK last : last = coord.last
    OBVIOUS
  <2>2. last \in Chains \X Chains
    BY <2>1, LastTyped
  <2>3. CASE Lost # {}
    <3>1. coord' = Status("MANUAL_REVIEW", FALSE, last)
      BY <2>1, <2>3 DEF Project
    <3>2. coord' = [state |-> "MANUAL_REVIEW", ready |-> FALSE, last |-> last, pending |-> coord.pending]
      BY <2>2, <3>1, AtCoord, StatusIs DEF States
    <3> QED
      BY <2>1, <3>2
  <2>4. CASE Lost = {}
    <3>1. PICK st : st = Status("RECONCILING", TRUE, last)
      OBVIOUS
    <3>2. PICK pending : coord' = [st EXCEPT !.pending = pending]
      BY <2>1, <2>4, <3>1 DEF Project
    <3>3. st = [state |-> "RECONCILING", ready |-> TRUE, last |-> last, pending |-> coord.pending]
      BY <2>2, <3>1, AtCoord, StatusIs DEF States
    <3> QED
      BY <2>1, <3>2, <3>3
  <2> QED
    BY <2>3, <2>4
<1>6. HeadsSound'
  BY <1>1, <1>2, <1>3, <1>5 DEF HeadsSound
<1>7. ReadSound' /\ StepsSound'
  BY <1>3, <1>4 DEF ReadSound, StepsSound, Undisturbed, Busy
<1> QED
  BY <1>3, <1>6, <1>7 DEF ReplayInv

LEMMA ReplayStepsReplay ==
  ASSUME ChainInv, ReplayInv, Finalize \/ AdmitReplay \/ SkipStep
  PROVE  ReplayInv'
<1>1. UNCHANGED <<chain, cutoff, checkpoint, request, coord>>
  BY DEF Finalize, AdmitReplay, SkipStep, nodeVars, storeVars
<1>2. request.pc = "idle"
  <2>1. CASE AdmitReplay
    <3>1. InReplay /\ replay.step = "admit"
      BY <2>1 DEF AdmitReplay, InReplay
    <3>2. request.pc # "idle" => request.kind = "admit" /\ request.kind \in {"none", "pairs", "swaps"}
      BY <3>1, AtRequest DEF ReplayInv, RequestRecord
    <3> QED
      BY <3>2
  <2>2. CASE Finalize \/ SkipStep
    BY <2>2 DEF Finalize, SkipStep, Idle
  <2> QED
    BY <2>1, <2>2
<1>3. replay \in [step : Steps, again : BOOLEAN]
  BY LastTyped
<1>4. HeadsSound' /\ ReadSound'
  BY <1>1, <1>2 DEF ReplayInv, HeadsSound, ReadSound, Busy
<1>5. StepsSound'
  <2>1. CASE Finalize
    BY <2>1 DEF Finalize, StepsSound
  <2>2. CASE AdmitReplay
    <3>1. replay'.step = "swaps" /\ replay'.again = replay.again /\ replay.step = "admit"
      BY <1>3, <2>2 DEF AdmitReplay
    <3> QED
      BY <1>1, <3>1 DEF ReplayInv, StepsSound, Undisturbed
  <2>3. CASE SkipStep
    <3>1. /\ replay'.step = NextStep(replay.step) /\ replay'.again = replay.again
          /\ coord.state = "MANUAL_REVIEW" \/ (replay.step = "swaps" /\ On = {})
      BY <1>3, <2>3 DEF SkipStep
    <3>2. On' = On
      BY <2>3 DEF SkipStep, monitors, On
    <3>3. CASE coord.state = "MANUAL_REVIEW"
      BY <1>1, <3>3 DEF StepsSound, Undisturbed
    <3>4. CASE coord.state # "MANUAL_REVIEW"
      BY <1>1, <3>1, <3>2, <3>4 DEF ReplayInv, StepsSound, Undisturbed
    <3> QED
      BY <3>3, <3>4
  <2> QED
    BY <2>1, <2>2, <2>3
<1> QED
  BY <1>1, <1>2, <1>4, <1>5 DEF ReplayInv

LEMMA CompleteReplays ==
  ASSUME ChainInv, ReplayInv, Complete
  PROVE  ReplayInv'
<1>1. UNCHANGED <<chain, cutoff, checkpoint, request>> /\ request = Idle /\ replay.step = "complete"
  BY DEF Complete, nodeVars
<1>2. request.pc = "idle" /\ InReplay
  BY <1>1 DEF Idle, InReplay
<1>3. coord'.last = coord.last
  <2>1. PICK c, S : c = coord /\ S = Seq(DOMAIN audit)
    OBVIOUS
  <2>2. c \in [state : States, ready : BOOLEAN, last : Chains \X Chains, pending : S]
    BY <2>1, AtCoord DEF CoordSound
  <2>3. PICK pending, state, ready :
          coord' = [c EXCEPT !.pending = pending, !.state = state, !.ready = ready]
    BY <2>1 DEF Complete
  <2> QED
    BY <2>1, <2>2, <2>3
<1>4. Len(chain) > Len(cutoff)
  BY <1>2, LastTyped DEF ReplayInv, HeadsSound
<1>5. HeadsSound' /\ ReadSound'
  BY <1>1, <1>2, <1>3, <1>4 DEF ReplayInv, HeadsSound, ReadSound, Busy
<1>6. replay'.step \in {"pairs", "none"}
  BY DEF Complete, NoReplay
<1>7. StepsSound'
  BY <1>6 DEF StepsSound
<1> QED
  BY <1>1, <1>2, <1>5, <1>7 DEF ReplayInv

LEMMA PairReplays ==
  ASSUME ChainInv, ReplayInv, NEW p \in Pairs, StartMonitor(p) \/ Retire(p) \/ PolicySale(p)
  PROVE  ReplayInv'
<1>1. UNCHANGED <<chain, cutoff, request, coord, replay>>
  BY DEF StartMonitor, Retire, PolicySale, nodeVars, storeVars, idleVars
<1>2. PairCreated # p /\ PairCreated \in Listeners
  BY ChainAssumption, ConstantsTyped
<1>3. CASE StartMonitor(p)
  BY <1>1, <1>3, BesideReplays DEF StartMonitor
<1>4. CASE Retire(p)
  <2>1. On' = On \ {p}
    BY <1>4, AtCoord DEF Retire, On
  <2>2. \A l \in On' \cup {PairCreated} : checkpoint'[l] = checkpoint[l]
    <3>1. checkpoint' = [checkpoint EXCEPT ![p] = None] /\ checkpoint \in [Listeners -> Chains]
      BY <1>4 DEF Retire, ChainInv
    <3>2. On' \subseteq Listeners
      BY <2>1, ConstantsTyped DEF On
    <3> QED
      BY <1>2, <2>1, <3>1, <3>2
  <2> QED
    BY <1>1, <2>1, <2>2, BesideReplays
<1>5. CASE PolicySale(p)
  <2>1. UNCHANGED <<checkpoint, monitor>>
    BY <1>5 DEF PolicySale, idleVars, monitors
  <2>2. On' = On
    BY <2>1 DEF On
  <2> QED
    BY <1>1, <2>1, <2>2, BesideReplays
<1> QED
  BY <1>3, <1>4, <1>5

LEMMA AskReplays ==
  ASSUME ChainInv, ReplayInv, Ask \/ DropAsked \/ UNCHANGED vars
  PROVE  ReplayInv'
<1>1. UNCHANGED <<chain, cutoff, request, coord, replay, checkpoint, monitor>>
  BY DEF Ask, DropAsked, vars, nodeVars, storeVars, idleVars, monitors
<1>2. On' = On
  BY <1>1 DEF On
<1> QED
  BY <1>1, <1>2, BesideReplays

LEMMA RestartReplays ==
  ASSUME ChainInv, Restart
  PROVE  ReplayInv'
<1>1. /\ coord' = [state |-> "HEALTHY", ready |-> FALSE, last |-> NoReorg, pending |-> <<>>]
      /\ request' = Idle /\ replay' = NoReplay /\ chain' = chain
  BY DEF Restart
<1>2. coord'.pending = <<>> /\ coord'.state = "HEALTHY" /\ request'.pc = "idle"
      /\ coord'.last[2] = None /\ replay'.step = "none"
  BY <1>1 DEF Idle, NoReplay, NoReorg
<1>3. Len(None) = 0
  BY DEF None
<1>4. HeadsSound'
  BY <1>1, <1>2, <1>3, AtChain DEF HeadsSound
<1>5. ReadSound' /\ StepsSound'
  BY <1>2 DEF ReadSound, StepsSound, InReplay
<1> QED
  BY <1>2, <1>4, <1>5 DEF ReplayInv, InReplay

LEMMA ReplayInit == Init => ReplayInv
<1> SUFFICES ASSUME Init PROVE ReplayInv
  OBVIOUS
<1>1. /\ coord = [state |-> "HEALTHY", ready |-> FALSE, last |-> NoReorg, pending |-> <<>>]
      /\ request = Idle /\ replay = NoReplay /\ chain = <<1>>
  BY DEF Init
<1>2. coord.pending = <<>> /\ coord.state = "HEALTHY" /\ request.pc = "idle"
      /\ coord.last[2] = None /\ replay.step = "none"
  BY <1>1 DEF Idle, NoReplay, NoReorg
<1>3. Len(None) = 0 /\ Len(chain) = 1
  BY <1>1 DEF None
<1>4. HeadsSound
  BY <1>2, <1>3 DEF HeadsSound
<1>5. ReadSound /\ StepsSound
  BY <1>2 DEF ReadSound, StepsSound, InReplay
<1> QED
  BY <1>2, <1>4, <1>5 DEF ReplayInv, InReplay

\* Every step keeps what a replay has reached.
LEMMA ReplayNext == ASSUME ChainInv, ReplayInv, [Next]_vars PROVE ReplayInv'
<1>1. CASE Extend \/ Replace
  BY <1>1, NodeReplays
<1>2. CASE Reading
  BY <1>2, PairsRequestReplays, SwapsRequestReplays, HeaderReplays, ThrowsReplay, PersistReplays,
     LogReplays, CommitReplays, PruneReplays DEF Reading
<1>3. CASE RollingBack
  BY <1>3, WalkReplays, ThrowsReplay, DivergeReplays, RewindReplays, ProjectReplays DEF RollingBack
<1>4. CASE Replaying
  BY <1>4, ReplayStepsReplay, CompleteReplays DEF Replaying
<1>5. CASE Faulting
  BY <1>1, <1>5, ThrowsReplay, RestartReplays DEF Faulting
<1>6. CASE Beside
  BY <1>6, AskReplays, PairReplays DEF Beside
<1>7. CASE UNCHANGED vars
  BY <1>7, AskReplays
<1> QED
  BY <1>1, <1>2, <1>3, <1>4, <1>5, <1>6, <1>7 DEF Next

\* The inductive invariant of the replay holds in every reachable state: every
\* request of a replay reads up to the tip that won, from the checkpoints it moves
\* (finalizePendingReorg, processChunk).
THEOREM ReplayInvariant == Spec => []ReplayInv
<1>1. ChainInv /\ ReplayInv /\ [Next]_vars => ReplayInv'
  BY ReplayNext
<1>2. Init => ReplayInv
  BY ReplayInit
<1> QED
  BY <1>1, <1>2, ChainInvariant, PTL DEF Spec

\* Only the end of a replay makes the chain healthy, and only of an undisturbed one.
LEMMA OnlyComplete ==
  ASSUME ChainInv, Next, coord.state = "RECONCILING", coord'.state = "HEALTHY", ~Restart
  PROVE  Complete /\ ~replay.again
<1>1. ASSUME coord' = coord PROVE FALSE
  BY <1>1
<1>2. ASSUME NEW state \in {"RECONCILING", "MANUAL_REVIEW"}, NEW ready \in BOOLEAN,
             NEW last \in Chains \X Chains,
             coord' = Status(state, ready, last)
      PROVE  FALSE
  <2>1. coord' = [state |-> state, ready |-> ready, last |-> last, pending |-> coord.pending]
    BY <1>2, AtCoord, StatusIs DEF States
  <2> QED
    BY <2>1
<1>3. CASE Extend \/ Replace
  BY <1>1, <1>3 DEF Extend, Replace, idleVars
<1>4. CASE Reading
  BY <1>1, <1>4 DEF Reading, PairsRequest, SwapsRequest, TipHolds, TipDiverges, ScanHeader, ScanThrows,
     PersistJournal, ReadLogs, ChunkThrows, AdmitPair, HandleSwap, CommitChunk, Prune, requestOnly, idleVars
<1>5. CASE RollingBack
  <2>1. CASE ReadNewTip \/ Walk \/ NoAncestor \/ WalkThrows \/ Rewind
    BY <1>1, <2>1 DEF ReadNewTip, Walk, NoAncestor, WalkThrows, Rewind, requestOnly, idleVars
  <2>2. CASE Diverge
    <3>1. PICK last : last = Reorg
      OBVIOUS
    <3>2. last \in Chains \X Chains
      BY <2>2, <3>1, AtRequest, AtChain DEF Diverge, Reorg
    <3> QED
      BY <1>2, <2>2, <3>1, <3>2 DEF Diverge
  <2>3. PICK last : last = coord.last
    OBVIOUS
  <2>4. last \in Chains \X Chains
    BY <2>3, LastTyped
  <2>5. CASE DeepReorg
    BY <1>2, <2>3, <2>4, <2>5 DEF DeepReorg
  <2>6. CASE Project
    <3>1. CASE Lost # {}
      BY <1>2, <2>3, <2>4, <2>6, <3>1 DEF Project
    <3>2. CASE Lost = {}
      <4>1. PICK st : st = Status("RECONCILING", TRUE, last)
        OBVIOUS
      <4>2. PICK pending : coord' = [st EXCEPT !.pending = pending]
        BY <2>3, <2>6, <3>2, <4>1 DEF Project
      <4>3. st = [state |-> "RECONCILING", ready |-> TRUE, last |-> last, pending |-> coord.pending]
        BY <2>4, <4>1, AtCoord, StatusIs DEF States
      <4> QED
        BY <4>2, <4>3
    <3> QED
      BY <3>1, <3>2
  <2> QED
    BY <1>5, <2>1, <2>2, <2>5, <2>6 DEF RollingBack
<1>6. CASE Finalize \/ AdmitReplay \/ SkipStep
  BY <1>1, <1>6 DEF Finalize, AdmitReplay, SkipStep
<1>7. CASE Complete
  <2>1. PICK c, S : c = coord /\ S = Seq(DOMAIN audit)
    OBVIOUS
  <2>2. c \in [state : States, ready : BOOLEAN, last : Chains \X Chains, pending : S]
    BY <2>1, AtCoord DEF CoordSound
  <2>3. PICK pending, healthy, ready :
          /\ healthy = (~replay.again /\ c.state = "RECONCILING" /\ Head(c.pending) = c.last)
          /\ coord' = [c EXCEPT !.pending = pending,
                                !.state = IF healthy THEN "HEALTHY" ELSE c.state, !.ready = ready]
    BY <1>7, <2>1 DEF Complete
  <2>4. coord'.state = IF healthy THEN "HEALTHY" ELSE c.state
    BY <2>2, <2>3
  <2> QED
    BY <1>7, <2>1, <2>3, <2>4
<1>8. CASE Faulting
  BY <1>1, <1>3, <1>8 DEF Faulting, RpcFails, HandlingFails, HandlerFails
<1>9. CASE Beside
  BY <1>1, <1>9 DEF Beside, Ask, DropAsked, StartMonitor, Retire, PolicySale, idleVars
<1> QED
  BY <1>3, <1>4, <1>5, <1>6, <1>7, <1>8, <1>9 DEF Next, Replaying

\* The chain is healthy again only once PairCreated and every listener that is on
\* have read at least up to the tip that won, whatever reorganisations, failures,
\* sales and retirements come between (finalizePendingReorg, completeReorg).
THEOREM ReplaysAreComplete == Spec => HealthyReplayed
<1> DEFINE Healed == coord.state = "RECONCILING" /\ coord'.state = "HEALTHY" /\ ~Restart =>
                       \A l \in On \cup {PairCreated} : Len(checkpoint[l]) >= Len(coord.last[2])
<1>1. ChainInv /\ ReplayInv /\ [Next]_vars => [Healed]_vars
  <2> SUFFICES ASSUME ChainInv, ReplayInv, Next, coord.state = "RECONCILING", coord'.state = "HEALTHY",
                      ~Restart
               PROVE  \A l \in On \cup {PairCreated} : Len(checkpoint[l]) >= Len(coord.last[2])
    OBVIOUS
  <2>1. Complete /\ ~replay.again
    BY OnlyComplete
  <2>2. replay.step = "complete" /\ request.pc = "idle"
    BY <2>1 DEF Complete, Idle
  <2>3. Undisturbed
    BY <2>1, <2>2 DEF Undisturbed
  <2> QED
    BY <2>2, <2>3 DEF ReplayInv, StepsSound
<1> QED
  BY <1>1, ChainInvariant, ReplayInvariant, PTL DEF Spec, HealthyReplayed

------------------------------------------------------------------------------
(* What a step does to the request, the node and the stored tip.            *)

\* The steps that leave the request alone, and those that end it.
Aside == \/ Extend \/ Replace \/ Ask \/ DropAsked \/ Replaying
         \/ \E p \in Pairs : StartMonitor(p) \/ Retire(p) \/ PolicySale(p)
Ending == \/ RpcFails \/ ScanThrows \/ ChunkThrows \/ HandlingFails \/ WalkThrows \/ HandlerFails
          \/ DeepReorg \/ Prune \/ Project
Going == \/ PairsRequest \/ SwapsRequest \/ TipHolds \/ TipDiverges \/ ScanHeader \/ PersistJournal
         \/ ReadLogs \/ AdmitPair \/ HandleSwap \/ CommitChunk \/ ReadNewTip \/ Walk \/ NoAncestor
         \/ Diverge \/ Rewind

LEMMA StepIs ==
  ASSUME Next
  PROVE  Aside \/ Ending \/ Going \/ Restart
<1> QED
  BY DEF Next, Aside, Ending, Going, Reading, RollingBack, Faulting, Beside

LEMMA AsideIs == ASSUME Aside PROVE request' = request
<1>1. ASSUME NEW p \in Pairs, StartMonitor(p) \/ Retire(p) \/ PolicySale(p) PROVE request' = request
  BY <1>1 DEF StartMonitor, Retire, PolicySale
<1> QED
  BY <1>1 DEF Aside, Extend, Replace, Ask, DropAsked, Replaying, Finalize, AdmitReplay, SkipStep, Complete

LEMMA EndingIs == ASSUME Ending PROVE request' = Idle /\ request.pc # "idle"
<1>1. request' = Idle
  BY DEF Ending, RpcFails, ScanThrows, ChunkThrows, HandlingFails, WalkThrows, HandlerFails,
         DeepReorg, Prune, Project, Throw, Return
<1>2. request.pc # "idle"
  BY DEF Ending, RpcFails, ScanThrows, ChunkThrows, AtChunk, HandlingFails, WalkThrows, HandlerFails,
         DeepReorg, Prune, Project
<1> QED
  BY <1>1, <1>2

LEMMA OnlyNode ==
  ASSUME [Next]_vars, chain' # chain
  PROVE  Extend \/ Replace
<1>1. ASSUME Aside PROVE Extend \/ Replace
  <2>1. ASSUME NEW p \in Pairs, StartMonitor(p) \/ Retire(p) \/ PolicySale(p) PROVE chain' = chain
    BY <2>1 DEF StartMonitor, Retire, PolicySale, nodeVars
  <2> QED
    BY <1>1, <2>1 DEF Aside, Ask, DropAsked, Replaying, Finalize, AdmitReplay, SkipStep, Complete, nodeVars
<1>2. ~Ending
  BY DEF Ending, RpcFails, ScanThrows, ChunkThrows, HandlingFails, WalkThrows, HandlerFails,
         DeepReorg, Prune, Project, nodeVars
<1>3. ~Going
  BY Zenon DEF Going, PairsRequest, SwapsRequest, TipHolds, TipDiverges, ScanHeader, PersistJournal,
         ReadLogs, AdmitPair, HandleSwap, CommitChunk, ReadNewTip, Walk, NoAncestor,
         Diverge, Rewind, requestOnly, nodeVars
<1>4. ~Restart
  BY DEF Restart
<1> QED
  BY <1>1, <1>2, <1>3, <1>4, StepIs DEF vars, nodeVars

\* After a rollback the ancestor is the tip.
LEMMA RewoundTip ==
  ASSUME ChainInv, Rewind, coord.last \notin DOMAIN audit
  PROVE  Tip' = request.scan
<1>1. PICK t : t = request.scan
  OBVIOUS
<1>2. request.pc = "rewind" /\ t # None /\ journal' = {h \in journal : Len(h) <= Len(t)}
  BY <1>1 DEF Rewind
<1>3. t \in journal
  BY <1>1, <1>2, AtCoord DEF RequestSound
<1>4. t \in Chains /\ IsPrefix(t, Tip) /\ Len(t) \in Nat
  BY <1>3, AtChain
<1>5. t \in journal' /\ journal' \subseteq journal
  BY <1>2, <1>3, <1>4
<1>6. \A h \in journal' : h \in Chains /\ IsPrefix(h, t)
  BY <1>2, <1>4, <1>5, AtChain, ShorterPrefix
<1> QED
  BY <1>1, <1>5, <1>6, TipIsPrime

LEMMA FreshTip == ASSUME ChainInv, Restart PROVE Tip' = chain
<1>1. PICK t : t = chain
  OBVIOUS
<1>2. journal' = {t} /\ t \in Chains
  BY <1>1, AtChain DEF Restart
<1>3. t \in journal' /\ journal' \subseteq Chains /\ \A h \in journal' : IsPrefix(h, t)
  BY <1>2, PrefixOfItself
<1> QED
  BY <1>1, <1>3, TipIsPrime

\* The stored tip moves with the journal of a request, back to the ancestor, and
\* to the cutoff of the next process.
LEMMA TipMoves ==
  ASSUME ChainInv, [Next]_vars
  PROVE  \/ Tip' = Tip
         \/ PersistJournal /\ request.save /\ Tip' = request.scan
         \/ Rewind /\ coord.last \notin DOMAIN audit /\ Tip' = request.scan
         \/ Restart /\ Tip' = chain
<1>1. ASSUME journal' = journal PROVE Tip' = Tip
  BY <1>1 DEF Tip
<1>2. CASE PersistJournal
  <2>1. CASE request.save
    <3>1. ChainInv'
      BY ChainNext
    <3>2. request.pc = "scan" /\ request' = [request EXCEPT !.pc = "chunk", !.kept = request.save]
      BY <1>2 DEF PersistJournal
    <3>3. request \in RequestRecord
      BY <3>2, AtRequest
    <3>4. request'.pc = "chunk" /\ request'.scan = request.scan
      BY <3>2, <3>3 DEF RequestRecord
    <3>5. RequestSound(request', journal', Tip', chain', cutoff')
      BY <3>1 DEF ChainInv
    <3>6. request'.scan = Tip'
      BY <3>4, <3>5 DEF RequestSound
    <3> QED
      BY <1>2, <2>1, <3>4, <3>6
  <2>2. CASE ~request.save
    <3>1. PICK saved : /\ saved = {}
                       /\ journal' = saved \cup {h \in journal : \A g \in saved : Len(g) # Len(h)}
      BY <1>2, <2>2 DEF PersistJournal
    <3>2. journal' = journal
      BY <3>1
    <3> QED
      BY <1>1, <3>2
  <2> QED
    BY <2>1, <2>2
<1>3. CASE Rewind
  <2>1. CASE coord.last \in DOMAIN audit
    BY <1>1, <1>3, <2>1 DEF Rewind
  <2>2. CASE coord.last \notin DOMAIN audit
    BY <1>3, <2>2, RewoundTip
  <2> QED
    BY <2>1, <2>2
<1>4. CASE Prune
  <2>1. CASE request.kept
    <3>1. request.pc = "chunk" /\ journal' = {h \in journal : Len(h) >= JournalStart(request.head)}
      BY <1>4, <2>1 DEF Prune
    <3>2. JournalStart(request.head) \in Nat /\ JournalStart(request.head) <= Len(Tip)
      BY <3>1, AtRequest, JournalStartIs
    <3>3. PICK t : t = Tip
      OBVIOUS
    <3>4. t \in journal' /\ journal' \subseteq Chains /\ \A h \in journal' : IsPrefix(h, t)
      BY <3>1, <3>2, <3>3, AtChain
    <3> QED
      BY <3>3, <3>4, TipIsPrime
  <2>2. CASE ~request.kept
    BY <1>1, <1>4, <2>2 DEF Prune
  <2> QED
    BY <2>1, <2>2
<1>5. CASE Restart
  BY <1>5, FreshTip
<1>6. ASSUME Aside PROVE journal' = journal
  <2>1. ASSUME NEW p \in Pairs, StartMonitor(p) \/ Retire(p) \/ PolicySale(p) PROVE journal' = journal
    BY <2>1 DEF StartMonitor, Retire, PolicySale, storeVars
  <2> QED
    BY <1>6, <2>1 DEF Aside, Extend, Replace, Ask, DropAsked, Replaying, Finalize, AdmitReplay,
                      SkipStep, Complete, storeVars
<1>7. ASSUME Ending, ~Prune PROVE journal' = journal
  BY <1>7 DEF Ending, RpcFails, ScanThrows, ChunkThrows, HandlingFails, WalkThrows, HandlerFails,
         DeepReorg, Project, storeVars
<1>8. ASSUME Going, ~PersistJournal, ~Rewind PROVE journal' = journal
  BY <1>8, Zenon DEF Going, PairsRequest, SwapsRequest, TipHolds, TipDiverges, ScanHeader,
         ReadLogs, AdmitPair, HandleSwap, CommitChunk, ReadNewTip, Walk, NoAncestor,
         Diverge, requestOnly, storeVars
<1>9. ASSUME UNCHANGED vars PROVE journal' = journal
  BY <1>9 DEF vars, storeVars
<1> QED
  BY <1>1, <1>2, <1>3, <1>4, <1>5, <1>6, <1>7, <1>8, <1>9, StepIs


------------------------------------------------------------------------------
(* Forks that do not come back: what the node has left, it has left for good. *)

\* h was on the node's chain once.
Below(h) == Len(h) <= Len(chain) /\ \A i \in 1..Len(h) : h[i] <= chain[i]

\* The labels of the chain are in use, and everything stored was read from the node.
BelowInv ==
  /\ \A i \in 1..Len(chain) : chain[i] <= Forks + 1 - left.forks
  /\ Below(Tip)
  /\ \A p \in DOMAIN asked : Below(asked[p])
  /\ Below(request.anchor) /\ Below(request.scan)
  /\ \A id \in DOMAIN audit : id[1] \in Chains /\ Below(id[1])
  /\ Below(coord.last[1])

\* The node has left the chain h, or never had it.
Abandoned(h) == ~IsPrefix(h, chain)

\* The node goes on to labels that are new at their height.
Moved == /\ chain \in Chains /\ chain' \in Chains /\ Len(chain) <= Len(chain')
         /\ \A i \in 1..Len(chain) : chain[i] <= chain'[i]

LEMMA BelowPrefix ==
  ASSUME NEW g \in Chains, NEW h \in Chains, IsPrefix(h, g), Below(g), chain \in Chains
  PROVE  Below(h)
<1>1. Len(h) <= Len(g) /\ \A i \in 1..Len(h) : h[i] = g[i]
  BY PrefixIs
<1>2. Len(h) \in Nat /\ Len(g) \in Nat /\ Len(chain) \in Nat
  BY DEF Chains
<1> QED
  BY <1>1, <1>2 DEF Below

LEMMA BelowChain ==
  ASSUME NEW h \in Chains, IsPrefix(h, chain), chain \in Chains
  PROVE  Below(h)
<1>1. PICK c : c = chain
  OBVIOUS
<1>2. c \in Chains /\ IsPrefix(h, c)
  BY <1>1
<1>3. Len(h) <= Len(c) /\ \A i \in 1..Len(h) : h[i] = c[i]
  BY <1>2, PrefixIs
<1>4. \A i \in 1..Len(c) : c[i] \in Nat
  BY <1>2, ConstantsTyped DEF Chains, Labels
<1>5. Len(h) \in Nat /\ Len(c) \in Nat
  BY <1>2 DEF Chains
<1>6. \A i \in 1..Len(h) : h[i] <= c[i]
  BY <1>3, <1>4, <1>5
<1> QED
  BY <1>1, <1>3, <1>6 DEF Below

LEMMA BelowNone == ASSUME chain \in Chains PROVE Below(None)
<1>1. Len(None) = 0 /\ Len(chain) \in Nat
  BY DEF None, Chains
<1> QED
  BY <1>1 DEF Below

LEMMA BelowStays ==
  ASSUME NEW h \in Chains, Below(h), Moved
  PROVE  Below(h)'
<1>1. PICK c, d : c = chain /\ d = chain'
  OBVIOUS
<1>2. c \in Chains /\ d \in Chains /\ Len(c) <= Len(d) /\ \A i \in 1..Len(c) : c[i] <= d[i]
  BY <1>1 DEF Moved
<1>3. Len(h) <= Len(c) /\ \A i \in 1..Len(h) : h[i] <= c[i]
  BY <1>1 DEF Below
<1>4. Len(h) \in Nat /\ Len(c) \in Nat /\ Len(d) \in Nat
  BY <1>2 DEF Chains
<1>5. /\ \A i \in 1..Len(h) : h[i] \in Int
      /\ \A i \in 1..Len(c) : c[i] \in Int
      /\ \A i \in 1..Len(d) : d[i] \in Int
  BY <1>2, ConstantsTyped DEF Chains, Labels
<1>6. ASSUME NEW i \in 1..Len(h) PROVE h[i] <= d[i]
  <2>1. i \in 1..Len(c) /\ i \in 1..Len(d)
    BY <1>2, <1>3, <1>4
  <2>2. h[i] <= c[i] /\ c[i] <= d[i]
    BY <1>2, <1>3, <2>1
  <2>3. h[i] \in Int /\ c[i] \in Int /\ d[i] \in Int
    BY <1>5, <2>1
  <2> QED
    BY <2>2, <2>3
<1> QED
  BY <1>1, <1>2, <1>3, <1>4, <1>6 DEF Below

\* A chain that the node has left does not become its chain again.
LEMMA AbandonedStays ==
  ASSUME NEW h \in Chains, Below(h), Moved, Abandoned(h)
  PROVE  Abandoned(h)'
<1>1. PICK c, d : c = chain /\ d = chain'
  OBVIOUS
<1>2. c \in Chains /\ d \in Chains /\ Len(c) <= Len(d) /\ \A i \in 1..Len(c) : c[i] <= d[i]
  BY <1>1 DEF Moved
<1>3. Len(h) <= Len(c) /\ \A i \in 1..Len(h) : h[i] <= c[i]
  BY <1>1 DEF Below
<1>4. Len(h) \in Nat /\ Len(c) \in Nat /\ Len(d) \in Nat
  BY <1>2 DEF Chains
<1>5. /\ \A i \in 1..Len(h) : h[i] \in Int
      /\ \A i \in 1..Len(c) : c[i] \in Int
      /\ \A i \in 1..Len(d) : d[i] \in Int
  BY <1>2, ConstantsTyped DEF Chains, Labels
<1>6. SUFFICES ASSUME IsPrefix(h, d) PROVE IsPrefix(h, c)
  BY <1>1 DEF Abandoned
<1>7. \A i \in 1..Len(h) : h[i] = d[i]
  BY <1>2, <1>6, PrefixIs
<1>8. \A i \in 1..Len(h) : h[i] = c[i]
  BY <1>2, <1>3, <1>4, <1>5, <1>7
<1> QED
  BY <1>2, <1>3, <1>8, PrefixIs

\* Of an abandoned chain every continuation is abandoned.
LEMMA AbandonedPrefix ==
  ASSUME NEW g \in Chains, NEW h \in Chains, IsPrefix(g, h), Abandoned(g), chain \in Chains
  PROVE  Abandoned(h)
<1>1. PICK c : c = chain
  OBVIOUS
<1> QED
  BY <1>1, PrefixThrough DEF Abandoned

LEMMA NodeIsMoved ==
  ASSUME ChainInv, BelowInv, ~Comeback, [Next]_vars
  PROVE  /\ Moved
         /\ \A i \in 1..Len(chain') : chain'[i] <= Forks + 1 - left'.forks
<1>1. PICK c, d, k : c = chain /\ d = chain' /\ k = Forks + 1 - left.forks
  OBVIOUS
<1>2. c \in Chains /\ Len(c) \in Nat /\ Len(c) >= 1 /\ d \in Chains
  <2>1. ChainInv'
    BY ChainNext
  <2> QED
    BY <1>1, <2>1, AtChain DEF ChainInv
<1>3. left \in [forks : Nat, faults : Nat, all : Nat] /\ Forks \in Nat /\ k \in Int
  BY <1>1, AtCoord, ConstantsTyped
<1>4. \A i \in 1..Len(c) : c[i] \in Nat /\ c[i] <= k
  BY <1>1, <1>2, ConstantsTyped DEF BelowInv, Chains, Labels
<1>5. CASE chain' = chain
  <2>1. left'.forks <= left.forks /\ left'.forks \in Nat
    <3>1. left' = left \/ Spend("faults") \/ Spend("forks")
      <4>1. ASSUME Aside PROVE left' = left \/ Spend("faults") \/ Spend("forks")
        <5>1. ASSUME NEW p \in Pairs, StartMonitor(p) \/ Retire(p) \/ PolicySale(p)
              PROVE  left' = left \/ Spend("faults")
          BY <5>1 DEF StartMonitor, Retire, PolicySale
        <5> QED
          BY <4>1, <5>1 DEF Aside, Extend, Replace, Ask, DropAsked, Replaying, Finalize, AdmitReplay,
                            SkipStep, Complete
      <4>2. ASSUME Ending PROVE left' = left \/ Spend("faults")
        BY <4>2 DEF Ending, RpcFails, ScanThrows, ChunkThrows, HandlingFails, WalkThrows, HandlerFails,
                    DeepReorg, Prune, Project
      <4>3. ASSUME Going PROVE left' = left
        BY <4>3 DEF Going, PairsRequest, SwapsRequest, TipHolds, TipDiverges, ScanHeader, PersistJournal,
                    ReadLogs, AdmitPair, HandleSwap, CommitChunk, ReadNewTip, Walk, NoAncestor,
                    Diverge, Rewind, requestOnly, idleVars
      <4>4. ASSUME Restart PROVE Spend("faults")
        BY <4>4 DEF Restart
      <4> QED
        BY <4>1, <4>2, <4>3, <4>4, StepIs DEF vars
    <3>2. ASSUME Spend("faults") \/ Spend("forks") PROVE left'.forks <= left.forks /\ left'.forks \in Nat
      <4>1. left' \in [forks : Nat, faults : Nat, all : Nat]
        BY <1>3, <3>2, SpendKeeps
      <4>2. left'.forks = left.forks \/ left'.forks = left.forks - 1
        BY <1>3, <3>2 DEF Spend
      <4> QED
        BY <1>3, <4>1, <4>2
    <3> QED
      BY <1>3, <3>1, <3>2
  <2>2. k <= Forks + 1 - left'.forks /\ Forks + 1 - left'.forks \in Int
    <3>1. left.forks \in Nat
      BY <1>3
    <3> QED
      BY <1>1, <1>3, <2>1, <3>1
  <2>3. PICK m : m = Forks + 1 - left'.forks
    OBVIOUS
  <2>4. \A i \in 1..Len(c) : c[i] <= m
    BY <1>3, <1>4, <2>2, <2>3
  <2>5. Moved
    <3>1. \A i \in 1..Len(c) : c[i] <= c[i]
      BY <1>4
    <3> QED
      BY <1>1, <1>2, <1>5, <3>1 DEF Moved
  <2>6. \A i \in 1..Len(chain') : chain'[i] <= m
    BY <1>1, <1>5, <2>4
  <2> QED
    BY <2>3, <2>5, <2>6
<1>6. CASE Extend
  <2>1. d = Append(c, Last(c)) /\ left' = left
    BY <1>1, <1>6 DEF Extend
  <2>2. Last(c) \in Labels /\ Last(c) = c[Len(c)]
    BY <1>2 DEF Chains, Last
  <2>3. Len(d) = Len(c) + 1 /\ \A i \in 1..Len(d) : d[i] = IF i <= Len(c) THEN c[i] ELSE Last(c)
    BY <1>2, <2>1, <2>2 DEF Chains
  <2> HIDE DEF Last
  <2>4. \A i \in 1..Len(d) : d[i] <= k
    BY <1>2, <1>4, <2>2, <2>3
  <2>5. \A i \in 1..Len(c) : c[i] <= d[i]
    BY <1>2, <1>4, <2>3
  <2> QED
    BY <1>1, <1>2, <2>1, <2>3, <2>4, <2>5 DEF Moved
<1>7. CASE Replace
  <2>1. PICK n \in 2..Len(c), f \in Labels :
          f = Forks + 2 - left.forks /\ d = [i \in 1..Len(c) |-> IF i < n THEN c[i] ELSE f]
    BY <1>1, <1>7 DEF Replace
  <2>2. left'.forks = left.forks - 1
    BY <1>3, <1>7 DEF Replace, Spend
  <2>3. f = k + 1 /\ f = Forks + 1 - left'.forks
    BY <1>1, <1>3, <2>1, <2>2
  <2>4. Len(d) = Len(c)
    BY <1>2, <2>1 DEF Chains
  <2>5. \A i \in 1..Len(c) : c[i] <= d[i] /\ d[i] <= f
    BY <1>3, <1>4, <2>1, <2>3
  <2> QED
    BY <1>1, <1>2, <2>3, <2>4, <2>5 DEF Moved
<1> QED
  BY <1>5, <1>6, <1>7, OnlyNode


LEMMA BelowStored ==
  ASSUME ChainInv, BelowInv
  PROVE  \A l \in Listeners : checkpoint[l] \in Chains /\ Below(checkpoint[l])
<1> TAKE l \in Listeners
<1>1. PICK h, t : h = checkpoint[l] /\ t = Tip
  OBVIOUS
<1>2. h \in Chains /\ t \in Chains /\ IsPrefix(h, t) /\ chain \in Chains
  BY <1>1, AtChain
<1>3. Below(t)
  BY <1>1 DEF BelowInv
<1> QED
  BY <1>1, <1>2, <1>3, BelowPrefix

\* What a request has read, it has read from the node or the store.
LEMMA BelowRead ==
  ASSUME ChainInv, BelowInv, [Next]_vars
  PROVE  \A h : h = request'.anchor \/ h = request'.scan => h \in Chains /\ Below(h)
<1>1. request \in RequestRecord /\ chain \in Chains /\ Tip \in Chains
  BY AtCoord, AtChain DEF RequestSound
<1>2. \A h : h = request.anchor \/ h = request.scan \/ h = Tip \/ h = None => h \in Chains /\ Below(h)
  BY <1>1, BelowNone, NoneIsPrefix DEF BelowInv, RequestRecord
<1>3. ASSUME request' = Idle PROVE request'.anchor = None /\ request'.scan = None
  BY <1>3 DEF Idle
<1>4. CASE PairsRequest
  <2>1. PICK h : h = checkpoint[PairCreated]
    OBVIOUS
  <2>2. request'.anchor = h /\ request'.scan = None
    BY <1>4, <2>1 DEF PairsRequest, Start, Idle
  <2>3. h \in Chains /\ Below(h)
    BY <2>1, BelowStored, ConstantsTyped
  <2> QED
    BY <1>2, <2>2, <2>3
<1>5. CASE SwapsRequest
  <2>1. PICK targets : targets = IF InReplay THEN Snapshot ELSE asked
    OBVIOUS
  <2>2. PICK anchor : anchor = IF Anchors(targets) = {} THEN None ELSE CHOOSE c \in Anchors(targets) : TRUE
    OBVIOUS
  <2>3. request'.anchor = anchor /\ request'.scan = None
    BY <1>5, <2>1, <2>2 DEF SwapsRequest, Start, Idle
  <2>4. \A p \in DOMAIN targets : targets[p] \in Chains /\ Below(targets[p])
    <3>1. CASE InReplay
      <4>1. DOMAIN Snapshot = On /\ On \subseteq Listeners /\ \A p \in On : Snapshot[p] = checkpoint[p]
        BY ConstantsTyped DEF Snapshot, On
      <4> QED
        BY <2>1, <3>1, <4>1, BelowStored
    <3>2. CASE ~InReplay
      BY <2>1, <3>2, AtCoord DEF BelowInv
    <3> QED
      BY <3>1, <3>2
  <2>5. \A c \in Anchors(targets) : \E p \in DOMAIN targets : c = targets[p]
    BY DEF Anchors
  <2>6. anchor = None \/ \E p \in DOMAIN targets : anchor = targets[p]
    BY <2>2, <2>5
  <2>7. anchor \in Chains /\ Below(anchor)
    BY <1>2, <2>4, <2>6
  <2> QED
    BY <1>2, <2>3, <2>7
<1>6. CASE TipHolds
  <2>1. PICK at, first, save, scan :
          /\ scan \in {Tip, request.anchor, None}
          /\ request' = [request EXCEPT !.pc = "scan", !.at = at, !.first = first, !.save = save, !.scan = scan]
    BY <1>6 DEF TipHolds
  <2>2. request'.scan = scan /\ request'.anchor = request.anchor
    BY <1>1, <2>1 DEF RequestRecord
  <2> QED
    BY <1>2, <2>1, <2>2
<1>7. ASSUME NEW n \in 0..Len(chain)
      PROVE  \A h : h = Upto(chain, n) => h \in Chains /\ Below(h)
  <2>1. PICK c : c = chain
    OBVIOUS
  <2>2. Upto(c, n) \in Chains /\ IsPrefix(Upto(c, n), c)
    BY <1>1, <1>7, <2>1, UptoIs, UptoIsPrefix
  <2> QED
    BY <1>1, <2>1, <2>2, BelowChain
<1>8. CASE TipDiverges
  <2>1. PICK n : n = Len(Tip)
    OBVIOUS
  <2>2. request' = [request EXCEPT !.pc = "new tip", !.scan = Upto(chain, n)]
    BY <1>8, <2>1 DEF TipDiverges
  <2>3. request'.scan = Upto(chain, n) /\ request'.anchor = request.anchor
    BY <1>1, <2>2 DEF RequestRecord
  <2>4. n \in 0..Len(chain)
    BY <2>1, AtChain
  <2> QED
    BY <1>2, <1>7, <2>3, <2>4
<1>9. CASE ScanHeader
  <2>1. PICK n : n = request.at
    OBVIOUS
  <2>2. request.pc = "scan" /\ n <= request.head
        /\ request' = [request EXCEPT !.scan = Upto(chain, n), !.at = n + 1]
    BY <1>9, <2>1 DEF ScanHeader
  <2>3. request'.scan = Upto(chain, n) /\ request'.anchor = request.anchor
    BY <1>1, <2>2 DEF RequestRecord
  <2>4. n \in 0..Len(chain)
    BY <2>1, <2>2, AtRequest, AtChain DEF ScanSound
  <2> QED
    BY <1>2, <1>7, <2>3, <2>4
<1>10. CASE Walk
  <2>1. PICK n, remote : n = request.at /\ remote = Upto(chain, n)
    OBVIOUS
  <2>2. request.pc = "walk"
        /\ \/ request' = [request EXCEPT !.pc = "verify", !.scan = remote]
           \/ request' = [request EXCEPT !.at = n - 1]
    BY <1>10, <2>1 DEF Walk
  <2>3. request'.anchor = request.anchor /\ request'.scan \in {remote, request.scan}
    BY <1>1, <2>2 DEF RequestRecord
  <2>4. n \in 0..Len(chain)
    <3>1. PICK h \in Known : Len(h) = n
      BY <1>10, <2>1 DEF Walk, InWindow
    <3>2. h \in Chains /\ IsPrefix(h, Tip) /\ n \in Nat
      BY <3>1, KnownIs, AtChain
    <3>3. n <= Len(Tip)
      BY <1>1, <3>1, <3>2, PrefixIs
    <3> QED
      BY <3>2, <3>3, AtChain
  <2> QED
    BY <1>2, <1>7, <2>1, <2>3, <2>4
<1>11. CASE NoAncestor
  <2>1. request' = [request EXCEPT !.pc = "verify", !.scan = None]
    BY <1>11 DEF NoAncestor
  <2>2. request'.anchor = request.anchor /\ request'.scan = None
    BY <1>1, <2>1 DEF RequestRecord
  <2> QED
    BY <1>2, <2>2
<1>12. ASSUME \/ PersistJournal \/ ReadLogs \/ AdmitPair \/ HandleSwap \/ CommitChunk \/ ReadNewTip
              \/ Diverge \/ Rewind
       PROVE  request'.anchor = request.anchor /\ request'.scan = request.scan
  BY <1>1, <1>12, ZenonT(30) DEF PersistJournal, ReadLogs, AdmitPair, HandleSwap, CommitChunk, ReadNewTip, Diverge,
                     Rewind, NextLog, RequestRecord
<1>13. CASE Aside \/ Ending \/ Restart \/ UNCHANGED vars
  <2>1. request' = Idle \/ request' = request
    BY <1>13, AsideIs, EndingIs DEF Restart, vars
  <2> QED
    BY <1>2, <1>3, <2>1
<1>14. CASE Going
  BY <1>2, <1>4, <1>5, <1>6, <1>8, <1>9, <1>10, <1>11, <1>12, <1>14 DEF Going
<1> QED
  BY <1>13, <1>14, StepIs

LEMMA BelowAsked ==
  ASSUME ChainInv, BelowInv, [Next]_vars
  PROVE  \A p \in DOMAIN asked' : \A h : h = asked'[p] => h \in Chains /\ Below(h)
<1>1. asked' = asked \/ asked' = Snapshot \/ asked' = None
  <2>1. ASSUME Aside PROVE asked' = asked \/ asked' = Snapshot \/ asked' = None
    <3>1. ASSUME NEW p \in Pairs, StartMonitor(p) \/ Retire(p) \/ PolicySale(p)
          PROVE  asked' = asked
      BY <3>1 DEF StartMonitor, Retire, PolicySale, idleVars
    <3> QED
      BY <2>1, <3>1 DEF Aside, Extend, Replace, Ask, DropAsked, Replaying, Finalize, AdmitReplay,
                        SkipStep, Complete, idleVars
  <2>2. ASSUME Ending PROVE asked' = asked
    BY <2>2 DEF Ending, RpcFails, ScanThrows, ChunkThrows, HandlingFails, WalkThrows, HandlerFails,
                DeepReorg, Prune, Project, idleVars
  <2>3. ASSUME Going PROVE asked' = asked \/ asked' = None
    BY <2>3 DEF Going, PairsRequest, SwapsRequest, TipHolds, TipDiverges, ScanHeader, PersistJournal,
                ReadLogs, AdmitPair, HandleSwap, CommitChunk, ReadNewTip, Walk, NoAncestor,
                Diverge, Rewind, requestOnly, idleVars
  <2>4. ASSUME Restart PROVE asked' = None
    BY <2>4 DEF Restart
  <2> QED
    BY <2>1, <2>2, <2>3, <2>4, StepIs DEF vars, idleVars
<1>2. CASE asked' = Snapshot
  <2>1. DOMAIN Snapshot = On /\ On \subseteq Listeners /\ \A p \in On : Snapshot[p] = checkpoint[p]
    BY ConstantsTyped DEF Snapshot, On
  <2> QED
    BY <1>2, <2>1, BelowStored
<1>3. CASE asked' = None
  BY <1>3 DEF None
<1>4. CASE asked' = asked
  BY <1>4, AtCoord DEF BelowInv
<1> QED
  BY <1>1, <1>2, <1>3, <1>4

LEMMA BelowAudit ==
  ASSUME ChainInv, BelowInv, [Next]_vars
  PROVE  /\ DOMAIN audit' \subseteq DOMAIN audit \cup {coord.last}
         /\ DOMAIN audit' # DOMAIN audit => (Rewind \/ DeepReorg) /\ coord.last \notin DOMAIN audit
         /\ \/ coord'.last = coord.last
            \/ Diverge /\ coord'.last = <<Tip, request.new>>
            \/ Restart /\ coord'.last = NoReorg
<1>1. CoordSound(coord, audit, replay, request)
  BY AtCoord
<1>2. \A status \in Outcomes : \A affected :
        DOMAIN Audited([status |-> status, affected |-> affected]) = DOMAIN audit \cup {coord.last}
  BY <1>1, AuditGrows
<1>3. PICK c : c = coord
  OBVIOUS
<1>4. c \in [state : States, ready : BOOLEAN, last : Chains \X Chains, pending : Seq(DOMAIN audit)]
  BY <1>1, <1>3 DEF CoordSound
<1>5. CASE DeepReorg
  <2>1. PICK last : last = coord.last
    OBVIOUS
  <2>2. coord' = [coord EXCEPT !.state = "MANUAL_REVIEW", !.ready = FALSE, !.last = last]
    BY <1>5, <2>1 DEF DeepReorg, Status
  <2>3. coord'.last = coord.last
    BY <1>3, <1>4, <2>1, <2>2
  <2>4. CASE last \in DOMAIN audit
    <3>1. audit' = Reviewed
      BY <1>5, <2>1, <2>4 DEF DeepReorg
    <3>2. DOMAIN audit' = DOMAIN audit
      BY <3>1 DEF Reviewed
    <3> QED
      BY <2>3, <3>2
  <2>5. CASE last \notin DOMAIN audit
    <3>1. PICK status, affected : status = "MANUAL_REVIEW" /\ affected = <<>>
      OBVIOUS
    <3>2. audit' = Audited([status |-> status, affected |-> affected]) /\ status \in Outcomes
      BY <1>5, <2>1, <2>5, <3>1 DEF DeepReorg, Outcomes
    <3> QED
      BY <1>2, <1>5, <2>1, <2>3, <2>5, <3>2
  <2> QED
    BY <2>4, <2>5
<1>6. CASE Rewind
  <2>1. coord' = coord
    BY <1>6 DEF Rewind, idleVars
  <2>2. CASE coord.last \in DOMAIN audit
    BY <1>6, <2>1, <2>2 DEF Rewind
  <2>3. CASE coord.last \notin DOMAIN audit
    <3>1. PICK status, affected :
            status = "RECONCILING" /\ audit' = Audited([status |-> status, affected |-> affected])
      BY <1>6, <2>3 DEF Rewind
    <3>2. status \in Outcomes
      BY <3>1 DEF Outcomes
    <3> QED
      BY <1>2, <1>6, <2>1, <2>3, <3>1, <3>2
  <2> QED
    BY <2>2, <2>3
<1>7. CASE Project
  <2>1. PICK last : last = coord.last
    OBVIOUS
  <2>2. PICK state, ready, pending : coord' = [state |-> state, ready |-> ready, last |-> last, pending |-> pending]
    <3>1. \A state, ready : Status(state, ready, last) = [state |-> state, ready |-> ready, last |-> last,
                                                           pending |-> c.pending]
      <4>1. c = [state |-> c.state, ready |-> c.ready, last |-> c.last, pending |-> c.pending]
        BY <1>4
      <4>2. TAKE state, ready
      <4>3. Status(state, ready, last) = [c EXCEPT !.state = state, !.ready = ready, !.last = last]
        BY <1>3 DEF Status
      <4> QED
        BY <4>1, <4>3
    <3>2. CASE Lost # {}
      BY <1>7, <2>1, <3>1, <3>2, ZenonT(30) DEF Project
    <3>3. CASE Lost = {}
      <4>1. PICK st : st = Status("RECONCILING", TRUE, last)
        OBVIOUS
      <4>2. coord' = [st EXCEPT !.pending = Append(@, last)]
        BY <1>7, <2>1, <3>3, <4>1 DEF Project
      <4>3. st = [state |-> "RECONCILING", ready |-> TRUE, last |-> last, pending |-> c.pending]
        BY <3>1, <4>1
      <4> QED
        BY <4>2, <4>3
    <3> QED
      BY <3>2, <3>3
  <2>3. DOMAIN audit' = DOMAIN audit
    BY <1>7 DEF Project, Reviewed
  <2> QED
    BY <2>1, <2>2, <2>3
<1>8. CASE Complete
  <2>1. PICK pending, state, ready :
          coord' = [c EXCEPT !.pending = pending, !.state = state, !.ready = ready]
    BY <1>3, <1>8 DEF Complete
  <2>2. coord'.last = coord.last
    BY <1>3, <1>4, <2>1
  <2>3. DOMAIN audit' = DOMAIN audit
    BY <1>8 DEF Complete
  <2> QED
    BY <2>2, <2>3
<1>9. CASE Diverge
  <2>1. PICK last : last = <<Tip, request.new>>
    OBVIOUS
  <2>2. coord' = [c EXCEPT !.state = "RECONCILING", !.ready = FALSE, !.last = last]
    BY <1>3, <1>9, <2>1 DEF Diverge, Status, Reorg
  <2>3. coord'.last = last
    BY <1>4, <2>2
  <2>4. audit' = audit
    BY <1>9 DEF Diverge, storeVars
  <2> QED
    BY <1>9, <2>1, <2>3, <2>4
<1>10. CASE Restart
  BY <1>10 DEF Restart
<1>11. ASSUME Aside, ~Complete PROVE audit' = audit /\ coord' = coord
  <2>1. ASSUME NEW p \in Pairs, StartMonitor(p) \/ Retire(p) \/ PolicySale(p)
        PROVE  audit' = audit /\ coord' = coord
    BY <2>1 DEF StartMonitor, Retire, PolicySale, idleVars, storeVars
  <2> QED
    BY <1>11, <2>1 DEF Aside, Extend, Replace, Ask, DropAsked, Replaying, Finalize, AdmitReplay,
                       SkipStep, idleVars, storeVars
<1>12. ASSUME Ending, ~DeepReorg, ~Project PROVE audit' = audit /\ coord' = coord
  BY <1>12 DEF Ending, RpcFails, ScanThrows, ChunkThrows, HandlingFails, WalkThrows, HandlerFails,
               Prune, storeVars
<1>13. ASSUME Going, ~Diverge, ~Rewind PROVE audit' = audit /\ coord' = coord
  BY <1>13 DEF Going, PairsRequest, SwapsRequest, TipHolds, TipDiverges, ScanHeader, PersistJournal,
               ReadLogs, AdmitPair, HandleSwap, CommitChunk, ReadNewTip, Walk, NoAncestor,
               requestOnly, idleVars, storeVars
<1> QED
  BY <1>5, <1>6, <1>7, <1>8, <1>9, <1>10, <1>11, <1>12, <1>13, StepIs DEF vars, idleVars, storeVars


LEMMA BelowNext == ASSUME ~Comeback, ChainInv, BelowInv, [Next]_vars PROVE BelowInv'
<1>1. Moved /\ \A i \in 1..Len(chain') : chain'[i] <= Forks + 1 - left'.forks
  BY NodeIsMoved
<1>2. ASSUME NEW h \in Chains, Below(h) PROVE Below(h)'
  BY <1>1, <1>2, BelowStays
<1>3. Below(Tip)'
  <2>1. PICK t : t = Tip'
    OBVIOUS
  <2>2. t = Tip \/ t = request.scan \/ t = chain
    BY <2>1, TipMoves
  <2>3. request.scan \in Chains /\ Tip \in Chains /\ chain \in Chains
    BY AtCoord, AtChain DEF RequestSound, RequestRecord
  <2>4. t \in Chains /\ Below(t)
    <3>1. CASE t = chain
      <4>1. IsPrefix(t, chain)
        BY <2>3, <3>1, PrefixOfItself
      <4> QED
        BY <2>3, <3>1, <4>1, BelowChain
    <3> QED
      BY <2>2, <2>3, <3>1 DEF BelowInv
  <2>5. Below(t)'
    BY <1>2, <2>4
  <2> QED
    BY <2>1, <2>5 DEF Below
<1>4. \A p \in DOMAIN asked' : Below(asked[p])'
  <2> TAKE p \in DOMAIN asked'
  <2>1. PICK h : h = asked'[p]
    OBVIOUS
  <2>2. h \in Chains /\ Below(h)
    BY <2>1, BelowAsked
  <2>3. Below(h)'
    BY <1>2, <2>2
  <2> QED
    BY <2>1, <2>3 DEF Below
<1>5. Below(request.anchor)' /\ Below(request.scan)'
  <2>1. PICK g, h : g = request'.anchor /\ h = request'.scan
    OBVIOUS
  <2>2. g \in Chains /\ h \in Chains /\ Below(g) /\ Below(h)
    BY <2>1, BelowRead
  <2>3. Below(g)' /\ Below(h)'
    BY <1>2, <2>2
  <2> QED
    BY <2>1, <2>3 DEF Below
<1>6. \A id : id \in DOMAIN audit \/ id = coord.last => id[1] \in Chains /\ Below(id[1])
  <2>1. coord.last \in Chains \X Chains /\ Below(coord.last[1])
    BY LastTyped DEF BelowInv
  <2> QED
    BY <2>1 DEF BelowInv
<1>7. \A id \in DOMAIN audit' : id[1] \in Chains /\ Below(id[1])'
  <2> TAKE id \in DOMAIN audit'
  <2>1. PICK h : h = id[1]
    OBVIOUS
  <2>2. h \in Chains /\ Below(h)
    BY <1>6, <2>1, BelowAudit
  <2>3. Below(h)'
    BY <1>2, <2>2
  <2> QED
    BY <2>1, <2>2, <2>3 DEF Below
<1>8. Below(coord.last[1])'
  <2>1. PICK h : h = coord'.last[1]
    OBVIOUS
  <2>2. h = coord.last[1] \/ h = Tip \/ h = None
    BY <2>1, BelowAudit DEF NoReorg
  <2>3. h \in Chains /\ Below(h)
    BY <1>6, <2>2, AtChain, BelowNone, NoneIsPrefix DEF BelowInv
  <2>4. Below(h)'
    BY <1>2, <2>3
  <2> QED
    BY <2>1, <2>4 DEF Below
<1> QED
  BY <1>1, <1>3, <1>4, <1>5, <1>7, <1>8 DEF BelowInv

LEMMA BelowInit == Init => BelowInv
<1> SUFFICES ASSUME Init PROVE BelowInv
  OBVIOUS
<1>1. ChainInv
  BY ChainInit
<1>2. chain = <<1>> /\ journal = {<<1>>} /\ asked = None /\ request = Idle /\ audit = <<>>
      /\ coord.last = NoReorg /\ left.forks = Forks
  BY DEF Init
<1>3. PICK t : t = <<1>>
  OBVIOUS
<1>4. Len(t) = 1 /\ t[1] = 1 /\ t \in Chains
  BY <1>1, <1>2, <1>3, AtChain
<1>5. Tip = t
  <2>1. t \in journal /\ journal \subseteq Chains /\ \A h \in journal : IsPrefix(h, t)
    BY <1>2, <1>3, <1>4, PrefixOfItself
  <2> QED
    BY <2>1, TipIs
<1>6. Below(Tip)
  BY <1>2, <1>3, <1>4, <1>5 DEF Below
<1>7. Below(None)
  BY <1>1, AtChain, BelowNone
<1>8. \A i \in 1..Len(chain) : chain[i] <= Forks + 1 - left.forks
  BY <1>2, <1>3, <1>4, ConstantsTyped
<1>9. DOMAIN asked = {} /\ DOMAIN audit = {} /\ request.anchor = None /\ request.scan = None
      /\ coord.last[1] = None
  BY <1>2 DEF None, Idle, NoReorg
<1> QED
  BY <1>6, <1>7, <1>8, <1>9 DEF BelowInv

\* Once an abandoned fork does not win again, the labels of the node's chain only
\* grow at a height, and everything the store and the coordinator hold was on it
\* once (the hashes that prepareCanonicalScan and persistJournal compare).
THEOREM ForksLeftBehind == ASSUME ~Comeback PROVE Spec => []BelowInv
<1>1. ChainInv /\ BelowInv /\ [Next]_vars => BelowInv'
  BY BelowNext
<1>2. Init => BelowInv
  BY BelowInit
<1> QED
  BY <1>1, <1>2, ChainInvariant, PTL DEF Spec


------------------------------------------------------------------------------
(* Who runs in which state of the coordinator.                              *)

TurnsSound ==
  /\ request.pc # "idle" => request.kind # "none"
  /\ request.pc \in {"rewind", "project"} => coord.state = "RECONCILING" /\ ~coord.ready
  /\ coord.state = "RECONCILING" /\ ~coord.ready =>
       request.pc \in {"rewind", "project"} \/ (request = Idle /\ ~InReplay)
  /\ request.pc \in Busy /\ ~InReplay => coord.state = "HEALTHY"

\* A request that goes on stays what it is.
LEMMA GoingOn ==
  ASSUME ChainInv, Going, ~PairsRequest, ~SwapsRequest
  PROVE  /\ request.pc \notin {"idle", "project"}
         /\ request'.kind = request.kind /\ request'.head = request.head
         /\ CommitChunk \/ (request'.from = request.from /\ request'.targets = request.targets)
         /\ \/ request.pc \in Busy /\ request'.pc \in Busy
            \/ Diverge /\ request.pc = "verify" /\ request'.pc = "rewind"
            \/ Rewind /\ request.pc = "rewind" /\ request'.pc = "project"
<1>1. request \in RequestRecord
  BY AtCoord DEF RequestSound
<1>2. CASE CommitChunk
  <2>1. PICK until, kept, targets :
          request' = [request EXCEPT !.pc = "chunk", !.from = until, !.kept = kept, !.targets = targets]
    BY <1>2 DEF CommitChunk
  <2> QED
    BY <1>1, <1>2, <2>1 DEF CommitChunk, RequestRecord, Busy
<1>3. CASE TipHolds
  BY <1>1, <1>3 DEF TipHolds, RequestRecord, Busy
<1>4. CASE TipDiverges
  BY <1>1, <1>4 DEF TipDiverges, RequestRecord, Busy
<1>5. CASE ScanHeader
  BY <1>1, <1>5 DEF ScanHeader, RequestRecord, Busy
<1>6. CASE PersistJournal
  BY <1>1, <1>6 DEF PersistJournal, RequestRecord, Busy
<1>7. CASE ReadLogs
  BY <1>1, <1>7 DEF ReadLogs, AtChunk, RequestRecord, Busy
<1>8. CASE AdmitPair \/ HandleSwap
  BY <1>1, <1>8 DEF AdmitPair, HandleSwap, NextLog, RequestRecord, Busy
<1>9. CASE ReadNewTip
  BY <1>1, <1>9 DEF ReadNewTip, RequestRecord, Busy
<1>10. CASE Walk
  <2>1. PICK remote, at :
          \/ request' = [request EXCEPT !.pc = "verify", !.scan = remote]
          \/ request' = [request EXCEPT !.at = at]
    BY <1>10 DEF Walk
  <2> QED
    BY <1>1, <1>10, <2>1 DEF Walk, RequestRecord, Busy
<1>11. CASE NoAncestor
  BY <1>1, <1>11 DEF NoAncestor, RequestRecord, Busy
<1>12. CASE Diverge
  BY <1>1, <1>12 DEF Diverge, RequestRecord, Busy
<1>13. CASE Rewind
  BY <1>1, <1>13 DEF Rewind, RequestRecord, Busy
<1> QED
  BY <1>2, <1>3, <1>4, <1>5, <1>6, <1>7, <1>8, <1>9, <1>10, <1>11, <1>12, <1>13 DEF Going

\* A request starts when none runs, outside a replay only on a healthy chain.
LEMMA StartIs ==
  ASSUME PairsRequest \/ SwapsRequest
  PROVE  /\ request = Idle /\ request'.pc = "tip" /\ request'.head = Len(chain)
         /\ \/ PairsRequest /\ request'.kind = "pairs"
            \/ SwapsRequest /\ request'.kind = "swaps"
         /\ IF InReplay THEN replay.step = request'.kind /\ coord.state # "MANUAL_REVIEW"
                        ELSE coord.state = "HEALTHY"
<1>1. CASE PairsRequest
  BY <1>1 DEF PairsRequest, Admitted, Start, Idle
<1>2. CASE SwapsRequest
  BY <1>2 DEF SwapsRequest, Admitted, Start, Idle
<1> QED
  BY <1>1, <1>2

LEMMA ReplayStays ==
  ASSUME [Next]_vars
  PROVE  /\ Going => replay' = replay
         /\ Aside /\ ~Replaying => replay' = replay
         /\ Ending /\ ~Prune /\ ~Project => replay' = NoReplay
         /\ Restart => replay' = NoReplay
         /\ UNCHANGED vars => replay' = replay
<1>1. ASSUME Going PROVE replay' = replay
  BY <1>1, Zenon DEF Going, PairsRequest, SwapsRequest, TipHolds, TipDiverges, ScanHeader, PersistJournal,
              ReadLogs, AdmitPair, HandleSwap, CommitChunk, ReadNewTip, Walk, NoAncestor,
              Diverge, Rewind, requestOnly, idleVars
<1>2. ASSUME Aside, ~Replaying PROVE replay' = replay
  <2>1. ASSUME NEW p \in Pairs, StartMonitor(p) \/ Retire(p) \/ PolicySale(p) PROVE replay' = replay
    BY <2>1 DEF StartMonitor, Retire, PolicySale, idleVars
  <2> QED
    BY <1>2, <2>1 DEF Aside, Extend, Replace, Ask, DropAsked, idleVars
<1>3. ASSUME Ending, ~Prune, ~Project PROVE replay' = NoReplay
  BY <1>3 DEF Ending, RpcFails, ScanThrows, ChunkThrows, HandlingFails, WalkThrows, HandlerFails,
              DeepReorg, Throw
<1> QED
  BY <1>1, <1>2, <1>3 DEF Restart, vars, idleVars

LEMMA CoordStays ==
  ASSUME [Next]_vars, ~Diverge, ~DeepReorg, ~Project, ~Complete, ~Restart
  PROVE  coord' = coord
<1>1. ASSUME Aside PROVE coord' = coord
  <2>1. ASSUME NEW p \in Pairs, StartMonitor(p) \/ Retire(p) \/ PolicySale(p) PROVE coord' = coord
    BY <2>1 DEF StartMonitor, Retire, PolicySale, idleVars
  <2> QED
    BY <1>1, <2>1 DEF Aside, Extend, Replace, Ask, DropAsked, Replaying, Finalize, AdmitReplay,
                      SkipStep, idleVars
<1>2. ASSUME Ending PROVE coord' = coord
  BY <1>2 DEF Ending, RpcFails, ScanThrows, ChunkThrows, HandlingFails, WalkThrows, HandlerFails, Prune
<1>3. ASSUME Going PROVE coord' = coord
  BY <1>3, Zenon DEF Going, PairsRequest, SwapsRequest, TipHolds, TipDiverges, ScanHeader, PersistJournal,
              ReadLogs, AdmitPair, HandleSwap, CommitChunk, ReadNewTip, Walk, NoAncestor,
              Rewind, requestOnly, idleVars
<1> QED
  BY <1>1, <1>2, <1>3, StepIs DEF vars, idleVars

\* What the steps that move the coordinator do to it.
LEMMA CoordMoves ==
  ASSUME ChainInv
  PROVE  /\ Diverge => coord'.state = "RECONCILING" /\ ~coord'.ready /\ coord'.last = <<Tip, request.new>>
         /\ DeepReorg => coord'.state = "MANUAL_REVIEW"
         /\ Project => \/ coord'.state = "MANUAL_REVIEW"
                       \/ coord'.state = "RECONCILING" /\ coord'.ready
         /\ Complete => \/ coord'.state = coord.state /\ coord'.ready = coord.ready
                        \/ /\ coord'.state = "HEALTHY" /\ coord.state = "RECONCILING" /\ ~replay.again
                           /\ Head(coord.pending) = coord.last
         /\ Restart => coord'.state = "HEALTHY"
<1>1. PICK c, l, n : c = coord /\ l = coord.last /\ n = <<Tip, request.new>>
  OBVIOUS
<1>2. c \in [state : States, ready : BOOLEAN, last : Chains \X Chains, pending : Seq(DOMAIN audit)]
  BY <1>1, AtCoord DEF CoordSound
<1>3. ASSUME Diverge
      PROVE  coord'.state = "RECONCILING" /\ ~coord'.ready /\ coord'.last = <<Tip, request.new>>
  <2>1. coord' = [c EXCEPT !.state = "RECONCILING", !.ready = FALSE, !.last = n]
    BY <1>1, <1>3 DEF Diverge, Status, Reorg
  <2> QED
    BY <1>1, <1>2, <2>1
<1>4. ASSUME DeepReorg PROVE coord'.state = "MANUAL_REVIEW"
  <2>1. coord' = [c EXCEPT !.state = "MANUAL_REVIEW", !.ready = FALSE, !.last = l]
    BY <1>1, <1>4 DEF DeepReorg, Status
  <2> QED
    BY <1>2, <2>1
<1>5. ASSUME Project
      PROVE  coord'.state = "MANUAL_REVIEW" \/ (coord'.state = "RECONCILING" /\ coord'.ready)
  <2>1. CASE Lost # {}
    <3>1. coord' = [c EXCEPT !.state = "MANUAL_REVIEW", !.ready = FALSE, !.last = l]
      BY <1>1, <1>5, <2>1 DEF Project, Status
    <3> QED
      BY <1>2, <3>1
  <2>2. CASE Lost = {}
    <3>1. PICK st, pending : st = Status("RECONCILING", TRUE, l) /\ pending = Append(st.pending, l)
      OBVIOUS
    <3>2. coord' = [st EXCEPT !.pending = pending]
      BY <1>1, <1>5, <2>2, <3>1 DEF Project
    <3>3. st = [c EXCEPT !.state = "RECONCILING", !.ready = TRUE, !.last = l]
      BY <1>1, <3>1 DEF Status
    <3>4. st = [state |-> "RECONCILING", ready |-> TRUE, last |-> l, pending |-> c.pending]
      BY <1>2, <3>3
    <3> QED
      BY <3>2, <3>4
  <2> QED
    BY <2>1, <2>2
<1>6. ASSUME Complete
      PROVE  \/ coord'.state = coord.state /\ coord'.ready = coord.ready
             \/ /\ coord'.state = "HEALTHY" /\ coord.state = "RECONCILING" /\ ~replay.again
                /\ Head(coord.pending) = coord.last
  <2>1. PICK pending, healthy :
          /\ healthy = (~replay.again /\ coord.state = "RECONCILING" /\ Head(coord.pending) = coord.last)
          /\ coord' = [c EXCEPT !.pending = pending,
                                !.state = IF healthy THEN "HEALTHY" ELSE @,
                                !.ready = @ /\ ~healthy]
    BY <1>1, <1>6 DEF Complete
  <2>2. CASE healthy
    <3>1. PICK ready : ready = (c.ready /\ ~healthy)
      OBVIOUS
    <3>2. coord' = [c EXCEPT !.pending = pending, !.state = "HEALTHY", !.ready = ready]
      BY <2>1, <2>2, <3>1
    <3>3. coord'.state = "HEALTHY"
      BY <1>2, <3>2
    <3> QED
      BY <2>1, <2>2, <3>3
  <2>3. CASE ~healthy
    <3>1. (c.ready /\ ~healthy) = c.ready
      BY <1>2, <2>3
    <3>2. coord' = [c EXCEPT !.pending = pending, !.state = c.state, !.ready = c.ready]
      BY <2>1, <2>3, <3>1
    <3>3. coord'.state = c.state /\ coord'.ready = c.ready
      BY <1>2, <3>2
    <3> QED
      BY <1>1, <3>3
  <2> QED
    BY <2>2, <2>3
<1> QED
  BY <1>3, <1>4, <1>5, <1>6 DEF Restart

LEMMA TurnsNext ==
  ASSUME ChainInv, ReplayInv, TurnsSound, [Next]_vars
  PROVE  TurnsSound'
<1>1. request.pc \in PCs
  BY AtCoord DEF RequestSound, RequestRecord
<1>2. CASE PairsRequest \/ SwapsRequest
  <2>1. coord' = coord /\ replay' = replay
    BY <1>2, ReplayStays DEF Going, PairsRequest, SwapsRequest, idleVars
  <2>2. request = Idle /\ request'.pc = "tip" /\ request'.kind \in {"pairs", "swaps"}
        /\ IF InReplay THEN TRUE ELSE coord.state = "HEALTHY"
    BY <1>2, StartIs
  <2>3. request.pc = "idle"
    BY <2>2 DEF Idle
  <2> QED
    BY <2>1, <2>2, <2>3 DEF TurnsSound, InReplay, Busy
<1>3. CASE Going /\ ~PairsRequest /\ ~SwapsRequest
  <2>1. replay' = replay
    BY <1>3, ReplayStays
  <2>2. CASE request.pc \in Busy /\ request'.pc \in Busy
    <3>1. ~Diverge /\ ~Rewind /\ ~DeepReorg /\ ~Project /\ ~Complete /\ ~Restart
      <4>1. ~DeepReorg /\ ~Project
        BY <2>2 DEF DeepReorg, Project, Busy
      <4>2. ~Complete /\ ~Restart
        <5>1. Idle.pc = "idle"
          BY DEF Idle
        <5>2. request # Idle /\ request' # Idle
          BY <2>2, <5>1 DEF Busy
        <5> QED
          BY <5>2 DEF Complete, Restart
      <4>3. ~Diverge /\ ~Rewind
        <5>1. request \in RequestRecord
          BY AtCoord DEF RequestSound
        <5>2. Diverge => request'.pc = "rewind"
          BY <5>1 DEF Diverge, RequestRecord
        <5> QED
          BY <2>2, <5>2 DEF Rewind, Busy
      <4> QED
        BY <4>1, <4>2, <4>3
    <3>2. coord' = coord
      BY <3>1, CoordStays
    <3>3. request.pc \notin {"idle", "rewind", "project"} /\ request'.pc \notin {"idle", "rewind", "project"}
      BY <2>2 DEF Busy
    <3> QED
      BY <1>3, <2>1, <2>2, <3>2, <3>3, GoingOn DEF TurnsSound, InReplay
  <2>3. CASE Diverge /\ request.pc = "verify" /\ request'.pc = "rewind"
    <3>1. coord'.state = "RECONCILING" /\ ~coord'.ready
      BY <2>3, CoordMoves
    <3> QED
      BY <1>3, <2>3, <3>1, GoingOn DEF TurnsSound, Busy
  <2>4. CASE Rewind /\ request.pc = "rewind" /\ request'.pc = "project"
    <3>1. coord' = coord
      BY <2>4 DEF Rewind, idleVars
    <3> QED
      BY <1>3, <2>4, <3>1, GoingOn DEF TurnsSound, Busy
  <2> QED
    BY <1>3, <2>2, <2>3, <2>4, GoingOn
<1>4. CASE Ending \/ Restart
  <2>1. request' = Idle
    BY <1>4, EndingIs DEF Restart
  <2>2. request'.pc = "idle"
    BY <2>1 DEF Idle
  <2>3. CASE Project
    <3>1. ~(coord'.state = "RECONCILING" /\ ~coord'.ready)
      BY <2>3, CoordMoves
    <3> QED
      BY <2>1, <2>2, <3>1 DEF TurnsSound, Busy
  <2>4. CASE Prune
    <3>1. coord' = coord /\ request.pc = "chunk"
      BY <2>4 DEF Prune
    <3>2. ~(coord.state = "RECONCILING" /\ ~coord.ready)
      BY <3>1 DEF TurnsSound, Idle
    <3> QED
      BY <2>1, <2>2, <3>1, <3>2 DEF TurnsSound, Busy
  <2>5. CASE ~Project /\ ~Prune
    <3>1. replay' = NoReplay
      BY <1>4, <2>5, ReplayStays
    <3>2. ~InReplay'
      BY <3>1 DEF InReplay, NoReplay
    <3> QED
      BY <2>1, <2>2, <3>2 DEF TurnsSound, Busy
  <2> QED
    BY <2>3, <2>4, <2>5
<1>5. CASE Aside /\ ~Replaying
  <2>1. request' = request /\ replay' = replay
    BY <1>5, AsideIs, ReplayStays
  <2>2. coord' = coord
    <3>1. ASSUME NEW p \in Pairs, StartMonitor(p) \/ Retire(p) \/ PolicySale(p) PROVE coord' = coord
      BY <3>1 DEF StartMonitor, Retire, PolicySale, idleVars
    <3> QED
      BY <1>5, <3>1 DEF Aside, Extend, Replace, Ask, DropAsked, idleVars
  <2> QED
    BY <2>1, <2>2 DEF TurnsSound, InReplay
<1>6. CASE Replaying
  <2>1. request' = request
    BY <1>6, AsideIs DEF Aside
  <2>2. CASE Finalize
    <3>1. coord' = coord /\ coord.ready /\ request = Idle
      BY <2>2 DEF Finalize
    <3> QED
      BY <2>1, <3>1 DEF TurnsSound, Busy, Idle
  <2>3. CASE AdmitReplay \/ SkipStep
    <3>1. coord' = coord /\ InReplay
      BY <2>3 DEF AdmitReplay, SkipStep, InReplay
    <3>2. InReplay'
      <4>1. PICK rp, step : rp = replay /\ replay' = [rp EXCEPT !.step = step] /\ step # "none"
        BY <2>3 DEF AdmitReplay, SkipStep, NextStep
      <4>2. rp \in [step : Steps, again : BOOLEAN]
        BY <4>1, LastTyped
      <4>3. replay'.step = step
        BY <4>1, <4>2
      <4> QED
        BY <4>1, <4>3 DEF InReplay
    <3> QED
      BY <2>1, <3>1, <3>2 DEF TurnsSound
  <2>4. CASE Complete
    <3>1. request.pc = "idle" /\ InReplay
      BY <2>4 DEF Complete, Idle, InReplay
    <3>2. ~(coord.state = "RECONCILING" /\ ~coord.ready)
      BY <3>1 DEF TurnsSound
    <3>3. ~(coord'.state = "RECONCILING" /\ ~coord'.ready)
      BY <2>4, <3>2, CoordMoves
    <3> QED
      BY <2>1, <3>1, <3>3 DEF TurnsSound, Busy
  <2> QED
    BY <1>6, <2>2, <2>3, <2>4 DEF Replaying
<1>7. CASE UNCHANGED vars
  BY <1>7 DEF TurnsSound, vars, idleVars, InReplay
<1> QED
  BY <1>2, <1>3, <1>4, <1>5, <1>6, <1>7, StepIs


\* Which steps lead a request where.
LEMMA LeadsTo ==
  ASSUME ChainInv, [Next]_vars, request'.pc # "idle", request' # request
  PROVE  /\ Going
         /\ request'.pc = "tip" => PairsRequest \/ SwapsRequest
         /\ request'.pc = "scan" => TipHolds \/ ScanHeader
         /\ request'.pc = "chunk" => PersistJournal \/ CommitChunk
         /\ request'.pc = "logs" => ReadLogs \/ AdmitPair \/ HandleSwap
         /\ request'.pc = "new tip" => TipDiverges
         /\ request'.pc = "walk" => ReadNewTip \/ Walk
         /\ request'.pc = "verify" => Walk \/ NoAncestor
         /\ request'.pc = "rewind" => Diverge
         /\ request'.pc = "project" => Rewind
<1>1. request \in RequestRecord
  BY AtCoord DEF RequestSound
<1>2. Idle.pc = "idle"
  BY DEF Idle
<1>3. Going
  BY <1>2, AsideIs, EndingIs, StepIs DEF Restart, vars
<1>4. ASSUME PairsRequest \/ SwapsRequest PROVE request'.pc = "tip"
  BY <1>4, StartIs
<1>5. ASSUME TipHolds PROVE request'.pc = "scan"
  BY <1>1, <1>5 DEF TipHolds, RequestRecord
<1>6. ASSUME TipDiverges PROVE request'.pc = "new tip"
  BY <1>1, <1>6 DEF TipDiverges, RequestRecord
<1>7. ASSUME ScanHeader PROVE request'.pc = "scan"
  BY <1>1, <1>7 DEF ScanHeader, RequestRecord
<1>8. ASSUME PersistJournal \/ CommitChunk PROVE request'.pc = "chunk"
  <2>1. CASE PersistJournal
    BY <1>1, <2>1 DEF PersistJournal, RequestRecord
  <2>2. CASE CommitChunk
    <3>1. PICK until, kept, targets :
            request' = [request EXCEPT !.pc = "chunk", !.from = until, !.kept = kept, !.targets = targets]
      BY <2>2 DEF CommitChunk
    <3> QED
      BY <1>1, <3>1 DEF RequestRecord
  <2> QED
    BY <1>8, <2>1, <2>2
<1>9. ASSUME ReadLogs \/ AdmitPair \/ HandleSwap PROVE request'.pc = "logs"
  BY <1>1, <1>9 DEF ReadLogs, AdmitPair, HandleSwap, NextLog, RequestRecord
<1>10. ASSUME ReadNewTip PROVE request'.pc = "walk"
  BY <1>1, <1>10 DEF ReadNewTip, RequestRecord
<1>11. ASSUME Walk PROVE request'.pc \in {"walk", "verify"}
  <2>1. PICK remote, at :
          \/ request' = [request EXCEPT !.pc = "verify", !.scan = remote]
          \/ request' = [request EXCEPT !.at = at]
    BY <1>11 DEF Walk
  <2> QED
    BY <1>1, <1>11, <2>1 DEF Walk, RequestRecord
<1>12. ASSUME NoAncestor PROVE request'.pc = "verify"
  BY <1>1, <1>12 DEF NoAncestor, RequestRecord
<1>13. ASSUME Diverge PROVE request'.pc = "rewind"
  BY <1>1, <1>13 DEF Diverge, RequestRecord
<1>14. ASSUME Rewind PROVE request'.pc = "project"
  BY <1>1, <1>14 DEF Rewind, RequestRecord
<1> QED
  BY <1>3, <1>4, <1>5, <1>6, <1>7, <1>8, <1>9, <1>10, <1>11, <1>12, <1>13, <1>14 DEF Going

------------------------------------------------------------------------------
(* What a divergence leaves behind.                                         *)

Parting == {"new tip", "walk", "verify", "rewind"}

\* A divergence is found where the node has left the stored chain: all of it beyond
\* the ancestor. A rollback that is known to the audit is of a chain that is not
\* stored any more.
DivergenceSound ==
  /\ \A id \in DOMAIN audit : Abandoned(id[1])
  /\ coord.state # "MANUAL_REVIEW" => \A id \in DOMAIN audit : ~IsPrefix(id[1], Tip)
  /\ request.pc = "scan" /\ request.save /\ request.at > request.head =>
       \A id \in DOMAIN audit : ~IsPrefix(id[1], request.scan)
  /\ request.pc \in Parting => Abandoned(Tip)
  /\ request.pc = "walk" => /\ request.at >= 0
                            /\ \A n \in request.at + 1..Len(Tip) : Abandoned(Upto(Tip, n))
  /\ request.pc \in {"verify", "rewind"} /\ request.scan # None =>
       /\ Len(request.scan) < Len(Tip)
       /\ \A n \in Len(request.scan) + 1..Len(Tip) : Abandoned(Upto(Tip, n))
  /\ request.pc = "verify" => Len(Tip) <= request.head
  /\ request.pc = "rewind" => coord.last[1] = Tip /\ Len(Tip) <= Len(coord.last[2])

\* Once left, what is stored stays left.
LEMMA StoredStaysLeft ==
  ASSUME ChainInv, BelowInv, Moved, NEW h \in Chains, IsPrefix(h, Tip), ~IsPrefix(h, chain)
  PROVE  ~IsPrefix(h, chain')
<1>1. PICK t : t = Tip
  OBVIOUS
<1>2. t \in Chains /\ Below(t) /\ chain \in Chains
  BY <1>1, AtChain DEF BelowInv
<1>3. Below(h)
  BY <1>1, <1>2, BelowPrefix
<1>4. Abandoned(h)
  BY DEF Abandoned
<1>5. Abandoned(h)'
  BY <1>3, <1>4, AbandonedStays
<1> QED
  BY <1>5 DEF Abandoned

LEMMA AuditStaysLeft ==
  ASSUME ChainInv, BelowInv, DivergenceSound, Moved, [Next]_vars
  PROVE  \A id \in DOMAIN audit' : Abandoned(id[1])'
<1> TAKE id \in DOMAIN audit'
<1>1. PICK h : h = id[1]
  OBVIOUS
<1>2. h \in Chains /\ Below(h) /\ Abandoned(h)
  <2>1. CASE id \in DOMAIN audit
    BY <1>1, <2>1 DEF BelowInv, DivergenceSound
  <2>2. CASE id \notin DOMAIN audit
    <3>1. (Rewind \/ DeepReorg) /\ id = coord.last
      BY <2>2, BelowAudit
    <3>2. request.pc = "rewind"
      BY <3>1 DEF Rewind, DeepReorg
    <3>3. h = Tip /\ Abandoned(Tip)
      BY <1>1, <3>1, <3>2 DEF DivergenceSound, Parting
    <3> QED
      BY <3>3, AtChain DEF BelowInv
  <2> QED
    BY <2>1, <2>2
<1>3. Abandoned(h)'
  BY <1>2, AbandonedStays
<1> QED
  BY <1>1, <1>3

\* The chains of the audit are not stored any more.
LEMMA AuditNotStored ==
  ASSUME ChainInv, BelowInv, ReplayInv, DivergenceSound, Moved, [Next]_vars,
         coord'.state # "MANUAL_REVIEW"
  PROVE  \A id \in DOMAIN audit' : ~IsPrefix(id[1], Tip')
<1>1. CASE Restart
  <2>1. Tip' = chain /\ audit' = audit
    BY <1>1, FreshTip DEF Restart
  <2> QED
    BY <2>1 DEF DivergenceSound, Abandoned
<1>2. CASE ~Restart
  <2>1. coord.state # "MANUAL_REVIEW"
    <3>1. SUFFICES ASSUME coord.state = "MANUAL_REVIEW" PROVE FALSE
      OBVIOUS
    <3>2. request.pc = "idle"
      BY <3>1 DEF ReplayInv
    <3>3. ~Diverge /\ ~DeepReorg /\ ~Project
      BY <3>2 DEF Diverge, DeepReorg, Project
    <3>4. Complete => coord'.state = coord.state
      BY <3>1, CoordMoves
    <3> QED
      BY <1>2, <3>1, <3>3, <3>4, CoordStays
  <2>2. \A id \in DOMAIN audit : ~IsPrefix(id[1], Tip) /\ id[1] \in Chains
    BY <2>1 DEF DivergenceSound, BelowInv
  <2>3. ~DeepReorg
    BY CoordMoves
  <2>4. CASE Rewind /\ coord.last \notin DOMAIN audit
    <3>1. PICK t, h : t = Tip /\ h = request.scan
      OBVIOUS
    <3>2. request.pc = "rewind" /\ h # None /\ Tip' = h
      BY <2>4, <3>1, RewoundTip DEF Rewind
    <3>3. h \in journal /\ Len(h) < Len(t) /\ coord.last[1] = t
      BY <3>1, <3>2, AtCoord DEF RequestSound, DivergenceSound
    <3>4. h \in Chains /\ t \in Chains /\ IsPrefix(h, t) /\ Len(h) \in Nat /\ Len(t) \in Nat
      BY <3>1, <3>3, AtChain
    <3>5. ~IsPrefix(t, h)
      BY <3>3, <3>4, PrefixIs
    <3>6. \A id \in DOMAIN audit : ~IsPrefix(id[1], h)
      BY <2>2, <3>1, <3>4, PrefixThrough
    <3> QED
      BY <3>2, <3>3, <3>5, <3>6, BelowAudit
  <2>5. CASE ~(Rewind /\ coord.last \notin DOMAIN audit)
    <3>1. DOMAIN audit' = DOMAIN audit
      BY <2>3, <2>5, BelowAudit
    <3>2. CASE Tip' = Tip
      BY <2>2, <3>1, <3>2
    <3>3. CASE PersistJournal /\ request.save /\ Tip' = request.scan
      BY <3>1, <3>3 DEF PersistJournal, DivergenceSound
    <3> QED
      BY <1>2, <2>5, <3>2, <3>3, TipMoves
  <2> QED
    BY <2>4, <2>5
<1> QED
  BY <1>1, <1>2


\* What is read for the journal does not continue a chain of the audit.
LEMMA ScanIsNew ==
  ASSUME ChainInv, BelowInv, DivergenceSound, Moved, [Next]_vars,
         request'.pc = "scan", request'.save, request'.at > request'.head
  PROVE  \A id \in DOMAIN audit' : ~IsPrefix(id[1], request'.scan)
<1>1. request \in RequestRecord
  BY AtCoord DEF RequestSound
<1>2. ~Rewind /\ ~DeepReorg
  <2>1. Rewind => request'.pc = "project"
    BY <1>1 DEF Rewind, RequestRecord
  <2>2. DeepReorg => request'.pc = "idle"
    BY DEF DeepReorg, Throw, Idle
  <2> QED
    BY <2>1, <2>2
<1>3. DOMAIN audit' = DOMAIN audit
  BY <1>2, BelowAudit
<1>4. CASE request' = request
  BY <1>3, <1>4 DEF DivergenceSound
<1>5. CASE TipHolds
  <2>1. PICK at, first, save, scan :
          /\ at = ScanStart /\ save = ~Cached(request.head)
          /\ request' = [request EXCEPT !.pc = "scan", !.at = at, !.first = first, !.save = save, !.scan = scan]
    BY <1>5 DEF TipHolds
  <2>2. request.pc = "tip" /\ Len(Tip) <= request.head /\ request.head \in Nat
    BY <1>5, AtRequest DEF TipHolds
  <2>3. request'.at = at /\ request'.save = save /\ request'.head = request.head
    BY <1>1, <2>1 DEF RequestRecord
  <2>4. ~Cached(request.head)
    BY <2>1, <2>3
  <2>5. JournalStart(request.head) \in Nat /\ JournalStart(request.head) <= request.head
    <3>1. PICK head : head = request.head
      OBVIOUS
    <3>2. JournalStart(head) \in Nat /\ JournalStart(head) <= Len(Tip)
      BY <2>2, <3>1, JournalStartIs
    <3> QED
      BY <2>2, <3>1, <3>2, AtChain
  <2>6. ScanStart <= JournalStart(request.head) /\ ScanStart \in Nat
    <3> DEFINE S == {request.head + 1}
                    \cup (IF Cached(request.head) THEN {} ELSE {JournalStart(request.head)})
                    \cup (IF request.from <= request.head THEN {request.from} ELSE {})
    <3>1. request.from \in Nat
      BY <1>1 DEF RequestRecord
    <3>2. S \in SUBSET Nat /\ JournalStart(request.head) \in S
      BY <2>2, <2>4, <2>5, <3>1
    <3>3. ScanStart = Min(S)
      BY DEF ScanStart
    <3> HIDE DEF S
    <3>4. S # {}
      BY <3>2
    <3> QED
      BY <3>2, <3>3, <3>4, MinOfNats
  <2> QED
    BY <2>1, <2>2, <2>3, <2>5, <2>6
<1>6. CASE ScanHeader
  <2>1. PICK n, c, h : n = request.at /\ c = chain /\ h = Upto(c, n)
    OBVIOUS
  <2>2. request.pc = "scan" /\ n <= request.head
        /\ request' = [request EXCEPT !.scan = h, !.at = n + 1]
    BY <1>6, <2>1 DEF ScanHeader
  <2>3. request'.scan = h
    BY <1>1, <2>2 DEF RequestRecord
  <2>4. n \in 0..Len(c) /\ c \in Chains
    BY <2>1, <2>2, AtRequest, AtChain DEF ScanSound
  <2>5. h \in Chains /\ IsPrefix(h, c)
    BY <2>1, <2>4, UptoIs, UptoIsPrefix
  <2>6. \A id \in DOMAIN audit : id[1] \in Chains /\ ~IsPrefix(id[1], c)
    BY <2>1 DEF DivergenceSound, BelowInv, Abandoned
  <2> QED
    BY <1>3, <2>3, <2>4, <2>5, <2>6, PrefixThrough
<1> QED
  BY <1>4, <1>5, <1>6, LeadsTo

\* Down to where the stored chain is compared with the node's, it is left.
LEMMA LeftBehind ==
  ASSUME ChainInv, BelowInv, DivergenceSound, ReplayInv, TurnsSound, Moved, [Next]_vars,
         request'.pc \in Parting
  PROVE  /\ Abandoned(Tip)'
         /\ request'.pc = "walk" => /\ request'.at >= 0
                                    /\ \A n \in request'.at + 1..Len(Tip') : Abandoned(Upto(Tip, n))'
         /\ request'.pc \in {"verify", "rewind"} /\ request'.scan # None =>
              /\ Len(request'.scan) < Len(Tip')
              /\ \A n \in Len(request'.scan) + 1..Len(Tip') : Abandoned(Upto(Tip, n))'
         /\ request'.pc = "verify" => Len(Tip') <= request'.head
         /\ request'.pc = "rewind" => coord'.last[1] = Tip' /\ Len(Tip') <= Len(coord'.last[2])
<1>1. request \in RequestRecord
  BY AtCoord DEF RequestSound
<1>2. PICK t, c : t = Tip /\ c = chain
  OBVIOUS
<1>3. t \in Chains /\ c \in Chains /\ Len(t) \in Nat /\ 1 <= Len(t) /\ Len(t) <= Len(c) /\ Len(c) \in Nat
  BY <1>2, AtChain
<1>4. Tip' = t
  <2>1. Restart => request'.pc = "idle"
    BY DEF Restart, Idle
  <2>2. Rewind => request'.pc = "project"
    BY <1>1 DEF Rewind, RequestRecord
  <2>3. PersistJournal => request'.pc = "chunk"
    BY <1>1 DEF PersistJournal, RequestRecord
  <2> QED
    BY <1>2, <2>1, <2>2, <2>3, TipMoves DEF Parting
<1>5. PICK d : d = chain'
  OBVIOUS
<1>6. ASSUME NEW h \in Chains, IsPrefix(h, t), ~IsPrefix(h, c) PROVE ~IsPrefix(h, d)
  BY <1>2, <1>5, <1>6, StoredStaysLeft
\* It is enough to show it of the chain of the node as it was.
<1>7. SUFFICES
        /\ Abandoned(t)
        /\ request'.pc = "walk" => request'.at \in Int /\ request'.at >= 0
             /\ \A n \in request'.at + 1..Len(t) : Abandoned(Upto(t, n))
        /\ request'.pc \in {"verify", "rewind"} /\ request'.scan # None =>
             /\ Len(request'.scan) \in Nat /\ Len(request'.scan) < Len(t)
             /\ \A n \in Len(request'.scan) + 1..Len(t) : Abandoned(Upto(t, n))
        /\ request'.pc = "verify" => Len(t) <= request'.head
        /\ request'.pc = "rewind" => coord'.last[1] = t /\ Len(t) <= Len(coord'.last[2])
  <2>1. PICK at, len : at = request'.at /\ len = Len(request'.scan)
    OBVIOUS
  <2>2. ASSUME NEW n \in 0..Len(t), ~IsPrefix(Upto(t, n), c) PROVE ~IsPrefix(Upto(t, n), d)
    <3>1. PICK h : h = Upto(t, n)
      OBVIOUS
    <3>2. h \in Chains /\ IsPrefix(h, t)
      BY <1>3, <3>1, UptoIs, UptoIsPrefix
    <3> QED
      BY <1>6, <2>2, <3>1, <3>2
  <2>3. ASSUME NEW k \in Int, k >= 0, \A n \in k + 1..Len(t) : ~IsPrefix(Upto(t, n), c)
        PROVE  \A n \in k + 1..Len(t) : ~IsPrefix(Upto(t, n), d)
    <3> TAKE n \in k + 1..Len(t)
    <3>1. k >= 0 /\ Len(t) \in Nat
      BY <1>3, <2>3
    <3>2. n \in 0..Len(t)
      BY <3>1
    <3> QED
      BY <2>2, <2>3, <3>2
  <2>4. IsPrefix(t, t)
    BY <1>3, PrefixOfItself
  <2>5. \A n : Abandoned(Upto(t, n)) <=> ~IsPrefix(Upto(t, n), c)
    BY <1>2 DEF Abandoned
  <2>6. Abandoned(t) <=> ~IsPrefix(t, c)
    BY <1>2 DEF Abandoned
  <2>7. Abandoned(Tip)' <=> ~IsPrefix(t, d)
    BY <1>4, <1>5 DEF Abandoned
  <2>8. \A n : Abandoned(Upto(Tip, n))' <=> ~IsPrefix(Upto(t, n), d)
    BY <1>4, <1>5 DEF Abandoned, Upto
  <2>9. Abandoned(Tip)'
    BY <1>3, <1>6, <1>7, <2>4, <2>6, <2>7
  <2>10. request'.pc = "walk" => /\ request'.at >= 0
                                 /\ \A n \in request'.at + 1..Len(Tip') : Abandoned(Upto(Tip, n))'
    BY <1>4, <1>7, <2>1, <2>3, <2>5, <2>8
  <2>11. request'.pc \in {"verify", "rewind"} /\ request'.scan # None =>
           /\ Len(request'.scan) < Len(Tip')
           /\ \A n \in Len(request'.scan) + 1..Len(Tip') : Abandoned(Upto(Tip, n))'
    <3>1. SUFFICES ASSUME request'.pc \in {"verify", "rewind"}, request'.scan # None
                   PROVE  len < Len(t) /\ \A n \in len + 1..Len(t) : ~IsPrefix(Upto(t, n), d)
      BY <1>4, <2>1, <2>8
    <3>2. len \in Nat /\ len < Len(t) /\ \A n \in len + 1..Len(t) : Abandoned(Upto(t, n))
      BY <1>7, <2>1, <3>1
    <3>3. len \in Int /\ len >= 0 /\ \A n \in len + 1..Len(t) : ~IsPrefix(Upto(t, n), c)
      BY <2>5, <3>2
    <3>4. \A n \in len + 1..Len(t) : ~IsPrefix(Upto(t, n), d)
      BY <2>3, <3>3
    <3> QED
      BY <3>2, <3>4
  <2> QED
    BY <1>4, <1>7, <2>9, <2>10, <2>11
<1>8. CASE request' = request
  <2>1. Abandoned(t)
    BY <1>2, <1>8 DEF DivergenceSound
  <2>2. request.pc = "walk" => /\ request.at \in Int /\ request.at >= 0
                               /\ \A n \in request.at + 1..Len(t) : Abandoned(Upto(t, n))
    BY <1>1, <1>2, <1>8 DEF DivergenceSound, RequestRecord
  <2>3. request.scan \in Chains
    BY <1>1 DEF RequestRecord
  <2>4. request.pc \in {"verify", "rewind"} /\ request.scan # None =>
             /\ Len(request.scan) \in Nat /\ Len(request.scan) < Len(t)
             /\ \A n \in Len(request.scan) + 1..Len(t) : Abandoned(Upto(t, n))
    <3>1. PICK h : h = request.scan
      OBVIOUS
    <3>2. h \in Chains
      BY <2>3, <3>1
    <3>3. Len(h) \in Nat
      BY <3>2 DEF Chains
    <3> QED
      BY <1>2, <3>1, <3>3 DEF DivergenceSound
  <2>5. ASSUME request.pc = "rewind" PROVE coord'.last = coord.last
    <3>1. ~Diverge
      BY <2>5 DEF Diverge
    <3>2. ~Restart
      BY <1>8, <2>5 DEF Restart, Idle
    <3> QED
      BY <3>1, <3>2, BelowAudit
  <2> QED
    BY <1>2, <1>8, <2>1, <2>2, <2>4, <2>5 DEF DivergenceSound
<1>9. CASE TipDiverges
  <2>1. Upto(c, Len(t)) # t /\ request' = [request EXCEPT !.pc = "new tip", !.scan = Upto(chain, Len(Tip))]
    BY <1>2, <1>9 DEF TipDiverges
  <2>2. Abandoned(t)
    BY <1>2, <1>3, <2>1, PrefixIsUpto DEF Abandoned
  <2>3. request'.pc = "new tip"
    BY <1>1, <2>1 DEF RequestRecord
  <2> QED
    BY <2>2, <2>3
<1>10. CASE ReadNewTip
  <2>1. PICK new, at : at = Len(t) - 1 /\ request' = [request EXCEPT !.pc = "walk", !.new = new, !.at = at]
    BY <1>2, <1>10 DEF ReadNewTip
  <2>2. request'.pc = "walk" /\ request'.at = at
    BY <1>1, <2>1 DEF RequestRecord
  <2>3. Abandoned(t)
    BY <1>2, <1>10 DEF ReadNewTip, DivergenceSound, Parting
  <2>4. ASSUME NEW n \in at + 1..Len(t) PROVE Abandoned(Upto(t, n))
    <3>1. n = Len(t)
      BY <1>3, <2>1
    <3> QED
      BY <1>3, <2>3, <3>1, UptoWhole
  <2> QED
    BY <1>3, <2>1, <2>2, <2>3, <2>4
<1>11. CASE Walk
  <2>1. PICK at, remote : at = request.at /\ remote = Upto(c, at)
    OBVIOUS
  <2>2. /\ request.pc = "walk"
        /\ IF remote \in journal THEN request' = [request EXCEPT !.pc = "verify", !.scan = remote]
                                 ELSE request' = [request EXCEPT !.at = at - 1]
    BY <1>2, <1>11, <2>1 DEF Walk
  <2>3. at < Len(t) /\ Len(t) <= request.head /\ Abandoned(t)
        /\ \A n \in at + 1..Len(t) : Abandoned(Upto(t, n))
    <3>1. at < Len(t)
      BY <1>2, <2>1, <2>2, AtCoord DEF RequestSound
    <3> QED
      BY <1>2, <2>1, <2>2, <3>1, AtRequest DEF DivergenceSound, Parting
  <2>4. PICK h \in Known : Len(h) = at
    BY <1>11, <2>1 DEF Walk, InWindow
  <2>5. h \in journal /\ h \in Chains /\ IsPrefix(h, t) /\ at \in Nat \ {0}
    BY <1>2, <2>4, KnownIs, AtChain
  <2>6. h = Upto(t, at)
    BY <1>3, <2>4, <2>5, PrefixIsUpto
  <2>7. remote \in Chains /\ Len(remote) = at
    <3>0. at \in Nat /\ at < Len(t) /\ Len(t) \in Nat /\ Len(t) <= Len(c) /\ Len(c) \in Nat
      BY <1>3, <2>3, <2>5
    <3>1. at \in 0..Len(c)
      BY <3>0
    <3> QED
      BY <1>3, <2>1, <3>1, UptoIs
  <2>8. CASE remote \in journal
    <3>1. request'.pc = "verify" /\ request'.scan = remote /\ request'.head = request.head
      BY <1>1, <2>2, <2>8 DEF RequestRecord
    <3> QED
      BY <2>3, <2>5, <2>7, <3>1
  <2>9. CASE remote \notin journal
    <3>1. request'.pc = "walk" /\ request'.at = at - 1
      BY <1>1, <2>2, <2>9 DEF RequestRecord
    <3>2. Abandoned(Upto(t, at))
      <4>1. remote # h
        BY <2>5, <2>9
      <4>2. ~IsPrefix(h, c)
        BY <1>3, <2>1, <2>4, <2>5, <4>1, PrefixIsUpto
      <4> QED
        BY <1>2, <2>6, <4>2 DEF Abandoned
    <3>3. ASSUME NEW n \in (at - 1) + 1..Len(t) PROVE n = at \/ n \in at + 1..Len(t)
      <4>1. at \in Int /\ Len(t) \in Nat
        BY <1>3, <2>5
      <4> QED
        BY <4>1
    <3>4. \A n \in (at - 1) + 1..Len(t) : Abandoned(Upto(t, n))
      BY <2>3, <3>2, <3>3
    <3> QED
      BY <2>3, <2>5, <3>1, <3>4
  <2> QED
    BY <2>8, <2>9
<1>12. CASE NoAncestor
  <2>1. request.pc = "walk" /\ request' = [request EXCEPT !.pc = "verify", !.scan = None]
    BY <1>12 DEF NoAncestor
  <2>2. request'.pc = "verify" /\ request'.scan = None /\ request'.head = request.head
    BY <1>1, <2>1 DEF RequestRecord
  <2>3. Abandoned(t) /\ Len(t) <= request.head
    BY <1>2, <2>1, AtRequest DEF DivergenceSound, Parting
  <2> QED
    BY <2>2, <2>3
<1>13. CASE Diverge
  <2>1. request.pc = "verify" /\ request' = [request EXCEPT !.pc = "rewind"]
    BY <1>13 DEF Diverge
  <2>2. request'.pc = "rewind" /\ request'.scan = request.scan /\ request.scan \in Chains
    BY <1>1, <2>1 DEF RequestRecord
  <2>3. coord'.last = <<t, request.new>>
    BY <1>2, <1>13, CoordMoves
  <2>4. Len(request.new) = request.head /\ Len(t) <= request.head
    BY <1>2, <2>1 DEF ReplayInv, HeadsSound, DivergenceSound
  <2>5. Abandoned(t)
    BY <1>2, <2>1 DEF DivergenceSound, Parting
  <2>6. request.scan # None => /\ Len(request.scan) \in Nat /\ Len(request.scan) < Len(t)
                               /\ \A n \in Len(request.scan) + 1..Len(t) : Abandoned(Upto(t, n))
    BY <1>2, <2>1, <2>2 DEF DivergenceSound, Chains
  <2> QED
    BY <2>2, <2>3, <2>4, <2>5, <2>6
<1> QED
  BY <1>8, <1>9, <1>10, <1>11, <1>12, <1>13, LeadsTo DEF Parting


LEMMA DivergenceNext ==
  ASSUME ~Comeback, ChainInv, BelowInv, ReplayInv, TurnsSound, DivergenceSound, [Next]_vars
  PROVE  DivergenceSound'
<1>1. Moved
  BY NodeIsMoved
<1>2. \A id \in DOMAIN audit' : Abandoned(id[1])'
  BY <1>1, AuditStaysLeft
<1>3. coord'.state # "MANUAL_REVIEW" => \A id \in DOMAIN audit' : ~IsPrefix(id[1], Tip')
  BY <1>1, AuditNotStored
<1>4. request'.pc = "scan" /\ request'.save /\ request'.at > request'.head =>
        \A id \in DOMAIN audit' : ~IsPrefix(id[1], request'.scan)
  BY <1>1, ScanIsNew
<1>5. ASSUME request'.pc \in Parting
      PROVE  /\ Abandoned(Tip)'
             /\ request'.pc = "walk" => /\ request'.at >= 0
                                        /\ \A n \in request'.at + 1..Len(Tip') : Abandoned(Upto(Tip, n))'
             /\ request'.pc \in {"verify", "rewind"} /\ request'.scan # None =>
                  /\ Len(request'.scan) < Len(Tip')
                  /\ \A n \in Len(request'.scan) + 1..Len(Tip') : Abandoned(Upto(Tip, n))'
             /\ request'.pc = "verify" => Len(Tip') <= request'.head
             /\ request'.pc = "rewind" => coord'.last[1] = Tip' /\ Len(Tip') <= Len(coord'.last[2])
  BY <1>1, <1>5, LeftBehind
<1>6. request'.pc \in {"walk", "verify", "rewind"} => request'.pc \in Parting
  BY DEF Parting
<1> QED
  BY <1>2, <1>3, <1>4, <1>5, <1>6 DEF DivergenceSound

LEMMA DivergenceInit == Init => TurnsSound /\ DivergenceSound
<1> SUFFICES ASSUME Init PROVE TurnsSound /\ DivergenceSound
  OBVIOUS
<1>1. request.pc = "idle" /\ audit = <<>> /\ coord.state = "HEALTHY"
  BY DEF Init, Idle
<1>2. DOMAIN audit = {}
  BY <1>1
<1>3. "idle" \notin Busy /\ "idle" \notin Parting
  BY DEF Busy, Parting
<1> QED
  BY <1>1, <1>2, <1>3 DEF TurnsSound, DivergenceSound

\* A request runs only in the state of the coordinator that admits it: the rollback of
\* a divergence while it reconciles and nobody waits for a replay, everything else on a
\* healthy chain or for the replay (the status that reconcile() and execute() read).
THEOREM RequestsTakeTurns == Spec => []TurnsSound
<1>1. ChainInv /\ ReplayInv /\ TurnsSound /\ [Next]_vars => TurnsSound'
  BY TurnsNext
<1>2. Init => TurnsSound
  BY DivergenceInit
<1> QED
  BY <1>1, <1>2, ChainInvariant, ReplayInvariant, PTL DEF Spec

\* What a divergence compares, walks back and rolls back is what the node has left, all of
\* it and for good, and a divergence already in the audit is of a chain that is not stored
\* any more: rewindToAncestor repeats no rollback and drops no block the node still has.
THEOREM DivergencesAreReal == ASSUME ~Comeback PROVE Spec => []DivergenceSound
<1>1. ChainInv /\ BelowInv /\ ReplayInv /\ TurnsSound /\ DivergenceSound /\ [Next]_vars => DivergenceSound'
  BY DivergenceNext
<1>2. Init => DivergenceSound
  BY DivergenceInit
<1> QED
  BY <1>1, <1>2, ChainInvariant, ReplayInvariant, RequestsTakeTurns, ForksLeftBehind, PTL DEF Spec
==============================================================================
