------------------------ MODULE IslandKernelsProofs ------------------------
(***************************************************************************)
(* Theorems about IslandKernels, for fills and grids of any size, any      *)
(* thresholds and numbers of pre- and postsamples, and any order of the    *)
(* warps.                                                                  *)
(***************************************************************************)
EXTENDS IslandKernels, FiniteSetTheorems, FunctionTheorems, WellFoundedInduction, TLAPS

-----------------------------------------------------------------------------
(* Numbers: the least of a set, the larger and the smaller of two.          *)
LEMMA LeastNumber ==
  ASSUME NEW T \in SUBSET Nat, T # {}
  PROVE  \E x \in T : \A y \in T : x <= y
  <1>1. PICK x \in T : \A y \in T : <<y, x>> \notin OpToRel(<, Nat)
    BY WFMin, NatLessThanWellFounded
  <1>2. ASSUME NEW y \in T PROVE ~ (y < x)
    <2>1. <<y, x>> \notin {ss \in Nat \X Nat : ss[1] < ss[2]}
      BY <1>1 DEF OpToRel
    <2> QED
      BY <2>1
  <1> QED
    BY <1>2

LEMMA MaxOfTwo ==
  ASSUME NEW a \in Int, NEW b \in Int
  PROVE  Max({a, b}) \in {a, b} /\ Max({a, b}) >= a /\ Max({a, b}) >= b
  <1>1. \E x \in {a, b} : \A y \in {a, b} : x >= y
    <2>1. CASE a >= b
      BY <2>1
    <2>2. CASE b >= a
      BY <2>2
    <2> QED
      BY <2>1, <2>2
  <1> QED
    BY <1>1 DEF Max

LEMMA MinOfTwo ==
  ASSUME NEW a \in Int, NEW b \in Int
  PROVE  Min({a, b}) \in {a, b} /\ Min({a, b}) <= a /\ Min({a, b}) <= b
  <1>1. \E x \in {a, b} : \A y \in {a, b} : x <= y
    <2>1. CASE a <= b
      BY <2>1
    <2>2. CASE b <= a
      BY <2>2
    <2> QED
      BY <2>1, <2>2
  <1> QED
    BY <1>1 DEF Min

LEMMA DivMod ==
  ASSUME NEW a \in Nat, NEW b \in Nat \ {0}
  PROVE  a \div b \in Nat /\ a % b \in 0 .. b - 1 /\ a = b * (a \div b) + (a % b)
  BY SMT

LEMMA TimesKeepsOrder ==
  ASSUME NEW a \in Nat, NEW b \in Nat, NEW c \in Nat, a <= b
  PROVE  a * c \in Nat /\ b * c \in Nat /\ a * c <= b * c
  BY SMT

-----------------------------------------------------------------------------
(* The grid: whole warps, which take every sample in one pass or another.   *)
LEMMA GridOfWarps ==
  /\ GridThreads \in Nat \ {0} /\ LANES \in Nat \ {0} /\ DEV_N_samples \in Nat \ {0}
  /\ \E c \in Nat \ {0} : GridThreads = c * LANES /\ Warp = 0 .. c - 1
  <1>1. /\ LANES \in Nat \ {0} /\ DEV_N_samples \in Nat \ {0} /\ n_threads_per_block \in Nat \ {0}
        /\ n_threads_per_block % LANES = 0
    BY KernelAssumption
  <1>2. n_blocks \in Nat \ {0}
    <2>1. DEV_N_samples \div n_threads_per_block \in Nat
      BY <1>1, DivMod
    <2> QED
      BY <2>1, MaxOfTwo DEF n_blocks
  <1> DEFINE q == n_threads_per_block \div LANES
             c == n_blocks * q
  <1>3. q \in Nat /\ n_threads_per_block = LANES * q
    <2>1. q \in Nat /\ n_threads_per_block = LANES * q + (n_threads_per_block % LANES)
      BY <1>1, DivMod
    <2>2. LANES * q \in Nat
      BY <1>1, <2>1
    <2> QED
      BY <1>1, <2>1, <2>2
  <1>4. q # 0
    BY <1>1, <1>3
  <1> HIDE DEF q
  <1>5. c \in Nat \ {0} /\ GridThreads = c * LANES
    BY <1>1, <1>2, <1>3, <1>4 DEF GridThreads
  <1> HIDE DEF c
  <1>6. (c * LANES) \div LANES = c
    BY <1>1, <1>5
  <1>7. Warp = 0 .. c - 1
    BY <1>5, <1>6 DEF Warp
  <1>8. c * LANES \in Nat \ {0}
    BY <1>1, <1>5
  <1> QED
    BY <1>1, <1>5, <1>7, <1>8

LEMMA WarpIsNat == Warp \subseteq Nat
  BY GridOfWarps

LEMMA SamplesAreNat ==
  /\ Sample \subseteq Nat /\ \A s \in Sample : s < DEV_N_samples
  /\ \A w, p : SamplesOf(w, p) \subseteq Sample
  BY GridOfWarps DEF Sample, SamplesOf

LEMMA EverySampleIsTaken ==
  ASSUME NEW s \in Sample
  PROVE  \E w \in Warp, p \in Nat : s \in SamplesOf(w, p)
  <1>1. PICK c \in Nat \ {0} : GridThreads = c * LANES /\ Warp = 0 .. c - 1
    BY GridOfWarps
  <1>2. GridThreads \in Nat \ {0} /\ LANES \in Nat \ {0} /\ s \in Nat
    BY GridOfWarps, SamplesAreNat
  <1> DEFINE p == s \div GridThreads
             r == s % GridThreads
  <1>3. p \in Nat /\ r \in 0 .. GridThreads - 1 /\ s = GridThreads * p + r
    BY <1>2, DivMod
  <1> HIDE DEF p, r
  <1>4. r \in Nat /\ LANES \in Nat \ {0}
    BY <1>2, <1>3
  <1> DEFINE w == r \div LANES
             l == r % LANES
  <1>5. w \in Nat /\ l \in 0 .. LANES - 1 /\ r = LANES * w + l
    BY <1>4, DivMod
  <1> HIDE DEF w, l
  <1>6. w < c
    <2> SUFFICES ASSUME c <= w PROVE FALSE
      BY <1>5
    <2>1. c * LANES <= w * LANES /\ w * LANES \in Nat /\ LANES * w = w * LANES
      BY <1>2, <1>5, TimesKeepsOrder
    <2> QED
      BY <1>1, <1>3, <1>5, <2>1, SMTT(30)
  <1>7. /\ w * LANES + p * GridThreads <= s
        /\ s <= (w + 1) * LANES + p * GridThreads - 1
    <2>1. w * LANES \in Nat /\ p * GridThreads \in Nat /\ LANES * w = w * LANES
          /\ GridThreads * p = p * GridThreads /\ (w + 1) * LANES = w * LANES + LANES
      BY <1>2, <1>3, <1>5
    <2> QED
      BY <1>2, <1>3, <1>5, <2>1
  <1>8. s \in SamplesOf(w, p)
    <2>1. w * LANES + p * GridThreads \in Int /\ (w + 1) * LANES + p * GridThreads - 1 \in Int
      BY <1>2, <1>3, <1>5
    <2> QED
      BY <1>2, <1>7, <2>1 DEF SamplesOf
  <1> QED
    BY <1>1, <1>3, <1>5, <1>6, <1>8

LEMMA NoMorePasses ==
  ASSUME NEW w \in Warp, NEW p \in Nat, NEW q \in Nat, p <= q, SamplesOf(w, p) = {}
  PROVE  SamplesOf(w, q) = {}
  <1>1. GridThreads \in Nat \ {0} /\ LANES \in Nat \ {0} /\ DEV_N_samples \in Nat \ {0} /\ w \in Nat
    BY GridOfWarps, WarpIsNat
  <1>2. w * LANES \in Nat /\ (w + 1) * LANES = w * LANES + LANES
    BY <1>1
  <1>3. p * GridThreads \in Nat /\ q * GridThreads \in Nat /\ p * GridThreads <= q * GridThreads
    BY <1>1, TimesKeepsOrder
  <1> DEFINE a == w * LANES
             b == p * GridThreads
             d == q * GridThreads
  <1>4. /\ SamplesOf(w, p) = (a + b .. a + LANES + b - 1) \cap (0 .. DEV_N_samples - 1)
        /\ SamplesOf(w, q) = (a + d .. a + LANES + d - 1) \cap (0 .. DEV_N_samples - 1)
    BY <1>2 DEF SamplesOf, Sample
  <1>5. a \in Nat /\ b \in Nat /\ d \in Nat /\ b <= d
    BY <1>2, <1>3
  <1> HIDE DEF a, b, d
  <1>6. a + b >= DEV_N_samples
    <2>1. a + b \notin (a + b .. a + LANES + b - 1) \cap (0 .. DEV_N_samples - 1)
      BY <1>4
    <2>2. a + b \in a + b .. a + LANES + b - 1
      BY <1>1, <1>5
    <2> QED
      BY <1>1, <1>5, <2>1, <2>2
  <1> QED
    BY <1>1, <1>4, <1>5, <1>6

-----------------------------------------------------------------------------
(* A warp's program counter and lanes, and an entry of the island table.    *)
WarpState == [pc : {"self", "left", "right", "before", "after", "number", "offset", "end"},
              pass : Nat, boi : SUBSET Sample, eoi : SUBSET Sample, k : Nat]
WarpsTyped ==
  /\ warp \in [Warp -> WarpState]
  /\ \A n \in DOMAIN island_info : DOMAIN island_info[n] = {"time", "length", "offset"}
  /\ n_islands \in Nat

-----------------------------------------------------------------------------
(* Where a step puts its warp; the others stay.                             *)
LanesOwn == \A w \in Warp : warp[w].boi \cup warp[w].eoi \subseteq SamplesOf(w, warp[w].pass)

At(w, pc, pass, boi, eoi, k) ==
  /\ warp'[w].pc = pc /\ warp'[w].pass = pass
  /\ warp'[w].boi = boi /\ warp'[w].eoi = eoi /\ warp'[w].k = k
  /\ \A v \in Warp \ {w} : warp'[v] = warp[v]

LEMMA GotoGoes ==
  ASSUME warp \in [Warp -> WarpState], LanesOwn, NEW w \in Warp,
         NEW pc \in {"self", "left", "right", "before", "after", "number", "offset", "end"},
         NEW boi, NEW eoi, boi \cup eoi \subseteq SamplesOf(w, warp[w].pass), NEW k \in Nat,
         Goto(w, pc, boi, eoi, k)
  PROVE  warp' \in [Warp -> WarpState] /\ LanesOwn' /\ At(w, pc, warp[w].pass, boi, eoi, k)
  <1> DEFINE r == [warp[w] EXCEPT !.pc = pc, !.boi = boi, !.eoi = eoi, !.k = k]
  <1>1. warp[w] \in WarpState /\ boi \in SUBSET Sample /\ eoi \in SUBSET Sample
    BY SamplesAreNat
  <1>2. /\ r \in WarpState /\ r.pc = pc /\ r.pass = warp[w].pass
        /\ r.boi = boi /\ r.eoi = eoi /\ r.k = k
    BY <1>1 DEF WarpState
  <1>3. warp' = [warp EXCEPT ![w] = r]
    BY DEF Goto
  <1> HIDE DEF r
  <1>4. warp' \in [Warp -> WarpState] /\ warp'[w] = r /\ \A v \in Warp \ {w} : warp'[v] = warp[v]
    BY <1>2, <1>3
  <1>5. LanesOwn'
    BY <1>2, <1>4 DEF LanesOwn
  <1> QED
    BY <1>2, <1>4, <1>5 DEF At

LEMMA NextPassGoes ==
  ASSUME warp \in [Warp -> WarpState], LanesOwn, NEW w \in Warp, NextPass(w)
  PROVE  /\ warp' \in [Warp -> WarpState] /\ LanesOwn'
         /\ At(w, "self", warp[w].pass + 1, {}, {}, 0)
  <1> DEFINE r == [pc |-> "self", pass |-> warp[w].pass + 1, boi |-> {}, eoi |-> {}, k |-> 0]
  <1>1. warp[w] \in WarpState
    OBVIOUS
  <1>2. /\ r \in WarpState /\ r.pc = "self" /\ r.pass = warp[w].pass + 1
        /\ r.boi = {} /\ r.eoi = {} /\ r.k = 0
    BY <1>1 DEF WarpState
  <1>3. warp' = [warp EXCEPT ![w] = r]
    BY DEF NextPass
  <1> HIDE DEF r
  <1>4. warp' \in [Warp -> WarpState] /\ warp'[w] = r /\ \A v \in Warp \ {w} : warp'[v] = warp[v]
    BY <1>2, <1>3
  <1>5. LanesOwn'
    BY <1>2, <1>4 DEF LanesOwn
  <1> QED
    BY <1>2, <1>4, <1>5 DEF At

LEMMA StartGoes ==
  /\ AtStart \in [Warp -> WarpState]
  /\ \A w \in Warp : /\ AtStart[w].pc = "self" /\ AtStart[w].pass = 0 /\ AtStart[w].boi = {}
                     /\ AtStart[w].eoi = {} /\ AtStart[w].k = 0
  <1> DEFINE r == [pc |-> "self", pass |-> 0, boi |-> {}, eoi |-> {}, k |-> 0]
  <1>1. /\ r \in WarpState /\ r.pc = "self" /\ r.pass = 0 /\ r.boi = {} /\ r.eoi = {} /\ r.k = 0
    BY DEF WarpState
  <1>2. AtStart = [w \in Warp |-> r]
    BY DEF AtStart
  <1> HIDE DEF r
  <1> QED
    BY <1>1, <1>2

LEMMA StartOwns ==
  ASSUME warp = AtStart PROVE LanesOwn
  BY StartGoes DEF LanesOwn

-----------------------------------------------------------------------------
(* Types.  The lanes of a warp that begin an island take the numbers from   *)
(* n_islands on, each once, in whatever order atomicAdd serves them.        *)
LEMMA OrdersNumber ==
  ASSUME NEW S \in SUBSET Sample, NEW order \in Orders(S), NEW m \in Nat
  PROVE  /\ Cardinality(S) \in Nat
         /\ {m + order[s] : s \in S} = m .. m + Cardinality(S) - 1
         /\ \A s, t \in S : s # t => order[s] # order[t]
  <1> DEFINE c == Cardinality(S)
             T == 0 .. c - 1
  <1>1. IsFiniteSet(S) /\ c \in Nat
    <2>1. IsFiniteSet(Sample)
      BY GridOfWarps, FS_Interval DEF Sample
    <2> QED
      BY <2>1, FS_Subset, FS_CardinalityType
  <1>2. IsFiniteSet(T) /\ Cardinality(T) = c
    BY <1>1, FS_Interval, SMTT(30)
  <1>3. order \in [S -> T] /\ \A s, t \in S : s # t => order[s] # order[t]
    BY DEF Orders
  <1> HIDE DEF c, T
  <1>4. order \in Injection(S, T)
    BY <1>3 DEF Injection, IsInjective
  <1>5. order \in Surjection(S, T)
    BY <1>1, <1>2, <1>4, FS_Injection DEF c
  <1>6. \A t \in T : \E s \in S : order[s] = t
    BY <1>5 DEF Surjection
  <1>7. ASSUME NEW n PROVE n \in {m + order[s] : s \in S} <=> n \in m .. m + c - 1
    <2>1. ASSUME n \in {m + order[s] : s \in S} PROVE n \in m .. m + c - 1
      <3>1. PICK s \in S : n = m + order[s]
        BY <2>1
      <3>2. order[s] \in T
        BY <1>3
      <3> QED
        BY <1>1, <3>1, <3>2 DEF T
    <2>2. ASSUME n \in m .. m + c - 1 PROVE n \in {m + order[s] : s \in S}
      <3>1. n - m \in T
        BY <1>1, <2>2 DEF T
      <3>2. PICK s \in S : order[s] = n - m
        BY <1>6, <3>1
      <3>3. n = m + order[s]
        BY <1>1, <2>2, <3>2
      <3> QED
        BY <3>3
    <2> QED
      BY <2>1, <2>2
  <1> QED
    BY <1>1, <1>3, <1>7 DEF c

TypeInv == TypeOK /\ WarpsTyped

LEMMA TakeNumberTyped ==
  ASSUME TypeInv, NEW w \in Warp, TakeNumber(w)
  PROVE  TypeInv'
  <1> DEFINE boi == warp[w].boi
  <1>1. /\ kernel = "find" /\ kernel' = "find" /\ n_islands \in Nat
        /\ n_islands' = n_islands + Cardinality(boi)
        /\ Goto(w, "offset", boi, {}, 0)
    BY DEF TakeNumber, TypeInv, WarpsTyped
  <1>2. warp \in [Warp -> WarpState] /\ LanesOwn /\ boi \subseteq SamplesOf(w, warp[w].pass)
    BY DEF TypeInv, TypeOK, WarpsTyped, LanesOwn
  <1>3. boi \in SUBSET Sample
    BY <1>2, SamplesAreNat
  <1>4. PICK order \in Orders(boi) :
          LET new == {n_islands + order[s] : s \in boi}
              at(n) == CHOOSE s \in boi : n_islands + order[s] = n
          IN /\ island_info' = [n \in new \cup DOMAIN island_info |->
                                  IF n \notin new THEN island_info[n]
                                  ELSE [time |-> at(n), length |-> RunEnd(at(n)) - at(n),
                                        offset |-> 0]]
             /\ island_pattern' = [i \in Sample |->
                   IF \E n \in new : i \in at(n) .. RunEnd(at(n)) - 1
                   THEN 1 + CHOOSE n \in new : i \in at(n) .. RunEnd(at(n)) - 1
                   ELSE island_pattern[i]]
    BY DEF TakeNumber
  <1> DEFINE new == {n_islands + order[s] : s \in boi}
             at(n) == CHOOSE s \in boi : n_islands + order[s] = n
  <1> HIDE DEF boi
  <1>5. Cardinality(boi) \in Nat /\ new = n_islands .. n_islands + Cardinality(boi) - 1
    BY <1>1, <1>3, <1>4, OrdersNumber
  <1>6. \A n \in new : at(n) \in boi
    BY DEF new
  <1> HIDE DEF new, at
  <1>7. /\ island_info' = [n \in new \cup DOMAIN island_info |->
                             IF n \notin new THEN island_info[n]
                             ELSE [time |-> at(n), length |-> RunEnd(at(n)) - at(n), offset |-> 0]]
        /\ island_pattern' = [i \in Sample |->
              IF \E n \in new : i \in at(n) .. RunEnd(at(n)) - 1
              THEN 1 + CHOOSE n \in new : i \in at(n) .. RunEnd(at(n)) - 1
              ELSE island_pattern[i]]
    BY <1>4 DEF new, at
  <1>8. DOMAIN island_info' = 0 .. n_islands' - 1
    BY <1>1, <1>5, <1>7 DEF TypeInv, TypeOK
  <1>9. ASSUME NEW n \in DOMAIN island_info'
        PROVE  /\ island_info'[n].time \in Sample
               /\ DOMAIN island_info'[n] = {"time", "length", "offset"}
    <2>1. CASE n \in new
      <3>1. island_info'[n] = [time |-> at(n), length |-> RunEnd(at(n)) - at(n), offset |-> 0]
        BY <1>7, <2>1
      <3> QED
        BY <1>3, <1>6, <2>1, <3>1
    <2>2. CASE n \notin new
      <3>1. n \in DOMAIN island_info /\ island_info'[n] = island_info[n]
        BY <1>7, <2>2
      <3> QED
        BY <3>1 DEF TypeInv, TypeOK, WarpsTyped
    <2> QED
      BY <2>1, <2>2
  <1>10. island_pattern' \in [Sample -> Nat]
    <2>1. ASSUME NEW i \in Sample PROVE island_pattern'[i] \in Nat
      <3>1. CASE \E n \in new : i \in at(n) .. RunEnd(at(n)) - 1
        <4> DEFINE n == CHOOSE n \in new : i \in at(n) .. RunEnd(at(n)) - 1
        <4>1. n \in new
          BY <3>1
        <4>2. n \in Nat
          BY <1>1, <1>5, <4>1
        <4> HIDE DEF n
        <4>3. island_pattern'[i] = 1 + n
          BY <1>7, <3>1 DEF n
        <4> QED
          BY <4>2, <4>3
      <3>2. CASE ~ \E n \in new : i \in at(n) .. RunEnd(at(n)) - 1
        BY <1>7, <3>2 DEF TypeInv, TypeOK
      <3> QED
        BY <3>1, <3>2
    <2> QED
      BY <1>7, <2>1
  <1>11. warp' \in [Warp -> WarpState] /\ LanesOwn'
    BY <1>1, <1>2, GotoGoes DEF boi
  <1> QED
    BY <1>1, <1>5, <1>8, <1>9, <1>10, <1>11 DEF TypeInv, TypeOK, WarpsTyped, LanesOwn

LEMMA TakeRoomTyped ==
  ASSUME TypeInv, NEW w \in Warp, TakeRoom(w)
  PROVE  TypeInv'
  <1>1. /\ kernel' = kernel /\ n_islands' = n_islands /\ island_pattern' = island_pattern
        /\ NextPass(w)
    BY DEF TakeRoom
  <1>2. \E o : island_info' = [n \in DOMAIN island_info |->
                                 IF island_info[n].time \in warp[w].boi
                                 THEN [island_info[n] EXCEPT !.offset = o[island_info[n].time]]
                                 ELSE island_info[n]]
    <2>1. PICK order \in Orders(warp[w].boi) :
            LET start == [s \in warp[w].boi |->
                            island_offset + RoomOf(island_info, {t \in warp[w].boi : order[t] < order[s]})]
            IN island_info' = [n \in DOMAIN island_info |->
                  IF island_info[n].time \in warp[w].boi
                  THEN [island_info[n] EXCEPT !.offset = start[island_info[n].time]]
                  ELSE island_info[n]]
      BY DEF TakeRoom
    <2> DEFINE start == [s \in warp[w].boi |->
                 island_offset + RoomOf(island_info, {t \in warp[w].boi : order[t] < order[s]})]
    <2>2. island_info' = [n \in DOMAIN island_info |->
                IF island_info[n].time \in warp[w].boi
                THEN [island_info[n] EXCEPT !.offset = start[island_info[n].time]]
                ELSE island_info[n]]
      BY <2>1
    <2> HIDE DEF start
    <2> QED
      BY <2>2
  <1>3. DOMAIN island_info' = DOMAIN island_info
    BY <1>2
  <1>4. ASSUME NEW n \in DOMAIN island_info
        PROVE  island_info'[n].time = island_info[n].time
               /\ DOMAIN island_info'[n] = {"time", "length", "offset"}
    <2>1. DOMAIN island_info[n] = {"time", "length", "offset"}
      BY DEF TypeInv, WarpsTyped
    <2> QED
      BY <1>2, <2>1
  <1>5. warp \in [Warp -> WarpState] /\ LanesOwn
    BY DEF TypeInv, TypeOK, WarpsTyped, LanesOwn
  <1>6. warp' \in [Warp -> WarpState] /\ LanesOwn'
    BY <1>1, <1>5, NextPassGoes
  <1> QED
    BY <1>1, <1>3, <1>4, <1>6 DEF TypeInv, TypeOK, WarpsTyped, LanesOwn

(* What the kernels other than kernel_find_islands do to a warp.            *)
LEMMA LanesTyped ==
  ASSUME TypeInv, NEW w \in Warp, ReadSelf(w) \/ ReadLeft(w) \/ ReadRight(w) \/ Extend(w)
  PROVE  warp' \in [Warp -> WarpState] /\ LanesOwn' /\ kernel \in {"extend", "find"}
  <1>1. warp \in [Warp -> WarpState] /\ LanesOwn
    BY DEF TypeInv, TypeOK, WarpsTyped, LanesOwn
  <1>2. /\ warp[w].boi \subseteq SamplesOf(w, warp[w].pass)
        /\ warp[w].eoi \subseteq SamplesOf(w, warp[w].pass)
        /\ warp[w].k \in Nat /\ warp[w].k + 1 \in Nat /\ 0 \in Nat
    BY <1>1 DEF LanesOwn, WarpState
  <1>3. CASE ReadSelf(w)
    <2> DEFINE lanes == SamplesOf(w, warp[w].pass)
               found == {s \in lanes : Marked(s)}
    <2>1. \/ Goto(w, "end", {}, {}, 0) \/ Goto(w, "left", found, found, 0)
      BY <1>3 DEF ReadSelf
    <2>2. found \cup found \subseteq SamplesOf(w, warp[w].pass)
      OBVIOUS
    <2> HIDE DEF found
    <2> QED
      BY <1>1, <1>2, <1>3, <2>1, <2>2, GotoGoes DEF ReadSelf
  <1>4. CASE ReadLeft(w)
    <2> DEFINE kept == {s \in warp[w].boi : BOI(s)}
    <2>1. \/ Goto(w, "right", kept, warp[w].eoi, 0) \/ Goto(w, "number", kept, warp[w].eoi, 0)
      BY <1>4 DEF ReadLeft
    <2>2. kept \cup warp[w].eoi \subseteq SamplesOf(w, warp[w].pass)
      BY <1>2
    <2> HIDE DEF kept
    <2> QED
      BY <1>1, <1>2, <1>4, <2>1, <2>2, GotoGoes DEF ReadLeft
  <1>5. CASE ReadRight(w)
    <2> DEFINE kept == {s \in warp[w].eoi : EOI(s)}
    <2>1. Goto(w, "before", warp[w].boi, kept, 0)
      BY <1>5 DEF ReadRight
    <2>2. warp[w].boi \cup kept \subseteq SamplesOf(w, warp[w].pass)
      BY <1>2
    <2> HIDE DEF kept
    <2> QED
      BY <1>1, <1>2, <1>5, <2>1, <2>2, GotoGoes DEF ReadRight
  <1>6. CASE Extend(w)
    <2>1. \/ Goto(w, "after", {}, warp[w].eoi, 0)
          \/ Goto(w, "before", warp[w].boi, warp[w].eoi, warp[w].k + 1)
          \/ Goto(w, "after", {}, warp[w].eoi, warp[w].k + 1)
          \/ NextPass(w)
      BY <1>6 DEF Extend
    <2> QED
      BY <1>1, <1>2, <1>6, <2>1, GotoGoes, NextPassGoes DEF Extend
  <1> QED
    BY <1>3, <1>4, <1>5, <1>6

LEMMA NextTyped == TypeInv /\ [Next]_vars => TypeInv'
  <1> SUFFICES ASSUME TypeInv, [Next]_vars PROVE TypeInv'
    OBVIOUS
  <1>1. ASSUME kernel' \in {"trigger", "extend", "find", "make", "tail", "copy", "copied"},
               island_pattern' \in [Sample -> Nat], UNCHANGED <<n_islands, island_info>>,
               warp' \in [Warp -> WarpState], LanesOwn'
        PROVE  TypeInv'
    BY <1>1 DEF TypeInv, TypeOK, WarpsTyped, LanesOwn
  <1>2. /\ warp \in [Warp -> WarpState] /\ LanesOwn /\ island_pattern \in [Sample -> Nat]
        /\ kernel \in {"trigger", "extend", "find", "make", "tail", "copy", "copied"}
    BY DEF TypeInv, TypeOK, WarpsTyped, LanesOwn
  <1>3. CASE NextFill
    <2>1. warp' \in [Warp -> WarpState] /\ LanesOwn'
      BY <1>3, StartGoes DEF NextFill, LanesOwn
    <2>2. DOMAIN island_info' = {} /\ n_islands' = 0 /\ kernel' = "trigger"
          /\ island_pattern' \in [Sample -> Nat]
      BY <1>3 DEF NextFill
    <2> QED
      BY <2>1, <2>2 DEF TypeInv, TypeOK, WarpsTyped, LanesOwn
  <1>4. CASE kernel_wf_trigger
    <2>1. island_pattern' \in [Sample -> Nat]
      BY <1>2, <1>4 DEF kernel_wf_trigger
    <2> QED
      BY <1>1, <1>2, <1>4, <2>1 DEF kernel_wf_trigger, LanesOwn
  <1>5. CASE KernelEnds
    <2>1. warp' \in [Warp -> WarpState] /\ LanesOwn'
      BY <1>5, StartGoes DEF KernelEnds, LanesOwn
    <2> QED
      BY <1>1, <1>2, <1>5, <2>1 DEF KernelEnds
  <1>6. ASSUME NEW w \in Warp, ReadSelf(w) \/ ReadLeft(w) \/ ReadRight(w) \/ Extend(w)
        PROVE  TypeInv'
    <2>1. warp' \in [Warp -> WarpState] /\ LanesOwn' /\ kernel \in {"extend", "find"}
      BY <1>6, LanesTyped
    <2>2. UNCHANGED <<kernel, n_islands, island_info>>
      BY <1>6 DEF ReadSelf, ReadLeft, ReadRight, Extend
    <2>3. island_pattern' \in [Sample -> Nat]
      <3>1. CASE UNCHANGED island_pattern
        BY <1>2, <3>1
      <3>2. CASE Extend(w)
        BY <1>2, <3>2 DEF Extend, atomicAdd
      <3> QED
        BY <1>6, <3>1, <3>2 DEF ReadSelf, ReadLeft, ReadRight
    <2> QED
      BY <1>1, <1>2, <2>1, <2>2, <2>3
  <1>7. ASSUME NEW w \in Warp, TakeNumber(w) \/ TakeRoom(w) PROVE TypeInv'
    BY <1>7, TakeNumberTyped, TakeRoomTyped
  <1>8. CASE kernel_make_islands \/ kernel_decimate_sum \/ CopyOutput
    <2>1. kernel' \in {"tail", "copy", "copied"}
          /\ UNCHANGED <<warp, island_pattern, n_islands, island_info>>
      BY <1>8 DEF kernel_make_islands, kernel_decimate_sum, CopyOutput
    <2> QED
      BY <1>1, <1>2, <2>1 DEF LanesOwn
  <1>9. CASE UNCHANGED vars
    BY <1>1, <1>2, <1>9 DEF vars, LanesOwn
  <1> QED
    BY <1>3, <1>4, <1>5, <1>6, <1>7, <1>8, <1>9 DEF Next

LEMMA InitTyped == Init => TypeInv
  <1> SUFFICES ASSUME Init PROVE TypeInv
    OBVIOUS
  <1>1. warp \in [Warp -> WarpState] /\ LanesOwn
    BY StartGoes, StartOwns DEF Init
  <1>2. DOMAIN island_info = {} /\ n_islands = 0 /\ kernel = "trigger"
        /\ island_pattern \in [Sample -> Nat]
    BY DEF Init
  <1> QED
    BY <1>1, <1>2 DEF TypeInv, TypeOK, WarpsTyped, LanesOwn

LEMMA AlwaysTyped == Spec => []TypeInv
  BY InitTyped, NextTyped, PTL DEF Spec

(* Variables keep their types: each island gets a number of its own however *)
(* the lanes are served, and a warp marks the samples of its lanes only.    *)
THEOREM TypeCorrect == Spec => []TypeOK
  BY AlwaysTyped, PTL DEF TypeInv

-----------------------------------------------------------------------------
(* A sample has its neighbours in the island when there are any to take.    *)
HasLeft(s) == DEV_N_presamples > 0 /\ s # 0 => Marked(s - 1)
HasRight(s) == DEV_N_postsamples > 0 /\ s # DEV_N_samples - 1 => Marked(s + 1)

(* The ends of the window of a sample.                                      *)
First(s) == Max({0, s - DEV_N_presamples})
Last(s) == Min({DEV_N_samples - 1, s + DEV_N_postsamples})

HitsOf(w, pass) == Hits \cap SamplesOf(w, pass)

(* How far a warp is with its hits in kernel_extend_islands: done in the    *)
(* passes before, and in this pass the hits that still need a neighbour are *)
(* among the lanes that begin or end an island, of which the loops have     *)
(* extended k samples.                                                      *)
WarpExtends(w) ==
  LET me == warp[w]
      hits == HitsOf(w, me.pass)
  IN /\ me.pc \notin {"number", "offset"}
     /\ \A p \in 0 .. me.pass - 1 : \A s \in HitsOf(w, p) : HasLeft(s) /\ HasRight(s)
     /\ me.pc = "left" => hits \subseteq me.boi
     /\ me.pc \in {"right", "before"} => \A s \in hits : s \in me.boi \/ HasLeft(s)
     /\ me.pc = "after" => \A s \in hits : HasLeft(s)
     /\ me.pc \in {"left", "right"} => hits \subseteq me.eoi
     /\ me.pc \in {"before", "after"} => \A s \in hits : s \in me.eoi \/ HasRight(s)
     /\ me.pc = "before" => \A s \in me.boi : \A i \in First(s) .. First(s) + me.k - 1 :
                              i < s => Marked(i)
     /\ me.pc = "after" => \A s \in me.eoi : \A i \in Last(s) - me.k + 1 .. Last(s) :
                              i > s => Marked(i)
     /\ me.pc = "end" => SamplesOf(w, me.pass) = {}

HitsExtended ==
  /\ kernel = "trigger" => warp = AtStart
  /\ kernel # "trigger" => \A s \in Hits : Marked(s)
  /\ kernel = "extend" => \A w \in Warp : WarpExtends(w)
  /\ Extended => \A s \in Hits : HasLeft(s) /\ HasRight(s)

LEMMA WindowEnds ==
  ASSUME NEW s \in Sample
  PROVE  /\ First(s) \in Nat /\ First(s) <= s /\ First(s) \in Sample
         /\ Last(s) \in Nat /\ Last(s) \in Sample /\ s <= Last(s)
         /\ s \in Nat /\ s < DEV_N_samples
         /\ DEV_N_presamples \in Nat /\ DEV_N_postsamples \in Nat /\ DEV_N_samples \in Nat \ {0}
         /\ (DEV_N_presamples > 0 /\ s # 0 => First(s) < s)
         /\ (DEV_N_postsamples > 0 /\ s # DEV_N_samples - 1 => Last(s) > s)
         /\ First(s) = Max({0, s - DEV_N_presamples})
         /\ Last(s) = Min({DEV_N_samples - 1, s + DEV_N_postsamples})
  <1>1. /\ s \in Nat /\ s < DEV_N_samples /\ DEV_N_presamples \in Nat /\ DEV_N_postsamples \in Nat
        /\ DEV_N_samples \in Nat \ {0}
    BY GridOfWarps, KernelAssumption DEF Sample
  <1>2. /\ First(s) \in {0, s - DEV_N_presamples} /\ First(s) >= 0 /\ First(s) >= s - DEV_N_presamples
    BY <1>1, MaxOfTwo DEF First
  <1>3. /\ Last(s) \in {DEV_N_samples - 1, s + DEV_N_postsamples}
        /\ Last(s) <= DEV_N_samples - 1 /\ Last(s) <= s + DEV_N_postsamples
    <2>1. DEV_N_samples - 1 \in Int /\ s + DEV_N_postsamples \in Int
      BY <1>1
    <2> QED
      BY <2>1, MinOfTwo DEF Last
  <1>4. First(s) \in Sample /\ Last(s) \in Sample
    BY <1>1, <1>2, <1>3 DEF Sample
  <1> QED
    BY <1>1, <1>2, <1>3, <1>4 DEF First, Last

LEMMA HitsStay ==
  UNCHANGED gpu_idata /\ UNCHANGED option => Hits' = Hits
  BY DEF Hits

(* Marks are only added: what a warp has seen to stays so.                  *)
LEMMA NeighboursStay ==
  ASSUME NEW s \in Sample, \A i \in Sample : Marked(i) => Marked(i)'
  PROVE  (HasLeft(s) => HasLeft(s)') /\ (HasRight(s) => HasRight(s)')
  <1>1. DEV_N_samples \in Nat /\ s \in 0 .. DEV_N_samples - 1
    BY GridOfWarps DEF Sample
  <1>2. (s # 0 => s - 1 \in Sample) /\ (s # DEV_N_samples - 1 => s + 1 \in Sample)
    BY <1>1 DEF Sample
  <1> QED
    BY <1>1, <1>2 DEF HasLeft, HasRight

LEMMA WarpStays ==
  ASSUME TypeInv, NEW w \in Warp, warp'[w] = warp[w], Hits' = Hits, WarpExtends(w),
         \A i \in Sample : Marked(i) => Marked(i)'
  PROVE  WarpExtends(w)'
  <1>1. \A p : HitsOf(w, p)' = HitsOf(w, p) /\ HitsOf(w, p) \subseteq Sample
    BY DEF HitsOf, Hits
  <1>2. \A s \in Sample : (HasLeft(s) => HasLeft(s)') /\ (HasRight(s) => HasRight(s)')
    BY NeighboursStay
  <1>3. /\ warp[w].boi \subseteq Sample /\ warp[w].eoi \subseteq Sample /\ warp[w].k \in Nat
    BY DEF TypeInv, WarpsTyped, WarpState
  <1>4. ASSUME NEW s \in Sample, NEW i \in First(s) .. First(s) + warp[w].k - 1, i < s
        PROVE  i \in Sample
    <2>1. First(s) \in Nat /\ s \in Nat /\ s < DEV_N_samples /\ DEV_N_samples \in Nat
      BY WindowEnds
    <2>2. First(s) + warp[w].k - 1 \in Int
      BY <1>3, <2>1
    <2>3. i \in Nat /\ i < DEV_N_samples
      BY <1>4, <2>1, <2>2
    <2> QED
      BY <2>1, <2>3 DEF Sample
  <1>5. ASSUME NEW s \in Sample, NEW i \in Last(s) - warp[w].k + 1 .. Last(s), i > s
        PROVE  i \in Sample
    <2>1. Last(s) \in Sample /\ s \in Nat /\ DEV_N_samples \in Nat
      BY WindowEnds
    <2>2. Last(s) \in 0 .. DEV_N_samples - 1 /\ Last(s) - warp[w].k + 1 \in Int
      BY <1>3, <2>1 DEF Sample
    <2>3. i \in Nat /\ i < DEV_N_samples
      BY <1>5, <2>1, <2>2
    <2> QED
      BY <2>1, <2>3 DEF Sample
  <1>6. warp[w].pc = "before" =>
          \A s \in warp[w].boi : \A i \in First(s) .. First(s) + warp[w].k - 1 :
            i < s => Marked(i)'
    BY <1>3, <1>4 DEF WarpExtends
  <1>7. warp[w].pc = "after" =>
          \A s \in warp[w].eoi : \A i \in Last(s) - warp[w].k + 1 .. Last(s) :
            i > s => Marked(i)'
    BY <1>3, <1>5 DEF WarpExtends
  <1> QED
    BY <1>1, <1>2, <1>6, <1>7 DEF WarpExtends, First, Last

LEMMA PassesStay ==
  ASSUME NEW w \in Warp, WarpExtends(w), Hits' = Hits,
         \A i \in Sample : Marked(i) => Marked(i)'
  PROVE  /\ \A p : HitsOf(w, p)' = HitsOf(w, p) /\ HitsOf(w, p) \subseteq Sample
                   /\ HitsOf(w, p) \subseteq SamplesOf(w, p)
         /\ \A s \in Sample : (HasLeft(s) => HasLeft(s)') /\ (HasRight(s) => HasRight(s)')
         /\ \A p \in 0 .. warp[w].pass - 1 : \A s \in HitsOf(w, p) : HasLeft(s)' /\ HasRight(s)'
  <1>1. \A p : HitsOf(w, p)' = HitsOf(w, p) /\ HitsOf(w, p) \subseteq Sample
               /\ HitsOf(w, p) \subseteq SamplesOf(w, p)
    BY DEF HitsOf, Hits
  <1>2. \A s \in Sample : (HasLeft(s) => HasLeft(s)') /\ (HasRight(s) => HasRight(s)')
    BY NeighboursStay
  <1> QED
    BY <1>1, <1>2 DEF WarpExtends

-----------------------------------------------------------------------------
(* The steps of a warp in kernel_extend_islands.                            *)
LEMMA ReadSelfExtends ==
  ASSUME TypeInv, HitsExtended, kernel = "extend", NEW w \in Warp, ReadSelf(w)
  PROVE  WarpExtends(w)'
  <1> DEFINE pass == warp[w].pass
             found == {s \in SamplesOf(w, pass) : Marked(s)}
  <1>1. warp \in [Warp -> WarpState] /\ LanesOwn /\ WarpExtends(w) /\ 0 \in Nat
    BY DEF TypeInv, TypeOK, WarpsTyped, LanesOwn, HitsExtended
  <1>2. UNCHANGED <<gpu_idata, option, island_pattern>> /\ Hits' = Hits
    BY HitsStay DEF ReadSelf
  <1>3. \A i \in Sample : Marked(i) => Marked(i)'
    BY <1>2 DEF Marked
  <1>4. /\ \A p : HitsOf(w, p)' = HitsOf(w, p)
        /\ \A p \in 0 .. pass - 1 : \A s \in HitsOf(w, p) : HasLeft(s)' /\ HasRight(s)'
    BY <1>1, <1>2, <1>3, PassesStay
  <1>5. HitsOf(w, pass) \subseteq found
    BY DEF HitsExtended, HitsOf
  <1>6. CASE SamplesOf(w, pass) = {}
    <2>1. Goto(w, "end", {}, {}, 0)
      BY <1>6 DEF ReadSelf
    <2>2. At(w, "end", pass, {}, {}, 0)
      BY <1>1, <2>1, GotoGoes
    <2> QED
      BY <1>4, <1>6, <2>2 DEF At, WarpExtends
  <1>7. CASE SamplesOf(w, pass) # {}
    <2>1. Goto(w, "left", found, found, 0) /\ found \cup found \subseteq SamplesOf(w, pass)
      BY <1>7 DEF ReadSelf
    <2> HIDE DEF found
    <2>2. At(w, "left", pass, found, found, 0)
      BY <1>1, <2>1, GotoGoes
    <2> QED
      BY <1>4, <1>5, <2>2 DEF At, WarpExtends
  <1> QED
    BY <1>6, <1>7

LEMMA ReadLeftExtends ==
  ASSUME TypeInv, HitsExtended, kernel = "extend", NEW w \in Warp, ReadLeft(w)
  PROVE  WarpExtends(w)'
  <1> DEFINE pass == warp[w].pass
             kept == {s \in warp[w].boi : BOI(s)}
  <1>1. /\ warp \in [Warp -> WarpState] /\ LanesOwn /\ WarpExtends(w) /\ 0 \in Nat
        /\ warp[w].boi \cup warp[w].eoi \subseteq SamplesOf(w, pass)
    BY DEF TypeInv, TypeOK, WarpsTyped, LanesOwn, HitsExtended
  <1>2. UNCHANGED <<gpu_idata, option, island_pattern>> /\ Hits' = Hits
    BY HitsStay DEF ReadLeft
  <1>3. \A i \in Sample : Marked(i) => Marked(i)'
    BY <1>2 DEF Marked
  <1>4. /\ \A p : HitsOf(w, p)' = HitsOf(w, p) /\ HitsOf(w, p) \subseteq Sample
        /\ \A s \in Sample : HasLeft(s) => HasLeft(s)'
        /\ \A p \in 0 .. pass - 1 : \A s \in HitsOf(w, p) : HasLeft(s)' /\ HasRight(s)'
    BY <1>1, <1>2, <1>3, PassesStay
  <1>5. warp[w].pc = "left" /\ Goto(w, "right", kept, warp[w].eoi, 0)
        /\ kept \cup warp[w].eoi \subseteq SamplesOf(w, pass)
    BY <1>1 DEF ReadLeft
  <1>6. \A s \in HitsOf(w, pass) : s \in kept \/ HasLeft(s)
    BY <1>1, <1>5 DEF WarpExtends, BOI, HasLeft
  <1>7. HitsOf(w, pass) \subseteq warp[w].eoi
    BY <1>1, <1>5 DEF WarpExtends
  <1> HIDE DEF kept
  <1>8. At(w, "right", pass, kept, warp[w].eoi, 0)
    BY <1>1, <1>5, GotoGoes
  <1> QED
    BY <1>4, <1>6, <1>7, <1>8 DEF At, WarpExtends

LEMMA ReadRightExtends ==
  ASSUME TypeInv, HitsExtended, kernel = "extend", NEW w \in Warp, ReadRight(w)
  PROVE  WarpExtends(w)'
  <1> DEFINE pass == warp[w].pass
             kept == {s \in warp[w].eoi : EOI(s)}
  <1>1. /\ warp \in [Warp -> WarpState] /\ LanesOwn /\ WarpExtends(w) /\ 0 \in Nat
        /\ warp[w].boi \cup warp[w].eoi \subseteq SamplesOf(w, pass)
        /\ warp[w].boi \subseteq Sample
    BY SamplesAreNat DEF TypeInv, TypeOK, WarpsTyped, LanesOwn, HitsExtended
  <1>2. UNCHANGED <<gpu_idata, option, island_pattern>> /\ Hits' = Hits
    BY HitsStay DEF ReadRight
  <1>3. \A i \in Sample : Marked(i) => Marked(i)'
    BY <1>2 DEF Marked
  <1>4. /\ \A p : HitsOf(w, p)' = HitsOf(w, p) /\ HitsOf(w, p) \subseteq Sample
        /\ \A s \in Sample : (HasLeft(s) => HasLeft(s)') /\ (HasRight(s) => HasRight(s)')
        /\ \A p \in 0 .. pass - 1 : \A s \in HitsOf(w, p) : HasLeft(s)' /\ HasRight(s)'
    BY <1>1, <1>2, <1>3, PassesStay
  <1>5. warp[w].pc = "right" /\ Goto(w, "before", warp[w].boi, kept, 0)
        /\ warp[w].boi \cup kept \subseteq SamplesOf(w, pass)
    BY <1>1 DEF ReadRight
  <1>6. \A s \in HitsOf(w, pass) : (s \in kept \/ HasRight(s)) /\ (s \in warp[w].boi \/ HasLeft(s))
    BY <1>1, <1>5 DEF WarpExtends, EOI, HasRight
  <1> HIDE DEF kept
  <1>7. At(w, "before", pass, warp[w].boi, kept, 0)
    BY <1>1, <1>5, GotoGoes
  <1>8. \A s \in warp[w].boi : First(s) .. First(s) + 0 - 1 = {}
    <2>1. \A s \in warp[w].boi : First(s) \in Nat
      BY <1>1, WindowEnds
    <2> QED
      BY <2>1
  <1> QED
    BY <1>4, <1>6, <1>7, <1>8 DEF At, WarpExtends, First, Last
(* What one turn of the loops has to do with the sample next to a hit.      *)
LEMMA BeforeTurn ==
  ASSUME NEW s \in Sample, NEW k \in Nat,
         \A i \in First(s) .. First(s) + k - 1 : i < s => Marked(i)
  PROVE  /\ Before(s, k) \subseteq Sample
         /\ Before(s, k) = {} => HasLeft(s)
         /\ \A i \in First(s) .. First(s) + (k + 1) - 1 :
              i < s => i \in Sample /\ (Marked(i) \/ i \in Before(s, k))
  <1>1. /\ First(s) \in Nat /\ First(s) <= s /\ s \in Nat /\ s < DEV_N_samples
        /\ DEV_N_samples \in Nat /\ (DEV_N_presamples > 0 /\ s # 0 => First(s) < s)
    BY WindowEnds
  <1>2. Before(s, k) = {i \in {First(s) + k} : i < s}
    BY DEF Before, First
  <1>3. Before(s, k) \subseteq Sample
    <2>1. \A i \in Before(s, k) : i \in Nat /\ i < DEV_N_samples
      BY <1>1, <1>2
    <2> QED
      BY <1>1, <2>1 DEF Sample
  <1>4. ASSUME Before(s, k) = {}, DEV_N_presamples > 0, s # 0 PROVE Marked(s - 1)
    <2>1. ~ (First(s) + k < s)
      BY <1>2, <1>4
    <2>2. s - 1 \in First(s) .. First(s) + k - 1 /\ s - 1 < s
      BY <1>1, <1>4, <2>1
    <2> QED
      BY <2>2
  <1>5. ASSUME NEW i \in First(s) .. First(s) + (k + 1) - 1, i < s
        PROVE  i \in Sample /\ (Marked(i) \/ i \in Before(s, k))
    <2>1. i \in Nat /\ i < DEV_N_samples /\ (i = First(s) + k \/ i \in First(s) .. First(s) + k - 1)
      BY <1>1, <1>5
    <2>2. i \in Sample
      BY <1>1, <2>1 DEF Sample
    <2> QED
      BY <1>2, <1>5, <2>1, <2>2
  <1> QED
    BY <1>3, <1>4, <1>5 DEF HasLeft

LEMMA AfterTurn ==
  ASSUME NEW s \in Sample, NEW k \in Nat,
         \A i \in Last(s) - k + 1 .. Last(s) : i > s => Marked(i)
  PROVE  /\ After(s, k) \subseteq Sample
         /\ After(s, k) = {} => HasRight(s)
         /\ \A i \in Last(s) - (k + 1) + 1 .. Last(s) :
              i > s => i \in Sample /\ (Marked(i) \/ i \in After(s, k))
  <1>1. /\ Last(s) \in Nat /\ s <= Last(s) /\ s \in Nat /\ Last(s) < DEV_N_samples
        /\ DEV_N_samples \in Nat
        /\ (DEV_N_postsamples > 0 /\ s # DEV_N_samples - 1 => Last(s) > s)
    <2>1. Last(s) \in Sample
      BY WindowEnds
    <2> QED
      BY <2>1, WindowEnds, SamplesAreNat
  <1>2. After(s, k) = {i \in {Last(s) - k} : i > s}
    BY DEF After, Last
  <1>3. After(s, k) \subseteq Sample
    <2>1. \A i \in After(s, k) : i \in Nat /\ i < DEV_N_samples
      BY <1>1, <1>2
    <2> QED
      BY <1>1, <2>1 DEF Sample
  <1>4. ASSUME After(s, k) = {}, DEV_N_postsamples > 0, s # DEV_N_samples - 1 PROVE Marked(s + 1)
    <2>1. ~ (Last(s) - k > s)
      BY <1>2, <1>4
    <2>2. s + 1 \in Last(s) - k + 1 .. Last(s) /\ s + 1 > s
      BY <1>1, <1>4, <2>1
    <2> QED
      BY <2>2
  <1>5. ASSUME NEW i \in Last(s) - (k + 1) + 1 .. Last(s), i > s
        PROVE  i \in Sample /\ (Marked(i) \/ i \in After(s, k))
    <2>1. i \in Nat /\ i < DEV_N_samples /\ (i = Last(s) - k \/ i \in Last(s) - k + 1 .. Last(s))
      BY <1>1, <1>5
    <2>2. i \in Sample
      BY <1>1, <2>1 DEF Sample
    <2> QED
      BY <1>2, <1>5, <2>1, <2>2
  <1> QED
    BY <1>3, <1>4, <1>5 DEF HasRight

LEMMA AddMarks ==
  ASSUME TypeInv, NEW touched, atomicAdd(touched)
  PROVE  /\ \A i \in Sample : Marked(i) => Marked(i)'
         /\ \A i \in Sample : i \in touched => Marked(i)'
  BY DEF atomicAdd, Marked, TypeInv, TypeOK

LEMMA ExtendExtends ==
  ASSUME TypeInv, HitsExtended, NEW w \in Warp, Extend(w)
  PROVE  WarpExtends(w)' /\ \A i \in Sample : Marked(i) => Marked(i)'
  <1> DEFINE pass == warp[w].pass
             boi == warp[w].boi
             eoi == warp[w].eoi
             k == warp[w].k
             hits == HitsOf(w, pass)
             before == UNION {Before(s, k) : s \in boi}
             after == UNION {After(s, k) : s \in eoi}
  <1>1. /\ warp \in [Warp -> WarpState] /\ LanesOwn /\ WarpExtends(w) /\ 0 \in Nat
        /\ boi \cup eoi \subseteq SamplesOf(w, pass) /\ {} \cup eoi \subseteq SamplesOf(w, pass)
        /\ boi \subseteq Sample /\ eoi \subseteq Sample
        /\ k \in Nat /\ k + 1 \in Nat /\ pass \in Nat
    BY SamplesAreNat DEF TypeInv, TypeOK, WarpsTyped, LanesOwn, HitsExtended, Extend, WarpState
  <1>2. Hits' = Hits
    BY HitsStay DEF Extend
  <1>3. ASSUME \A i \in Sample : Marked(i) => Marked(i)'
        PROVE  /\ \A p : HitsOf(w, p)' = HitsOf(w, p) /\ HitsOf(w, p) \subseteq Sample
               /\ \A s \in Sample : (HasLeft(s) => HasLeft(s)') /\ (HasRight(s) => HasRight(s)')
               /\ \A p \in 0 .. pass - 1 : \A s \in HitsOf(w, p) : HasLeft(s)' /\ HasRight(s)'
    BY <1>1, <1>2, <1>3, PassesStay
  <1>4. CASE warp[w].pc = "before"
    <2>1. /\ atomicAdd(before)
          /\ IF before = {} THEN Goto(w, "after", {}, eoi, 0)
                            ELSE Goto(w, "before", boi, eoi, k + 1)
      BY <1>4 DEF Extend
    <2>2. ASSUME NEW s \in boi
          PROVE  /\ Before(s, k) = {} => HasLeft(s)
                 /\ \A i \in First(s) .. First(s) + (k + 1) - 1 :
                      i < s => i \in Sample /\ (Marked(i) \/ i \in Before(s, k))
      <3>1. \A i \in First(s) .. First(s) + k - 1 : i < s => Marked(i)
        BY <1>1, <1>4 DEF WarpExtends
      <3> QED
        BY <1>1, <3>1, BeforeTurn
    <2>3. /\ \A i \in Sample : Marked(i) => Marked(i)'
          /\ \A i \in Sample : i \in before => Marked(i)'
      <3> HIDE DEF before
      <3> QED
        BY <2>1, AddMarks
    <2>4. \A s \in hits : (s \in boi \/ HasLeft(s)) /\ (s \in eoi \/ HasRight(s))
      BY <1>1, <1>4 DEF WarpExtends
    <2>5. CASE before = {}
      <3>1. At(w, "after", pass, {}, eoi, 0)
        <4>1. Goto(w, "after", {}, eoi, 0)
          BY <2>1, <2>5
        <4> QED
          BY <1>1, <4>1, GotoGoes
      <3>2. \A s \in hits : HasLeft(s)
        BY <2>2, <2>4, <2>5
      <3>3. \A s \in eoi : Last(s) - 0 + 1 .. Last(s) = {}
        <4>1. \A s \in eoi : Last(s) \in Nat
          BY <1>1, WindowEnds
        <4> QED
          BY <4>1
      <3> HIDE DEF before, after
      <3> QED
        BY <1>3, <2>3, <2>4, <3>1, <3>2, <3>3 DEF At, WarpExtends, First, Last
    <2>6. CASE before # {}
      <3>1. At(w, "before", pass, boi, eoi, k + 1)
        <4>1. Goto(w, "before", boi, eoi, k + 1)
          BY <2>1, <2>6
        <4> QED
          BY <1>1, <4>1, GotoGoes
      <3>2. \A s \in boi : \A i \in First(s) .. First(s) + (k + 1) - 1 : i < s => Marked(i)'
        BY <2>2, <2>3
      <3> HIDE DEF before, after
      <3> QED
        BY <1>3, <2>3, <2>4, <3>1, <3>2 DEF At, WarpExtends, First, Last
    <2> QED
      BY <2>3, <2>5, <2>6
  <1>5. CASE warp[w].pc = "after"
    <2>1. /\ atomicAdd(after)
          /\ IF after = {} THEN NextPass(w) ELSE Goto(w, "after", {}, eoi, k + 1)
      BY <1>5 DEF Extend
    <2>2. ASSUME NEW s \in eoi
          PROVE  /\ After(s, k) = {} => HasRight(s)
                 /\ \A i \in Last(s) - (k + 1) + 1 .. Last(s) :
                      i > s => i \in Sample /\ (Marked(i) \/ i \in After(s, k))
      <3>1. \A i \in Last(s) - k + 1 .. Last(s) : i > s => Marked(i)
        BY <1>1, <1>5 DEF WarpExtends
      <3> QED
        BY <1>1, <3>1, AfterTurn
    <2>3. /\ \A i \in Sample : Marked(i) => Marked(i)'
          /\ \A i \in Sample : i \in after => Marked(i)'
      <3> HIDE DEF after
      <3> QED
        BY <2>1, AddMarks
    <2>4. \A s \in hits : HasLeft(s) /\ (s \in eoi \/ HasRight(s))
      BY <1>1, <1>5 DEF WarpExtends
    <2>5. CASE after = {}
      <3>1. At(w, "self", pass + 1, {}, {}, 0)
        BY <1>1, <2>1, <2>5, NextPassGoes
      <3>2. \A s \in hits : HasLeft(s)' /\ HasRight(s)'
        BY <1>3, <2>2, <2>3, <2>4, <2>5
      <3>3. \A p \in 0 .. (pass + 1) - 1 : p = pass \/ p \in 0 .. pass - 1
        BY <1>1
      <3>4. \A p \in 0 .. (pass + 1) - 1 : \A s \in HitsOf(w, p)' : HasLeft(s)' /\ HasRight(s)'
        BY <1>3, <2>3, <3>2, <3>3
      <3>5. warp'[w].pc = "self" /\ warp'[w].pass = pass + 1
        BY <3>1 DEF At
      <3>6. \A p \in 0 .. warp'[w].pass - 1 : \A s \in HitsOf(w, p)' : HasLeft(s)' /\ HasRight(s)'
        BY <3>4, <3>5
      <3> HIDE DEF before, after
      <3> QED
        BY <2>3, <3>5, <3>6 DEF WarpExtends
    <2>6. CASE after # {}
      <3>1. At(w, "after", pass, {}, eoi, k + 1)
        <4>1. Goto(w, "after", {}, eoi, k + 1)
          BY <2>1, <2>6
        <4> QED
          BY <1>1, <4>1, GotoGoes
      <3>2. \A s \in eoi : \A i \in Last(s) - (k + 1) + 1 .. Last(s) : i > s => Marked(i)'
        BY <2>2, <2>3
      <3> HIDE DEF before, after
      <3> QED
        BY <1>3, <2>3, <2>4, <3>1, <3>2 DEF At, WarpExtends, First, Last
    <2> QED
      BY <2>3, <2>5, <2>6
  <1> QED
    BY <1>4, <1>5 DEF Extend
-----------------------------------------------------------------------------
(* kernel_extend_islands ends when every warp has run out of samples, so    *)
(* every hit was in a pass that is done.                                    *)
LEMMA AllPassesDone ==
  ASSUME TypeInv, HitsExtended, kernel = "extend", \A w \in Warp : warp[w].pc = "end"
  PROVE  \A s \in Hits : HasLeft(s) /\ HasRight(s)
  <1> SUFFICES ASSUME NEW s \in Hits PROVE HasLeft(s) /\ HasRight(s)
    OBVIOUS
  <1>1. PICK w \in Warp, p \in Nat : s \in SamplesOf(w, p)
    BY EverySampleIsTaken DEF Hits
  <1>2. WarpExtends(w) /\ warp[w].pc = "end" /\ warp[w].pass \in Nat
    BY DEF HitsExtended, TypeInv, WarpsTyped, WarpState
  <1>3. SamplesOf(w, warp[w].pass) = {}
    BY <1>2 DEF WarpExtends
  <1>4. ~ (warp[w].pass <= p)
    BY <1>1, <1>2, <1>3, NoMorePasses
  <1>5. p \in 0 .. warp[w].pass - 1 /\ s \in HitsOf(w, p)
    BY <1>1, <1>2, <1>4 DEF HitsOf
  <1> QED
    BY <1>2, <1>5 DEF WarpExtends

LEMMA TakeNumberMarks ==
  ASSUME TypeInv, NEW w \in Warp, TakeNumber(w)
  PROVE  \A i \in Sample : Marked(i) => Marked(i)'
  <1> DEFINE boi == warp[w].boi
  <1>1. n_islands \in Nat /\ boi \in SUBSET Sample /\ island_pattern \in [Sample -> Nat]
    BY SamplesAreNat DEF TypeInv, TypeOK, WarpsTyped
  <1>2. PICK order \in Orders(boi) :
          LET new == {n_islands + order[s] : s \in boi}
              at(n) == CHOOSE s \in boi : n_islands + order[s] = n
          IN island_pattern' = [i \in Sample |->
                   IF \E n \in new : i \in at(n) .. RunEnd(at(n)) - 1
                   THEN 1 + CHOOSE n \in new : i \in at(n) .. RunEnd(at(n)) - 1
                   ELSE island_pattern[i]]
    BY DEF TakeNumber
  <1> DEFINE new == {n_islands + order[s] : s \in boi}
             at(n) == CHOOSE s \in boi : n_islands + order[s] = n
             run(n) == at(n) .. RunEnd(at(n)) - 1
  <1> HIDE DEF boi
  <1>3. new \subseteq Nat
    <2>1. Cardinality(boi) \in Nat /\ new = n_islands .. n_islands + Cardinality(boi) - 1
      BY <1>1, <1>2, OrdersNumber
    <2> QED
      BY <1>1, <2>1
  <1>4. island_pattern' = [i \in Sample |->
            IF \E n \in new : i \in run(n) THEN 1 + CHOOSE n \in new : i \in run(n)
                                             ELSE island_pattern[i]]
    BY <1>2
  <1> HIDE DEF new, at, run
  <1> SUFFICES ASSUME NEW i \in Sample, island_pattern[i] > 0 PROVE island_pattern'[i] > 0
    BY DEF Marked
  <1>5. CASE \E n \in new : i \in run(n)
    <2> DEFINE n == CHOOSE n \in new : i \in run(n)
    <2>1. n \in Nat
      BY <1>3, <1>5
    <2>2. island_pattern'[i] = 1 + n
      BY <1>4, <1>5
    <2> HIDE DEF n
    <2> QED
      BY <2>1, <2>2
  <1>6. CASE ~ \E n \in new : i \in run(n)
    BY <1>4, <1>6
  <1> QED
    BY <1>5, <1>6
LEMMA NextExtends == TypeInv /\ HitsExtended /\ [Next]_vars => HitsExtended'
  <1> SUFFICES ASSUME TypeInv, HitsExtended, [Next]_vars PROVE HitsExtended'
    OBVIOUS
  <1>1. Hits \subseteq Sample
    BY DEF Hits
  <1>2. CASE NextFill
    <2>1. kernel' = "trigger" /\ warp' = AtStart
      BY <1>2 DEF NextFill
    <2> QED
      BY <2>1 DEF HitsExtended, Extended, AtStart
  <1>3. CASE kernel_wf_trigger
    <2>1. /\ kernel = "trigger" /\ kernel' = "extend" /\ warp' = AtStart /\ Hits' = Hits
      BY <1>3, HitsStay DEF kernel_wf_trigger, HitsExtended
    <2>2. \A s \in Hits : Marked(s)'
      <3>1. ASSUME NEW s \in Hits PROVE island_pattern'[s] = 1
        BY <1>3 DEF kernel_wf_trigger, Hits
      <3> QED
        BY <3>1 DEF Marked
    <2>3. \A w \in Warp : WarpExtends(w)'
      <3> SUFFICES ASSUME NEW w \in Warp PROVE WarpExtends(w)'
        OBVIOUS
      <3>1. warp'[w].pc = "self" /\ warp'[w].pass = 0
        BY <2>1, StartGoes
      <3>2. 0 .. warp'[w].pass - 1 = {}
        BY <3>1
      <3> QED
        BY <3>1, <3>2 DEF WarpExtends
    <2> QED
      BY <2>1, <2>2, <2>3 DEF HitsExtended, Extended
  <1>4. CASE KernelEnds
    <2>1. /\ kernel \in {"extend", "find"} /\ kernel' \in {"find", "make"}
          /\ Hits' = Hits /\ island_pattern' = island_pattern
      BY <1>4, HitsStay DEF KernelEnds
    <2>2. \A s \in Hits : HasLeft(s) /\ HasRight(s)
      <3>1. CASE kernel = "extend"
        BY <1>4, <3>1, AllPassesDone DEF KernelEnds
      <3>2. CASE kernel = "find"
        BY <3>2 DEF HitsExtended, Extended
      <3> QED
        BY <2>1, <3>1, <3>2
    <2> QED
      BY <2>1, <2>2 DEF HitsExtended, Extended, Marked, HasLeft, HasRight
  <1>5. ASSUME UNCHANGED <<gpu_idata, option, kernel>>, kernel # "extend", kernel # "trigger",
               \A i \in Sample : Marked(i) => Marked(i)'
        PROVE  HitsExtended'
    <2>1. Hits' = Hits
      BY <1>5, HitsStay
    <2>2. \A s \in Hits : HasLeft(s)' /\ HasRight(s)' /\ Marked(s)'
      BY <1>1, <1>5, NeighboursStay DEF HitsExtended, Extended
    <2> QED
      BY <1>5, <2>1, <2>2 DEF HitsExtended, Extended
  <1>6. ASSUME NEW w \in Warp, ReadSelf(w) \/ ReadLeft(w) \/ ReadRight(w) \/ Extend(w)
        PROVE  HitsExtended'
    <2>1. /\ UNCHANGED <<gpu_idata, option, kernel>> /\ Hits' = Hits
          /\ kernel \in {"extend", "find"}
      BY <1>6, HitsStay DEF ReadSelf, ReadLeft, ReadRight, Extend
    <2>2. \A i \in Sample : Marked(i) => Marked(i)'
      <3>1. CASE ReadSelf(w) \/ ReadLeft(w) \/ ReadRight(w)
        BY <3>1 DEF ReadSelf, ReadLeft, ReadRight, Marked
      <3> QED
        BY <1>6, <3>1, ExtendExtends
    <2>3. CASE kernel = "extend"
      <3>1. WarpExtends(w)'
        BY <1>6, <2>3, ReadSelfExtends, ReadLeftExtends, ReadRightExtends, ExtendExtends
      <3>2. ASSUME NEW v \in Warp \ {w} PROVE WarpExtends(v)'
        <4>1. warp'[v] = warp[v]
          BY <1>6 DEF ReadSelf, ReadLeft, ReadRight, Extend, Goto, NextPass, TypeInv, WarpsTyped
        <4>2. WarpExtends(v)
          BY <2>3 DEF HitsExtended
        <4> QED
          BY <2>1, <2>2, <4>1, <4>2, WarpStays
      <3>3. \A s \in Hits : Marked(s)'
        BY <1>1, <2>2, <2>3 DEF HitsExtended
      <3> QED
        BY <2>1, <2>3, <3>1, <3>2, <3>3 DEF HitsExtended, Extended
    <2>4. CASE kernel = "find"
      BY <1>5, <2>1, <2>2, <2>4
    <2> QED
      BY <2>1, <2>3, <2>4
  <1>7. ASSUME NEW w \in Warp, TakeNumber(w) \/ TakeRoom(w) PROVE HitsExtended'
    <2>1. UNCHANGED <<gpu_idata, option, kernel>> /\ kernel = "find"
      BY <1>7 DEF TakeNumber, TakeRoom
    <2>2. \A i \in Sample : Marked(i) => Marked(i)'
      <3>1. CASE TakeRoom(w)
        BY <3>1 DEF TakeRoom, Marked
      <3> QED
        BY <1>7, <3>1, TakeNumberMarks
    <2> QED
      BY <1>5, <2>1, <2>2
  <1>8. CASE kernel_make_islands \/ kernel_decimate_sum \/ CopyOutput
    <2>1. /\ UNCHANGED <<gpu_idata, option, island_pattern>> /\ Hits' = Hits
          /\ kernel \in {"make", "tail", "copy"} /\ kernel' \in {"tail", "copy", "copied"}
      BY <1>8, HitsStay DEF kernel_make_islands, kernel_decimate_sum, CopyOutput
    <2> QED
      BY <2>1 DEF HitsExtended, Extended, Marked, HasLeft, HasRight
  <1>9. CASE UNCHANGED vars
    <2>1. UNCHANGED <<gpu_idata, option, kernel, warp, island_pattern>> /\ Hits' = Hits
      BY <1>9, HitsStay DEF vars
    <2>2. \A w \in Warp : WarpExtends(w) => WarpExtends(w)'
      <3>1. \A i \in Sample : Marked(i) => Marked(i)'
        BY <2>1 DEF Marked
      <3> QED
        BY <2>1, <3>1, WarpStays
    <2> QED
      BY <2>1, <2>2 DEF HitsExtended, Extended, Marked, HasLeft, HasRight, AtStart
  <1> QED
    BY <1>2, <1>3, <1>4, <1>6, <1>7, <1>8, <1>9 DEF Next

(* However the warps run, a sample over threshold is kept, and is neither   *)
(* the first nor the last sample of its island when there are samples to    *)
(* take: a warp that finds a neighbour marked needs not extend, as marks    *)
(* are only added, and one that finds it unmarked marks it.                 *)
THEOREM HitsKeepNeighbours == Spec => []HitsHaveNeighbours
  <1>1. Init => HitsExtended
    BY DEF Init, HitsExtended, Extended
  <1>2. TypeInv /\ HitsExtended => HitsHaveNeighbours
    <2> SUFFICES ASSUME TypeInv, HitsExtended, Extended, NEW s \in Hits
                 PROVE  /\ Marked(s)
                        /\ DEV_N_presamples > 0 /\ BOI(s) => s = 0
                        /\ DEV_N_postsamples > 0 /\ EOI(s) => s = DEV_N_samples - 1
      BY DEF HitsHaveNeighbours
    <2>1. Marked(s) /\ HasLeft(s) /\ HasRight(s)
      BY DEF HitsExtended, Extended
    <2> QED
      BY <2>1 DEF HasLeft, HasRight, BOI, EOI
  <1> QED
    BY <1>1, <1>2, AlwaysTyped, NextExtends, PTL DEF Spec
-----------------------------------------------------------------------------
(* Windows that cross from no warp's samples to another's.                  *)
LEMMA SamplesApart ==
  ASSUME NEW w \in Warp, NEW v \in Warp, NEW p \in Nat, NEW q \in Nat,
         NEW s \in SamplesOf(w, p), s \in SamplesOf(v, q)
  PROVE  w = v /\ p = q
  <1>1. PICK c \in Nat \ {0} : GridThreads = c * LANES /\ Warp = 0 .. c - 1
    BY GridOfWarps
  <1>2. /\ LANES \in Nat \ {0} /\ w \in Nat /\ v \in Nat /\ w < c /\ v < c /\ s \in Nat
    <2>1. s \in Nat
      BY SamplesAreNat
    <2>2. LANES \in Nat \ {0}
      BY GridOfWarps
    <2> QED
      BY <1>1, <2>1, <2>2
  <1> DEFINE G == GridThreads
             wl == w * LANES
             vl == v * LANES
             pg == p * G
             qg == q * G
  <1>3. ASSUME NEW a \in Nat, NEW b \in Nat, a < b PROVE a * LANES + LANES <= b * LANES
    <2>1. (a + 1) * LANES <= b * LANES /\ (a + 1) * LANES = a * LANES + LANES
      BY <1>2, <1>3, TimesKeepsOrder
    <2> QED
      BY <2>1
  <1>4. ASSUME NEW a \in Nat, NEW b \in Nat, a < b PROVE a * G + G <= b * G
    <2>0. G \in Nat
      BY GridOfWarps
    <2>1. (a + 1) * G <= b * G /\ (a + 1) * G = a * G + G
      BY <1>4, <2>0, TimesKeepsOrder
    <2> QED
      BY <2>1
  <1>5. wl + LANES <= G /\ vl + LANES <= G
    BY <1>1, <1>2, <1>3
  <1>6. wl \in Nat /\ vl \in Nat /\ pg \in Nat /\ qg \in Nat /\ G \in Nat
        /\ (w + 1) * LANES = wl + LANES /\ (v + 1) * LANES = vl + LANES
    BY <1>2, GridOfWarps
  <1>7. s \in wl + pg .. wl + LANES + pg - 1 /\ s \in vl + qg .. vl + LANES + qg - 1
    BY <1>6 DEF SamplesOf
  <1>8. (w < v => wl + LANES <= vl) /\ (v < w => vl + LANES <= wl)
        /\ (p < q => pg + G <= qg) /\ (q < p => qg + G <= pg)
    BY <1>2, <1>3, <1>4
  <1>9. p = q => pg = qg
    OBVIOUS
  <1> HIDE DEF G, wl, vl, pg, qg
  <1>10. p = q
    BY <1>2, <1>5, <1>6, <1>7, <1>8
  <1> QED
    BY <1>2, <1>6, <1>7, <1>8, <1>9, <1>10

Local == \A s \in Hits : \E w \in Warp, p \in Nat : Window(s) \subseteq SamplesOf(w, p)

LEMMA WindowOf ==
  ASSUME NEW s \in Sample
  PROVE  /\ Window(s) = First(s) .. Last(s) /\ s \in Window(s) /\ Window(s) \subseteq Sample
         /\ First(s) .. s \subseteq Window(s) /\ s .. Last(s) \subseteq Window(s)
  <1>1. /\ First(s) \in Nat /\ First(s) <= s /\ Last(s) \in Nat /\ Last(s) \in Sample
        /\ s <= Last(s) /\ s \in Nat /\ s < DEV_N_samples /\ DEV_N_samples \in Nat
    BY WindowEnds
  <1>2. Last(s) < DEV_N_samples
    BY <1>1, SamplesAreNat
  <1>3. Window(s) = First(s) .. Last(s)
    BY DEF Window, First, Last
  <1> QED
    BY <1>1, <1>2, <1>3 DEF Sample

LEMMA WindowIsLocal ==
  ASSUME Local, NEW s \in Hits, NEW w \in Warp, NEW p \in Nat, s \in SamplesOf(w, p)
  PROVE  Window(s) \subseteq SamplesOf(w, p)
  <1>1. PICK v \in Warp, q \in Nat : Window(s) \subseteq SamplesOf(v, q)
    BY DEF Local
  <1>2. s \in SamplesOf(v, q)
    BY <1>1, WindowOf DEF Hits
  <1>3. v = w /\ q = p
    BY <1>2, SamplesApart
  <1> QED
    BY <1>1, <1>3

(* The hits that begin and end a run of hits; between a hit and a sample    *)
(* without one there is such a hit, whose window reaches as far.            *)
Leads(s) == s = 0 \/ s - 1 \notin Hits
Trails(s) == s = DEV_N_samples - 1 \/ s + 1 \notin Hits

LEMMA WindowsShift ==
  ASSUME NEW b \in Sample, NEW s \in Sample, b <= s
  PROVE  First(b) <= First(s) /\ Last(b) <= Last(s)
  <1>1. /\ s \in Nat /\ b \in Nat /\ DEV_N_presamples \in Nat /\ DEV_N_postsamples \in Nat
        /\ DEV_N_samples \in Nat
    BY WindowEnds
  <1>2. \A t \in {b, s} : /\ First(t) \in {0, t - DEV_N_presamples} /\ First(t) >= 0
                          /\ First(t) >= t - DEV_N_presamples
    BY <1>1, MaxOfTwo DEF First
  <1>3. \A t \in {b, s} : /\ Last(t) \in {DEV_N_samples - 1, t + DEV_N_postsamples}
                          /\ Last(t) <= DEV_N_samples - 1 /\ Last(t) <= t + DEV_N_postsamples
    <2>1. \A t \in {b, s} : DEV_N_samples - 1 \in Int /\ t + DEV_N_postsamples \in Int
      BY <1>1
    <2> QED
      BY <2>1, MinOfTwo DEF Last
  <1> QED
    BY <1>1, <1>2, <1>3

LEMMA NoSamplesToTake ==
  ASSUME NEW s \in Sample
  PROVE  (DEV_N_presamples > 0 \/ First(s) = s) /\ (DEV_N_postsamples > 0 \/ Last(s) = s)
  <1>1. /\ s \in Nat /\ DEV_N_presamples \in Nat /\ DEV_N_postsamples \in Nat
        /\ DEV_N_samples \in Nat /\ First(s) <= s /\ s <= Last(s) /\ First(s) \in Nat /\ Last(s) \in Nat
    BY WindowEnds
  <1>2. s - DEV_N_presamples \in Int /\ s + DEV_N_postsamples \in Int /\ DEV_N_samples - 1 \in Int
    BY <1>1
  <1>3. First(s) >= s - DEV_N_presamples
    <2>1. Max({0, s - DEV_N_presamples}) >= s - DEV_N_presamples
      <3>1. 0 \in Int
        OBVIOUS
      <3> QED
        BY <1>2, <3>1, MaxOfTwo, Zenon
    <2> QED
      BY <2>1 DEF First
  <1>4. Last(s) <= s + DEV_N_postsamples
    <2>1. Min({DEV_N_samples - 1, s + DEV_N_postsamples}) <= s + DEV_N_postsamples
      BY <1>2, MinOfTwo
    <2> QED
      BY <2>1 DEF Last
  <1> QED
    BY <1>1, <1>3, <1>4

LEMMA LeadBetween ==
  ASSUME NEW s \in Hits, NEW i \in Sample, i < s, i \notin Hits, i \in First(s) .. s
  PROVE  \E b \in Hits : Leads(b) /\ i < b /\ b <= s /\ First(b) <= i
  <1>1. s \in Sample /\ s \in Nat /\ i \in Nat /\ Hits \subseteq Sample
    BY SamplesAreNat DEF Hits
  <1> DEFINE T == {d \in 1 .. s - i : s - d \notin Hits}
  <1>2. s - i \in T /\ T \in SUBSET Nat
    <2>1. s - i \in 1 .. s - i /\ s - (s - i) = i
      BY <1>1
    <2> QED
      BY <1>1, <2>1
  <1>3. PICK d \in T : \A e \in T : d <= e
    BY <1>2, LeastNumber
  <1> DEFINE b == s - d + 1
  <1>4. d \in Nat /\ d >= 1 /\ d <= s - i /\ s - d \notin Hits
    BY <1>1, <1>3
  <1>5. b \in Hits
    <2>1. CASE d = 1
      BY <1>1, <2>1
    <2>2. CASE d > 1
      <3>1. d - 1 \notin T /\ d - 1 \in 1 .. s - i /\ s - (d - 1) = b
        BY <1>1, <1>3, <1>4, <2>2
      <3> QED
        BY <3>1
    <2> QED
      BY <1>4, <2>1, <2>2
  <1>6. i < b /\ b <= s /\ b - 1 = s - d
    BY <1>1, <1>4
  <1>7. First(b) <= First(s) /\ First(b) \in Nat /\ First(s) \in Nat
    BY <1>1, <1>5, <1>6, WindowsShift, WindowEnds
  <1> HIDE DEF b
  <1>8. Leads(b) /\ First(b) <= i
    BY <1>1, <1>4, <1>6, <1>7 DEF Leads
  <1> QED
    BY <1>5, <1>6, <1>8

LEMMA TrailBetween ==
  ASSUME NEW s \in Hits, NEW i \in Sample, s < i, i \notin Hits, i \in s .. Last(s)
  PROVE  \E b \in Hits : Trails(b) /\ s <= b /\ b < i /\ i <= Last(b)
  <1>1. s \in Sample /\ s \in Nat /\ i \in Nat /\ Hits \subseteq Sample
    BY SamplesAreNat DEF Hits
  <1> DEFINE T == {j \in s + 1 .. i : j \notin Hits}
  <1>2. i \in T /\ T \in SUBSET Nat
    BY <1>1
  <1>3. PICK j \in T : \A e \in T : j <= e
    BY <1>2, LeastNumber
  <1> DEFINE b == j - 1
  <1>4. j \in Nat /\ s + 1 <= j /\ j <= i /\ j \notin Hits
    BY <1>1, <1>3
  <1>5. b \in Hits
    <2>1. CASE j = s + 1
      BY <1>1, <2>1
    <2>2. CASE j > s + 1
      <3>1. b \notin T /\ b \in s + 1 .. i
        BY <1>1, <1>3, <1>4, <2>2
      <3> QED
        BY <3>1
    <2> QED
      BY <1>1, <1>4, <2>1, <2>2
  <1>6. s <= b /\ b < i /\ b + 1 = j
    BY <1>1, <1>4
  <1>7. Last(s) <= Last(b) /\ Last(b) \in Nat /\ Last(s) \in Nat
    BY <1>1, <1>5, <1>6, WindowsShift, WindowEnds
  <1> HIDE DEF b
  <1>8. Trails(b) /\ i <= Last(b)
    BY <1>1, <1>4, <1>6, <1>7 DEF Trails
  <1> QED
    BY <1>5, <1>6, <1>8
-----------------------------------------------------------------------------
(* How far a warp is with the windows of its hits: it has done those of the *)
(* passes before; those of the passes to come nobody has extended into.     *)
Untouched(w, p) == \A s \in SamplesOf(w, p) : Marked(s) => s \in Hits
PassDone(w, p) == \A s \in HitsOf(w, p) : \A i \in Window(s) : Marked(i)

WarpExact(w) ==
  LET me == warp[w]
      hits == HitsOf(w, me.pass)
  IN /\ me.boi \subseteq Hits /\ me.eoi \subseteq Hits
     /\ \A p \in Nat : p > me.pass => Untouched(w, p)
     /\ me.pc \in {"self", "left", "right"} => Untouched(w, me.pass)
     /\ \A p \in 0 .. me.pass - 1 : PassDone(w, p)
     /\ me.pc \in {"right", "before"} /\ DEV_N_presamples > 0 =>
          \A s \in hits : Leads(s) => s \in me.boi
     /\ me.pc \in {"before", "after"} /\ DEV_N_postsamples > 0 =>
          \A s \in hits : Trails(s) => s \in me.eoi
     /\ me.pc = "after" => \A s \in hits : \A i \in First(s) .. s : Marked(i)

InWindows == \A i \in Sample : Marked(i) => \E s \in Hits : i \in Window(s)

Exact ==
  /\ kernel = "trigger" => \A i \in Sample : ~ Marked(i)
  /\ kernel # "trigger" => InWindows
  /\ kernel = "extend" => \A w \in Warp : WarpExact(w)
  /\ Extended => \A s \in Hits : \A i \in Window(s) : Marked(i)

HitsExact == Local => Exact

LEMMA LocalStays ==
  Hits' = Hits => (Local' <=> Local) /\ \A s : (Leads(s)' <=> Leads(s)) /\ (Trails(s)' <=> Trails(s))
  BY DEF Local, Leads, Trails

(* Of a warp's pass and its hits, what stays while marks are only added.    *)
LEMMA ExactStays ==
  ASSUME NEW w \in Warp, WarpExact(w), Hits' = Hits, \A i \in Sample : Marked(i) => Marked(i)'
  PROVE  /\ \A p : HitsOf(w, p)' = HitsOf(w, p) /\ HitsOf(w, p) \subseteq Sample
         /\ \A p \in 0 .. warp[w].pass - 1 : PassDone(w, p)'
         /\ \A s \in Sample : (\A i \in First(s) .. s : Marked(i)) => \A i \in First(s) .. s : Marked(i)'
  <1>1. \A p : HitsOf(w, p)' = HitsOf(w, p) /\ HitsOf(w, p) \subseteq Sample
    BY DEF HitsOf, Hits
  <1>2. \A s \in Sample : \A i \in Window(s) : Marked(i) => Marked(i)'
    BY WindowOf
  <1>3. \A s \in Sample : \A i \in First(s) .. s : Marked(i) => Marked(i)'
    BY <1>2, WindowOf
  <1>4. \A p \in 0 .. warp[w].pass - 1 : PassDone(w, p)'
    BY <1>1, <1>2 DEF PassDone, WarpExact
  <1> QED
    BY <1>1, <1>3, <1>4

LEMMA OthersExact ==
  ASSUME TypeInv, NEW w \in Warp, warp'[w] = warp[w], WarpExact(w), Hits' = Hits,
         \A i \in Sample : Marked(i) => Marked(i)',
         \A p \in Nat : Untouched(w, p) => Untouched(w, p)'
  PROVE  WarpExact(w)'
  <1>1. warp[w].pass \in Nat
    BY DEF TypeInv, WarpsTyped, WarpState
  <1>2. /\ \A p : HitsOf(w, p)' = HitsOf(w, p) /\ HitsOf(w, p) \subseteq Sample
        /\ \A p \in 0 .. warp[w].pass - 1 : PassDone(w, p)'
        /\ \A s \in Sample : (\A i \in First(s) .. s : Marked(i)) => \A i \in First(s) .. s : Marked(i)'
    BY ExactStays
  <1>3. \A s : (Leads(s)' <=> Leads(s)) /\ (Trails(s)' <=> Trails(s))
    BY LocalStays
  <1> QED
    BY <1>1, <1>2, <1>3 DEF WarpExact

LEMMA ReadSelfExact ==
  ASSUME TypeInv, HitsExtended, kernel = "extend", NEW w \in Warp, WarpExact(w), ReadSelf(w)
  PROVE  WarpExact(w)'
  <1> DEFINE pass == warp[w].pass
             found == {s \in SamplesOf(w, pass) : Marked(s)}
  <1>1. warp \in [Warp -> WarpState] /\ LanesOwn /\ 0 \in Nat /\ pass \in Nat
    BY DEF TypeInv, TypeOK, WarpsTyped, LanesOwn, WarpState
  <1>2. UNCHANGED <<gpu_idata, option, island_pattern>> /\ Hits' = Hits /\ warp[w].pc = "self"
    BY HitsStay DEF ReadSelf
  <1>3. \A i \in Sample : Marked(i) => Marked(i)'
    BY <1>2 DEF Marked
  <1>4. /\ \A p : HitsOf(w, p)' = HitsOf(w, p)
        /\ \A p \in 0 .. pass - 1 : PassDone(w, p)'
    BY <1>2, <1>3, ExactStays
  <1>5. /\ \A p \in Nat : p > pass \/ p = pass => Untouched(w, p)'
        /\ found \subseteq Hits
    <2>1. Untouched(w, pass) /\ \A p \in Nat : p > pass => Untouched(w, p)
      BY <1>2 DEF WarpExact
    <2>2. \A p : Untouched(w, p) => Untouched(w, p)'
      BY <1>2 DEF Untouched, Marked
    <2>3. found \subseteq Hits
      BY <2>1 DEF Untouched
    <2> QED
      BY <2>1, <2>2, <2>3
  <1>6. \E pc \in {"end", "left"}, S \in SUBSET Hits : At(w, pc, pass, S, S, 0)
    <2>1. CASE SamplesOf(w, pass) = {}
      <3>1. Goto(w, "end", {}, {}, 0)
        BY <2>1 DEF ReadSelf
      <3> QED
        BY <1>1, <3>1, GotoGoes
    <2>2. CASE SamplesOf(w, pass) # {}
      <3>1. Goto(w, "left", found, found, 0) /\ found \cup found \subseteq SamplesOf(w, pass)
        BY <2>2 DEF ReadSelf
      <3> HIDE DEF found
      <3>2. At(w, "left", pass, found, found, 0)
        BY <1>1, <3>1, GotoGoes
      <3> QED
        BY <1>5, <3>2
    <2> QED
      BY <2>1, <2>2
  <1> HIDE DEF found
  <1> QED
    BY <1>1, <1>2, <1>4, <1>5, <1>6 DEF At, WarpExact
LEMMA ReadLeftExact ==
  ASSUME TypeInv, HitsExtended, Local, kernel = "extend", NEW w \in Warp, WarpExact(w), ReadLeft(w)
  PROVE  WarpExact(w)'
  <1> DEFINE pass == warp[w].pass
             kept == {s \in warp[w].boi : BOI(s)}
  <1>1. /\ warp \in [Warp -> WarpState] /\ LanesOwn /\ 0 \in Nat /\ pass \in Nat
        /\ warp[w].boi \cup warp[w].eoi \subseteq SamplesOf(w, pass)
    BY DEF TypeInv, TypeOK, WarpsTyped, LanesOwn, WarpState
  <1>2. UNCHANGED <<gpu_idata, option, island_pattern>> /\ Hits' = Hits /\ warp[w].pc = "left"
    BY HitsStay DEF ReadLeft
  <1>3. \A i \in Sample : Marked(i) => Marked(i)'
    BY <1>2 DEF Marked
  <1>4. /\ \A p : HitsOf(w, p)' = HitsOf(w, p)
        /\ \A p \in 0 .. pass - 1 : PassDone(w, p)'
        /\ \A s : Leads(s)' <=> Leads(s)
    BY <1>2, <1>3, ExactStays, LocalStays
  <1>5. /\ \A p \in Nat : p > pass \/ p = pass => Untouched(w, p)'
        /\ Untouched(w, pass)
    <2>1. Untouched(w, pass) /\ \A p \in Nat : p > pass => Untouched(w, p)
      BY <1>2 DEF WarpExact
    <2>2. \A p : Untouched(w, p) => Untouched(w, p)'
      BY <1>2 DEF Untouched, Marked
    <2> QED
      BY <2>1, <2>2
  <1>6. kept \subseteq Hits /\ warp[w].eoi \subseteq Hits
    BY DEF WarpExact
  <1>7. ASSUME DEV_N_presamples > 0, NEW s \in HitsOf(w, pass), Leads(s) PROVE s \in kept
    <2>1. s \in warp[w].boi /\ s \in Hits /\ s \in SamplesOf(w, pass) /\ s \in Sample
      BY <1>2 DEF HitsExtended, WarpExtends, HitsOf, Hits
    <2>2. CASE s = 0
      BY <2>1, <2>2 DEF BOI
    <2>3. CASE s # 0
      <3>1. s - 1 \in First(s) .. s
        <4>1. First(s) \in Nat /\ s \in Nat /\ First(s) < s
          BY <1>7, <2>1, <2>3, WindowEnds
        <4> QED
          BY <4>1
      <3>2. s - 1 \in SamplesOf(w, pass)
        BY <1>1, <2>1, <3>1, WindowIsLocal, WindowOf
      <3>3. ~ Marked(s - 1)
        BY <1>5, <1>7, <2>3, <3>2 DEF Untouched, Leads
      <3> QED
        BY <2>1, <3>3 DEF BOI
    <2> QED
      BY <2>2, <2>3
  <1>8. At(w, "right", pass, kept, warp[w].eoi, 0)
    <2>1. Goto(w, "right", kept, warp[w].eoi, 0) /\ kept \cup warp[w].eoi \subseteq SamplesOf(w, pass)
      BY <1>1 DEF ReadLeft
    <2> HIDE DEF kept
    <2> QED
      BY <1>1, <2>1, GotoGoes
  <1> HIDE DEF kept
  <1> QED
    BY <1>1, <1>2, <1>4, <1>5, <1>6, <1>7, <1>8 DEF At, WarpExact

LEMMA ReadRightExact ==
  ASSUME TypeInv, HitsExtended, Local, kernel = "extend", NEW w \in Warp, WarpExact(w), ReadRight(w)
  PROVE  WarpExact(w)'
  <1> DEFINE pass == warp[w].pass
             boi == warp[w].boi
             kept == {s \in warp[w].eoi : EOI(s)}
  <1>1. /\ warp \in [Warp -> WarpState] /\ LanesOwn /\ 0 \in Nat /\ pass \in Nat
        /\ boi \cup warp[w].eoi \subseteq SamplesOf(w, pass)
    BY DEF TypeInv, TypeOK, WarpsTyped, LanesOwn, WarpState
  <1>2. UNCHANGED <<gpu_idata, option, island_pattern>> /\ Hits' = Hits /\ warp[w].pc = "right"
    BY HitsStay DEF ReadRight
  <1>3. \A i \in Sample : Marked(i) => Marked(i)'
    BY <1>2 DEF Marked
  <1>4. /\ \A p : HitsOf(w, p)' = HitsOf(w, p)
        /\ \A p \in 0 .. pass - 1 : PassDone(w, p)'
        /\ \A s : (Leads(s)' <=> Leads(s)) /\ (Trails(s)' <=> Trails(s))
    BY <1>2, <1>3, ExactStays, LocalStays
  <1>5. /\ \A p \in Nat : p > pass => Untouched(w, p)'
        /\ Untouched(w, pass)
    <2>1. Untouched(w, pass) /\ \A p \in Nat : p > pass => Untouched(w, p)
      BY <1>2 DEF WarpExact
    <2>2. \A p : Untouched(w, p) => Untouched(w, p)'
      BY <1>2 DEF Untouched, Marked
    <2> QED
      BY <2>1, <2>2
  <1>6. /\ kept \subseteq Hits /\ boi \subseteq Hits
        /\ DEV_N_presamples > 0 => \A s \in HitsOf(w, pass) : Leads(s) => s \in boi
    BY <1>2 DEF WarpExact
  <1>7. ASSUME DEV_N_postsamples > 0, NEW s \in HitsOf(w, pass), Trails(s) PROVE s \in kept
    <2>1. s \in warp[w].eoi /\ s \in Hits /\ s \in SamplesOf(w, pass) /\ s \in Sample
      BY <1>2 DEF HitsExtended, WarpExtends, HitsOf, Hits
    <2>2. CASE s = DEV_N_samples - 1
      BY <2>1, <2>2 DEF EOI
    <2>3. CASE s # DEV_N_samples - 1
      <3>1. s + 1 \in s .. Last(s)
        <4>1. Last(s) \in Nat /\ s \in Nat /\ Last(s) > s
          BY <1>7, <2>1, <2>3, WindowEnds
        <4> QED
          BY <4>1
      <3>2. s + 1 \in SamplesOf(w, pass)
        BY <1>1, <2>1, <3>1, WindowIsLocal, WindowOf
      <3>3. ~ Marked(s + 1)
        BY <1>5, <1>7, <2>3, <3>2 DEF Untouched, Trails
      <3> QED
        BY <2>1, <3>3 DEF EOI
    <2> QED
      BY <2>2, <2>3
  <1>8. At(w, "before", pass, boi, kept, 0)
    <2>1. Goto(w, "before", boi, kept, 0) /\ boi \cup kept \subseteq SamplesOf(w, pass)
      BY <1>1 DEF ReadRight
    <2> HIDE DEF kept
    <2> QED
      BY <1>1, <2>1, GotoGoes
  <1> HIDE DEF kept
  <1> QED
    BY <1>1, <1>2, <1>4, <1>5, <1>6, <1>7, <1>8 DEF At, WarpExact
(* The loops stay in the window of the hit, and end when its side is done.  *)
LEMMA BeforeDone ==
  ASSUME NEW s \in Sample, NEW k \in Nat,
         \A i \in First(s) .. First(s) + k - 1 : i < s => Marked(i)
  PROVE  /\ Before(s, k) \subseteq Window(s)
         /\ Before(s, k) = {} => \A i \in First(s) .. s : i < s => Marked(i)
  <1>1. First(s) \in Nat /\ First(s) <= s /\ s \in Nat /\ First(s) .. s \subseteq Window(s)
    BY WindowEnds, WindowOf
  <1>2. Before(s, k) = {i \in {First(s) + k} : i < s}
    BY DEF Before, First
  <1>3. Before(s, k) \subseteq First(s) .. s
    BY <1>1, <1>2
  <1>4. ASSUME Before(s, k) = {}, NEW i \in First(s) .. s, i < s PROVE Marked(i)
    <2>1. ~ (First(s) + k < s)
      BY <1>2, <1>4
    <2>2. i \in First(s) .. First(s) + k - 1
      BY <1>1, <1>4, <2>1
    <2> QED
      BY <1>4, <2>2
  <1> QED
    BY <1>1, <1>3, <1>4

LEMMA AfterDone ==
  ASSUME NEW s \in Sample, NEW k \in Nat,
         \A i \in Last(s) - k + 1 .. Last(s) : i > s => Marked(i)
  PROVE  /\ After(s, k) \subseteq Window(s)
         /\ After(s, k) = {} => \A i \in s .. Last(s) : i > s => Marked(i)
  <1>1. Last(s) \in Nat /\ s <= Last(s) /\ s \in Nat /\ s .. Last(s) \subseteq Window(s)
    BY WindowEnds, WindowOf
  <1>2. After(s, k) = {i \in {Last(s) - k} : i > s}
    BY DEF After, Last
  <1>3. After(s, k) \subseteq s .. Last(s)
    BY <1>1, <1>2
  <1>4. ASSUME After(s, k) = {}, NEW i \in s .. Last(s), i > s PROVE Marked(i)
    <2>1. ~ (Last(s) - k > s)
      BY <1>2, <1>4
    <2>2. i \in Last(s) - k + 1 .. Last(s)
      BY <1>1, <1>4, <2>1
    <2> QED
      BY <1>4, <2>2
  <1> QED
    BY <1>1, <1>3, <1>4

LEMMA TouchesOwn ==
  ASSUME TypeInv, Local, InWindows, NEW w \in Warp, NEW touched, Hits' = Hits, atomicAdd(touched),
         \A i \in touched : \E s \in HitsOf(w, warp[w].pass) : i \in Window(s)
  PROVE  /\ InWindows'
         /\ \A v \in Warp, p \in Nat :
              Untouched(v, p) /\ (v # w \/ p # warp[w].pass) => Untouched(v, p)'
  <1> DEFINE pass == warp[w].pass
  <1>1. \A i \in Sample : Marked(i)' => Marked(i) \/ i \in touched
    BY DEF atomicAdd, Marked
  <1>2. InWindows'
    BY <1>1 DEF InWindows, HitsOf
  <1>3. \A i \in touched : i \in SamplesOf(w, pass)
    <2>1. pass \in Nat
      BY DEF TypeInv, WarpsTyped, WarpState
    <2> QED
      BY <2>1, WindowIsLocal DEF HitsOf
  <1>4. ASSUME NEW v \in Warp, NEW p \in Nat, Untouched(v, p), v # w \/ p # pass
        PROVE  Untouched(v, p)'
    <2>1. pass \in Nat
      BY DEF TypeInv, WarpsTyped, WarpState
    <2>2. \A i \in SamplesOf(v, p) : i \notin touched /\ i \in Sample
      BY <1>3, <1>4, <2>1, SamplesApart, SamplesAreNat
    <2> QED
      BY <1>1, <1>4, <2>2 DEF Untouched
  <1> QED
    BY <1>2, <1>4

(* A warp that has ended its first loop has done the left sides of the      *)
(* windows of its hits, for each sample in them has a mark or is before the *)
(* hit that leads the run; likewise the second loop and the right sides.    *)
LEMMA LeftSides ==
  ASSUME TypeInv, HitsExtended, Local, kernel = "extend", NEW w \in Warp, WarpExact(w),
         warp[w].pc = "before", \A s \in warp[w].boi : Before(s, warp[w].k) = {},
         NEW s \in HitsOf(w, warp[w].pass), NEW i \in First(s) .. s
  PROVE  Marked(i)
  <1> DEFINE pass == warp[w].pass
             boi == warp[w].boi
             k == warp[w].k
  <1>1. /\ s \in Hits /\ s \in SamplesOf(w, pass) /\ s \in Sample /\ k \in Nat /\ pass \in Nat
        /\ boi \subseteq Hits /\ Hits \subseteq Sample /\ \A h \in Hits : Marked(h)
    BY DEF HitsOf, Hits, TypeInv, WarpsTyped, WarpState, WarpExact, HitsExtended
  <1>2. i \in Sample /\ Window(s) \subseteq SamplesOf(w, pass) /\ First(s) .. s \subseteq Window(s)
    BY <1>1, WindowOf, WindowIsLocal
  <1>3. CASE i \in Hits
    BY <1>1, <1>3
  <1>4. CASE i \notin Hits
    <2>0. s \in Nat /\ i \in Nat /\ First(s) \in Nat
      BY <1>1, <1>2, SamplesAreNat, WindowEnds
    <2>1. i < s
      BY <1>1, <1>4, <2>0
    <2>2. DEV_N_presamples > 0
      <3>1. DEV_N_presamples > 0 \/ First(s) = s
        BY <1>1, NoSamplesToTake
      <3> QED
        BY <2>0, <2>1, <3>1
    <2>3. PICK b \in Hits : Leads(b) /\ i < b /\ b <= s /\ First(b) <= i
      BY <1>1, <1>2, <1>4, <2>1, LeadBetween
    <2>4. b \in Nat /\ First(b) \in Nat /\ b \in Sample
      BY <1>1, SamplesAreNat, WindowEnds
    <2>5. b \in First(s) .. s
      BY <2>0, <2>3, <2>4
    <2>6. b \in boi
      <3>1. b \in HitsOf(w, pass)
        BY <1>2, <2>5 DEF HitsOf
      <3> QED
        BY <2>2, <2>3, <3>1 DEF WarpExact
    <2>7. \A j \in First(b) .. First(b) + k - 1 : j < b => Marked(j)
      BY <2>6 DEF HitsExtended, WarpExtends
    <2>8. i \in First(b) .. b
      BY <2>0, <2>3, <2>4
    <2> QED
      BY <1>1, <2>3, <2>4, <2>6, <2>7, <2>8, BeforeDone
  <1> QED
    BY <1>3, <1>4

LEMMA RightSides ==
  ASSUME TypeInv, HitsExtended, Local, kernel = "extend", NEW w \in Warp, WarpExact(w),
         warp[w].pc = "after", \A s \in warp[w].eoi : After(s, warp[w].k) = {},
         NEW s \in HitsOf(w, warp[w].pass), NEW i \in s .. Last(s)
  PROVE  Marked(i)
  <1> DEFINE pass == warp[w].pass
             eoi == warp[w].eoi
             k == warp[w].k
  <1>1. /\ s \in Hits /\ s \in SamplesOf(w, pass) /\ s \in Sample /\ k \in Nat /\ pass \in Nat
        /\ eoi \subseteq Hits /\ Hits \subseteq Sample /\ \A h \in Hits : Marked(h)
    BY DEF HitsOf, Hits, TypeInv, WarpsTyped, WarpState, WarpExact, HitsExtended
  <1>2. i \in Sample /\ Window(s) \subseteq SamplesOf(w, pass) /\ s .. Last(s) \subseteq Window(s)
    BY <1>1, WindowOf, WindowIsLocal
  <1>3. CASE i \in Hits
    BY <1>1, <1>3
  <1>4. CASE i \notin Hits
    <2>0. s \in Nat /\ i \in Nat /\ Last(s) \in Nat
      BY <1>1, <1>2, SamplesAreNat, WindowEnds
    <2>1. s < i
      BY <1>1, <1>4, <2>0
    <2>2. DEV_N_postsamples > 0
      <3>1. DEV_N_postsamples > 0 \/ Last(s) = s
        BY <1>1, NoSamplesToTake
      <3> QED
        BY <2>0, <2>1, <3>1
    <2>3. PICK b \in Hits : Trails(b) /\ s <= b /\ b < i /\ i <= Last(b)
      BY <1>1, <1>2, <1>4, <2>1, TrailBetween
    <2>4. b \in Nat /\ Last(b) \in Nat /\ b \in Sample
      BY <1>1, SamplesAreNat, WindowEnds
    <2>5. b \in s .. Last(s)
      BY <2>0, <2>3, <2>4
    <2>6. b \in eoi
      <3>1. b \in HitsOf(w, pass)
        BY <1>2, <2>5 DEF HitsOf
      <3> QED
        BY <2>2, <2>3, <3>1 DEF WarpExact
    <2>7. \A j \in Last(b) - k + 1 .. Last(b) : j > b => Marked(j)
      BY <2>6 DEF HitsExtended, WarpExtends
    <2>8. i \in b .. Last(b)
      BY <2>0, <2>3, <2>4
    <2> QED
      BY <1>1, <2>3, <2>4, <2>6, <2>7, <2>8, AfterDone
  <1> QED
    BY <1>3, <1>4
LEMMA ExtendExact ==
  ASSUME TypeInv, HitsExtended, Local, InWindows, NEW w \in Warp, WarpExact(w), Extend(w)
  PROVE  /\ WarpExact(w)' /\ InWindows'
         /\ \A v \in Warp, p \in Nat : v # w /\ Untouched(v, p) => Untouched(v, p)'
  <1> DEFINE pass == warp[w].pass
             boi == warp[w].boi
             eoi == warp[w].eoi
             k == warp[w].k
             hits == HitsOf(w, pass)
             before == UNION {Before(s, k) : s \in boi}
             after == UNION {After(s, k) : s \in eoi}
  <1>1. /\ warp \in [Warp -> WarpState] /\ LanesOwn /\ WarpExtends(w) /\ 0 \in Nat /\ kernel = "extend"
        /\ boi \cup eoi \subseteq SamplesOf(w, pass) /\ {} \cup eoi \subseteq SamplesOf(w, pass)
        /\ boi \subseteq Sample /\ eoi \subseteq Sample
        /\ k \in Nat /\ k + 1 \in Nat /\ pass \in Nat
    BY SamplesAreNat DEF TypeInv, TypeOK, WarpsTyped, LanesOwn, HitsExtended, Extend, WarpState
  <1>2. Hits' = Hits /\ \A s : (Leads(s)' <=> Leads(s)) /\ (Trails(s)' <=> Trails(s))
    BY HitsStay, LocalStays DEF Extend
  <1>3. \A i \in Sample : Marked(i) => Marked(i)'
    BY ExtendExtends
  <1>4. /\ \A p : HitsOf(w, p)' = HitsOf(w, p) /\ HitsOf(w, p) \subseteq Sample
        /\ \A p \in 0 .. pass - 1 : PassDone(w, p)'
        /\ \A s \in Sample : (\A i \in First(s) .. s : Marked(i)) => \A i \in First(s) .. s : Marked(i)'
    BY <1>2, <1>3, ExactStays
  <1>5. boi \subseteq hits /\ eoi \subseteq hits
    BY <1>1 DEF WarpExact, HitsOf
  <1>6. \A p \in Nat : p > pass => Untouched(w, p)
    BY DEF WarpExact
  <1>7. ASSUME NEW touched, atomicAdd(touched), \A i \in touched : \E s \in hits : i \in Window(s)
        PROVE  /\ InWindows'
               /\ \A v \in Warp, p \in Nat : v # w /\ Untouched(v, p) => Untouched(v, p)'
               /\ \A p \in Nat : p > pass => Untouched(w, p)'
    BY <1>1, <1>2, <1>6, <1>7, TouchesOwn
  <1>8. CASE warp[w].pc = "before"
    <2>1. /\ atomicAdd(before)
          /\ IF before = {} THEN Goto(w, "after", {}, eoi, 0)
                            ELSE Goto(w, "before", boi, eoi, k + 1)
      BY <1>8 DEF Extend
    <2>2. \A s \in boi : Before(s, k) \subseteq Window(s)
      <3>1. \A s \in boi : \A i \in First(s) .. First(s) + k - 1 : i < s => Marked(i)
        BY <1>1, <1>8 DEF WarpExtends
      <3> QED
        BY <1>1, <3>1, BeforeDone
    <2>3. \A i \in before : \E s \in hits : i \in Window(s)
      BY <1>5, <2>2
    <2>4. /\ DEV_N_presamples > 0 => \A s \in hits : Leads(s) => s \in boi
          /\ DEV_N_postsamples > 0 => \A s \in hits : Trails(s) => s \in eoi
      BY <1>8 DEF WarpExact
    <2>5. CASE before = {}
      <3>1. At(w, "after", pass, {}, eoi, 0)
        <4>1. Goto(w, "after", {}, eoi, 0)
          BY <2>1, <2>5
        <4> QED
          BY <1>1, <4>1, GotoGoes
      <3>2. \A s \in hits : \A i \in First(s) .. s : Marked(i)
        <4>1. \A s \in boi : Before(s, k) = {}
          BY <2>5
        <4> QED
          BY <1>1, <1>8, <4>1, LeftSides
      <3>3. \A s \in hits : \A i \in First(s) .. s : Marked(i)'
        BY <1>4, <3>2
      <3> HIDE DEF before, after
      <3>4. /\ InWindows'
            /\ \A v \in Warp, p \in Nat : v # w /\ Untouched(v, p) => Untouched(v, p)'
            /\ \A p \in Nat : p > pass => Untouched(w, p)'
        BY <1>7, <2>1, <2>3
      <3>5. WarpExact(w)'
        BY <1>2, <1>4, <1>5, <2>4, <3>1, <3>3, <3>4 DEF At, WarpExact, HitsOf
      <3> QED
        BY <3>4, <3>5
    <2>6. CASE before # {}
      <3>1. At(w, "before", pass, boi, eoi, k + 1)
        <4>1. Goto(w, "before", boi, eoi, k + 1)
          BY <2>1, <2>6
        <4> QED
          BY <1>1, <4>1, GotoGoes
      <3> HIDE DEF before, after
      <3>2. /\ InWindows'
            /\ \A v \in Warp, p \in Nat : v # w /\ Untouched(v, p) => Untouched(v, p)'
            /\ \A p \in Nat : p > pass => Untouched(w, p)'
        BY <1>7, <2>1, <2>3
      <3>3. WarpExact(w)'
        BY <1>2, <1>4, <1>5, <2>4, <3>1, <3>2 DEF At, WarpExact, HitsOf
      <3> QED
        BY <3>2, <3>3
    <2> QED
      BY <2>5, <2>6
  <1>9. CASE warp[w].pc = "after"
    <2>1. /\ atomicAdd(after)
          /\ IF after = {} THEN NextPass(w) ELSE Goto(w, "after", {}, eoi, k + 1)
      BY <1>9 DEF Extend
    <2>2. \A s \in eoi : After(s, k) \subseteq Window(s)
      <3>1. \A s \in eoi : \A i \in Last(s) - k + 1 .. Last(s) : i > s => Marked(i)
        BY <1>1, <1>9 DEF WarpExtends
      <3> QED
        BY <1>1, <3>1, AfterDone
    <2>3. \A i \in after : \E s \in hits : i \in Window(s)
      BY <1>5, <2>2
    <2>4. /\ DEV_N_postsamples > 0 => \A s \in hits : Trails(s) => s \in eoi
          /\ \A s \in hits : \A i \in First(s) .. s : Marked(i)
      BY <1>9 DEF WarpExact
    <2>5. \A s \in hits : \A i \in First(s) .. s : Marked(i)'
      BY <1>4, <2>4
    <2>6. CASE after = {}
      <3>1. At(w, "self", pass + 1, {}, {}, 0)
        BY <1>1, <2>1, <2>6, NextPassGoes
      <3>2. \A s \in hits : \A i \in s .. Last(s) : Marked(i)
        <4>1. \A s \in eoi : After(s, k) = {}
          BY <2>6
        <4> QED
          BY <1>1, <1>9, <4>1, RightSides
      <3>3. ASSUME NEW s \in hits, NEW i \in Window(s) PROVE Marked(i)'
        <4>1. /\ i \in Sample /\ s \in Sample /\ i \in First(s) .. Last(s)
              /\ First(s) \in Nat /\ Last(s) \in Nat /\ s \in Nat
          BY <1>4, <3>3, WindowOf, WindowEnds
        <4>2. i \in First(s) .. s \/ i \in s .. Last(s)
          BY <4>1
        <4>3. Marked(i)
          BY <2>4, <3>2, <4>2
        <4> QED
          BY <1>3, <4>1, <4>3
      <3>4. \A p \in 0 .. (pass + 1) - 1 : p = pass \/ p \in 0 .. pass - 1
        BY <1>1
      <3>5. \A p \in 0 .. (pass + 1) - 1 : PassDone(w, p)'
        BY <1>4, <3>3, <3>4 DEF PassDone
      <3> HIDE DEF before, after
      <3>6. /\ InWindows'
            /\ \A v \in Warp, p \in Nat : v # w /\ Untouched(v, p) => Untouched(v, p)'
            /\ \A p \in Nat : p > pass => Untouched(w, p)'
        BY <1>7, <2>1, <2>3
      <3>7. /\ warp'[w].pc = "self" /\ warp'[w].pass = pass + 1
            /\ warp'[w].boi = {} /\ warp'[w].eoi = {}
        BY <3>1 DEF At
      <3>8. /\ \A p \in Nat : p > warp'[w].pass => Untouched(w, p)'
            /\ Untouched(w, warp[w].pass)'
            /\ \A p \in 0 .. warp'[w].pass - 1 : PassDone(w, p)'
        BY <1>1, <3>5, <3>6, <3>7
      <3>9. WarpExact(w)'
        BY <3>7, <3>8 DEF WarpExact
      <3> QED
        BY <3>6, <3>9
    <2>7. CASE after # {}
      <3>1. At(w, "after", pass, {}, eoi, k + 1)
        <4>1. Goto(w, "after", {}, eoi, k + 1)
          BY <2>1, <2>7
        <4> QED
          BY <1>1, <4>1, GotoGoes
      <3> HIDE DEF before, after
      <3>2. /\ InWindows'
            /\ \A v \in Warp, p \in Nat : v # w /\ Untouched(v, p) => Untouched(v, p)'
            /\ \A p \in Nat : p > pass => Untouched(w, p)'
        BY <1>7, <2>1, <2>3
      <3>3. WarpExact(w)'
        BY <1>2, <1>4, <1>5, <2>4, <2>5, <3>1, <3>2 DEF At, WarpExact, HitsOf
      <3> QED
        BY <3>2, <3>3
    <2> QED
      BY <2>6, <2>7
  <1> QED
    BY <1>8, <1>9 DEF Extend
-----------------------------------------------------------------------------
(* kernel_find_islands writes numbers over numbers: a run of marked samples *)
(* ends before the first that is not.                                       *)
LEMMA RunsAreMarked ==
  ASSUME NEW s \in Sample
  PROVE  \A i \in s .. RunEnd(s) - 1 : i \in Sample /\ Marked(i)
  <1> DEFINE T == {j \in s .. DEV_N_samples : j = DEV_N_samples \/ ~ Marked(j)}
  <1>1. s \in Nat /\ s < DEV_N_samples /\ DEV_N_samples \in Nat
    BY SamplesAreNat, GridOfWarps
  <1>2. T \in SUBSET Nat /\ DEV_N_samples \in T
    BY <1>1
  <1>3. \E x \in T : \A y \in T : x <= y
    BY <1>2, LeastNumber
  <1>4. RunEnd(s) = CHOOSE x \in T : \A y \in T : x <= y
    BY DEF RunEnd, Min
  <1> HIDE DEF T
  <1>5. RunEnd(s) \in T /\ \A y \in T : RunEnd(s) <= y
    BY <1>3, <1>4
  <1>e. RunEnd(s) \in Nat /\ RunEnd(s) <= DEV_N_samples
    BY <1>2, <1>5
  <1> SUFFICES ASSUME NEW i \in s .. RunEnd(s) - 1 PROVE i \in Sample /\ Marked(i)
    OBVIOUS
  <1>6. i \in Nat /\ s <= i /\ i < RunEnd(s)
    BY <1>1, <1>e
  <1>7. i \notin T
    BY <1>e, <1>5, <1>6
  <1>8. i \in s .. DEV_N_samples /\ i # DEV_N_samples /\ i \in 0 .. DEV_N_samples - 1
    BY <1>1, <1>e, <1>6
  <1> QED
    BY <1>7, <1>8 DEF T, Sample

LEMMA TakeNumberKeepsMarks ==
  ASSUME TypeInv, NEW w \in Warp, TakeNumber(w)
  PROVE  \A i \in Sample : Marked(i)' <=> Marked(i)
  <1> DEFINE boi == warp[w].boi
  <1>1. boi \in SUBSET Sample
    BY SamplesAreNat DEF TypeInv, TypeOK
  <1>2. PICK order \in Orders(boi) :
          LET new == {n_islands + order[s] : s \in boi}
              at(n) == CHOOSE s \in boi : n_islands + order[s] = n
          IN island_pattern' = [i \in Sample |->
                   IF \E n \in new : i \in at(n) .. RunEnd(at(n)) - 1
                   THEN 1 + CHOOSE n \in new : i \in at(n) .. RunEnd(at(n)) - 1
                   ELSE island_pattern[i]]
    BY DEF TakeNumber
  <1> DEFINE new == {n_islands + order[s] : s \in boi}
             at(n) == CHOOSE s \in boi : n_islands + order[s] = n
             run(n) == at(n) .. RunEnd(at(n)) - 1
  <1> HIDE DEF boi
  <1>3. \A n \in new : at(n) \in Sample
    BY <1>1
  <1>4. island_pattern' = [i \in Sample |->
            IF \E n \in new : i \in run(n) THEN 1 + CHOOSE n \in new : i \in run(n)
                                             ELSE island_pattern[i]]
    BY <1>2
  <1>5. \A n \in new : \A i \in run(n) : Marked(i)
    BY <1>3, RunsAreMarked
  <1> HIDE DEF new, at, run
  <1>6. \A i \in Sample : Marked(i) => Marked(i)'
    BY TakeNumberMarks
  <1>7. ASSUME NEW i \in Sample, Marked(i)' PROVE Marked(i)
    <2>1. CASE \E n \in new : i \in run(n)
      BY <1>5, <2>1
    <2>2. CASE ~ \E n \in new : i \in run(n)
      <3>1. island_pattern'[i] = island_pattern[i]
        BY <1>4, <2>2
      <3> QED
        BY <1>7, <3>1 DEF Marked
    <2> QED
      BY <2>1, <2>2
  <1> QED
    BY <1>6, <1>7

LEMMA EveryWindowDone ==
  ASSUME TypeInv, HitsExtended, kernel = "extend", \A w \in Warp : warp[w].pc = "end" /\ WarpExact(w)
  PROVE  \A s \in Hits : \A i \in Window(s) : Marked(i)
  <1> SUFFICES ASSUME NEW s \in Hits PROVE \A i \in Window(s) : Marked(i)
    OBVIOUS
  <1>1. PICK w \in Warp, p \in Nat : s \in SamplesOf(w, p)
    BY EverySampleIsTaken DEF Hits
  <1>2. WarpExtends(w) /\ WarpExact(w) /\ warp[w].pc = "end" /\ warp[w].pass \in Nat
    BY DEF HitsExtended, TypeInv, WarpsTyped, WarpState
  <1>3. SamplesOf(w, warp[w].pass) = {}
    BY <1>2 DEF WarpExtends
  <1>4. ~ (warp[w].pass <= p)
    BY <1>1, <1>2, <1>3, NoMorePasses
  <1>5. p \in 0 .. warp[w].pass - 1 /\ s \in HitsOf(w, p)
    BY <1>1, <1>2, <1>4 DEF HitsOf
  <1> QED
    BY <1>2, <1>5 DEF WarpExact, PassDone

(* If one fill is local its windows are exact; the next one is another.     *)
LEMMA NextHitsExact == TypeInv /\ HitsExtended /\ HitsExact /\ [Next]_vars => HitsExact'
  <1> SUFFICES ASSUME TypeInv, HitsExtended, HitsExact, [Next]_vars, Local' PROVE Exact'
    BY DEF HitsExact
  <1>1. CASE NextFill
    <2>1. kernel' = "trigger" /\ \A i \in Sample : island_pattern'[i] = 0
      BY <1>1 DEF NextFill
    <2> QED
      BY <2>1 DEF Exact, Extended, Marked
  <1> SUFFICES ASSUME ~ NextFill PROVE Exact'
    BY <1>1
  <1>2. Hits' = Hits
    <2>1. ASSUME NEW w \in Warp, ReadSelf(w) \/ ReadLeft(w) \/ ReadRight(w) \/ Extend(w)
                                  \/ TakeNumber(w) \/ TakeRoom(w)
          PROVE  UNCHANGED gpu_idata /\ UNCHANGED option
      BY <2>1 DEF ReadSelf, ReadLeft, ReadRight, Extend, TakeNumber, TakeRoom
    <2>2. CASE kernel_wf_trigger \/ KernelEnds \/ kernel_make_islands \/ kernel_decimate_sum
               \/ CopyOutput \/ UNCHANGED vars
      BY <2>2, HitsStay DEF kernel_wf_trigger, KernelEnds, kernel_make_islands, kernel_decimate_sum,
                            CopyOutput, vars
    <2> QED
      BY <2>1, <2>2, HitsStay DEF Next
  <1>3. Local /\ Exact /\ Hits \subseteq Sample
    BY <1>2, LocalStays DEF HitsExact, Hits
  <1>4. \A s \in Hits : \A i \in Window(s) : i \in Sample
    BY <1>3, WindowOf
  <1>5. ASSUME kernel # "trigger", kernel' \notin {"trigger", "extend"}, Extended,
               \A i \in Sample : Marked(i)' <=> Marked(i)
        PROVE  Exact'
    BY <1>2, <1>3, <1>4, <1>5 DEF Exact, Extended, InWindows
  <1>6. CASE kernel_wf_trigger
    <2>1. kernel = "trigger" /\ kernel' = "extend" /\ warp' = AtStart
      BY <1>6 DEF kernel_wf_trigger, HitsExtended
    <2>2. \A i \in Sample : Marked(i)' => i \in Hits
      <3>1. \A i \in Sample : ~ Marked(i)
        BY <1>3, <2>1 DEF Exact
      <3> QED
        BY <1>6, <3>1 DEF kernel_wf_trigger, Hits, Marked
    <2>3. InWindows'
      BY <1>2, <1>3, <2>2, WindowOf DEF InWindows
    <2>4. ASSUME NEW w \in Warp PROVE WarpExact(w)'
      <3>1. /\ warp'[w].pc = "self" /\ warp'[w].pass = 0
            /\ warp'[w].boi = {} /\ warp'[w].eoi = {}
        BY <2>1, StartGoes
      <3>2. 0 .. warp'[w].pass - 1 = {}
        BY <3>1
      <3>3. \A p : Untouched(w, p)'
        BY <1>2, <2>2, SamplesAreNat DEF Untouched
      <3> QED
        BY <3>1, <3>2, <3>3 DEF WarpExact
    <2> QED
      BY <2>1, <2>3, <2>4 DEF Exact, Extended
  <1>7. CASE KernelEnds
    <2>1. /\ kernel \in {"extend", "find"} /\ kernel' \in {"find", "make"}
          /\ island_pattern' = island_pattern
      BY <1>7 DEF KernelEnds
    <2>2. \A s \in Hits : \A i \in Window(s) : Marked(i)
      <3>1. CASE kernel = "extend"
        BY <1>3, <1>7, <3>1, EveryWindowDone DEF KernelEnds, Exact
      <3>2. CASE kernel = "find"
        BY <1>3, <3>2 DEF Exact, Extended
      <3> QED
        BY <2>1, <3>1, <3>2
    <2> QED
      BY <1>2, <1>3, <2>1, <2>2 DEF Exact, Extended, Marked, InWindows
  <1>8. ASSUME NEW w \in Warp, ReadSelf(w) \/ ReadLeft(w) \/ ReadRight(w) \/ Extend(w)
        PROVE  Exact'
    <2>1. kernel' = kernel /\ kernel \in {"extend", "find"}
      BY <1>8 DEF ReadSelf, ReadLeft, ReadRight, Extend
    <2>2. CASE kernel = "find"
      <3>1. island_pattern' = island_pattern
        BY <1>8, <2>2 DEF ReadSelf, ReadLeft, ReadRight, Extend
      <3> QED
        BY <1>5, <2>1, <2>2, <3>1 DEF Extended, Marked
    <2>3. CASE kernel = "extend"
      <3>1. InWindows /\ \A v \in Warp : WarpExact(v)
        BY <1>3, <2>3 DEF Exact
      <3>2. /\ WarpExact(w)' /\ InWindows' /\ \A i \in Sample : Marked(i) => Marked(i)'
            /\ \A v \in Warp, p \in Nat : v # w /\ Untouched(v, p) => Untouched(v, p)'
        <4>1. CASE Extend(w)
          BY <1>3, <3>1, <4>1, ExtendExact, ExtendExtends
        <4>2. CASE ReadSelf(w) \/ ReadLeft(w) \/ ReadRight(w)
          <5>1. island_pattern' = island_pattern
            BY <4>2 DEF ReadSelf, ReadLeft, ReadRight
          <5>2. WarpExact(w)'
            BY <1>3, <2>3, <3>1, <4>2, ReadSelfExact, ReadLeftExact, ReadRightExact
          <5> QED
            BY <1>2, <3>1, <5>1, <5>2 DEF InWindows, Untouched, Marked
        <4> QED
          BY <1>8, <4>1, <4>2
      <3>3. ASSUME NEW v \in Warp, v # w PROVE WarpExact(v)'
        <4>1. warp'[v] = warp[v]
          BY <1>8, <3>3 DEF ReadSelf, ReadLeft, ReadRight, Extend, Goto, NextPass, TypeInv, WarpsTyped
        <4> QED
          BY <1>2, <3>1, <3>2, <3>3, <4>1, OthersExact
      <3> QED
        BY <2>1, <2>3, <3>2, <3>3 DEF Exact, Extended
    <2> QED
      BY <2>1, <2>2, <2>3
  <1>9. ASSUME NEW w \in Warp, TakeNumber(w) \/ TakeRoom(w) PROVE Exact'
    <2>1. kernel = "find" /\ kernel' = "find"
      BY <1>9 DEF TakeNumber, TakeRoom
    <2>2. \A i \in Sample : Marked(i)' <=> Marked(i)
      <3>1. CASE TakeRoom(w)
        BY <3>1 DEF TakeRoom, Marked
      <3> QED
        BY <1>9, <3>1, TakeNumberKeepsMarks
    <2> QED
      BY <1>5, <2>1, <2>2 DEF Extended
  <1>10. CASE kernel_make_islands \/ kernel_decimate_sum \/ CopyOutput
    <2>1. /\ island_pattern' = island_pattern
          /\ kernel \in {"make", "tail", "copy"} /\ kernel' \in {"tail", "copy", "copied"}
      BY <1>10 DEF kernel_make_islands, kernel_decimate_sum, CopyOutput
    <2> QED
      BY <1>5, <2>1, SMTT(30) DEF Extended, Marked
  <1>11. CASE UNCHANGED vars
    <2>1. UNCHANGED <<kernel, warp, island_pattern>>
      BY <1>11 DEF vars
    <2>2. \A w \in Warp : WarpExact(w) => WarpExact(w)'
      <3>1. \A i \in Sample : Marked(i) => Marked(i)'
        BY <2>1 DEF Marked
      <3>2. \A w \in Warp, p \in Nat : Untouched(w, p) => Untouched(w, p)'
        BY <1>2, <2>1 DEF Untouched, Marked
      <3> QED
        BY <1>2, <2>1, <3>1, <3>2, OthersExact
    <2> QED
      BY <1>2, <1>3, <2>1, <2>2 DEF Exact, Extended, InWindows, Marked
  <1> QED
    BY <1>6, <1>7, <1>8, <1>9, <1>10, <1>11 DEF Next

(* Where no window crosses from one warp's samples to another's, the warps  *)
(* do not meddle with each other, and the lanes of one read before any of   *)
(* them writes: what is kept is the windows of the hits and nothing more.   *)
THEOREM WindowsAreExact == Spec => []WindowsExact
  <1>1. Init => HitsExtended /\ HitsExact
    <2> SUFFICES ASSUME Init PROVE HitsExtended /\ HitsExact
      OBVIOUS
    <2>1. kernel = "trigger" /\ warp = AtStart /\ \A i \in Sample : island_pattern[i] = 0
      BY DEF Init
    <2> QED
      BY <2>1 DEF HitsExtended, HitsExact, Exact, Extended, Marked
  <1>2. HitsExact => WindowsExact
    <2> SUFFICES ASSUME HitsExact, Extended,
                        \A s \in Hits : \E w \in Warp, p \in 0 .. DEV_N_samples \div GridThreads :
                          Window(s) \subseteq SamplesOf(w, p)
                 PROVE  {s \in Sample : Marked(s)} = UNION {Window(s) : s \in Hits}
      BY DEF WindowsExact
    <2>1. Local
      BY DEF Local
    <2>2. /\ InWindows /\ \A s \in Hits : \A i \in Window(s) : Marked(i)
      BY <2>1 DEF HitsExact, Exact, Extended
    <2>3. \A s \in Hits : Window(s) \subseteq Sample
      BY WindowOf DEF Hits
    <2> QED
      BY <2>2, <2>3 DEF InWindows
  <1> QED
    BY <1>1, <1>2, AlwaysTyped, NextExtends, NextHitsExact, PTL DEF Spec
=============================================================================
