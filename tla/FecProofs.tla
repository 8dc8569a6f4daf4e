----------------------------- MODULE FecProofs -----------------------------
(***************************************************************************)
(* Theorems about the FEC legs: the client's engine, for any WANs, tables  *)
(* whose ratios rise (Rising, assumed of its two), floors and modes, and   *)
(* any situations of the ticks; POST /fec and the relay's loop, for any    *)
(* settings, tables, times, calls, faults and restarts.                    *)
(***************************************************************************)
EXTENDS FecEngine, FecLink, FiniteSetTheorems, TLAPS

-----------------------------------------------------------------------------
(* Extremes of finite sets.                                                *)

\* Whatever is measured of a finite set's elements, one has the most of it.  (A
\* smallest subset without such an element would have one.)
LEMMA Topmost ==
  ASSUME NEW A, IsFiniteSet(A), A # {}, NEW f \in [A -> Int]
  PROVE  \E w \in A : \A v \in A : f[v] <= f[w]
<1> DEFINE Tops(T) == \E w \in T : \A v \in T : f[v] <= f[w]
           Bad == {T \in SUBSET A : T # {} /\ ~Tops(T)}
<1>1. SUFFICES ASSUME Bad # {} PROVE FALSE
  OBVIOUS
<1>2. /\ IsWellFoundedOn(StrictSubsetOrdering(A), SUBSET A)
  BY FS_StrictSubsetOrderingWellFounded, FS_FiniteSubsetsOfFinite
<1>3. Bad \subseteq SUBSET A
  OBVIOUS
<1>4. PICK T \in Bad : \A U \in Bad : <<U, T>> \notin StrictSubsetOrdering(A)
  <2> HIDE DEF Bad
  <2> QED BY <1>1, <1>2, <1>3, WFMin
<1>5. T \in SUBSET A /\ T # {} /\ ~Tops(T)
  OBVIOUS
<1>6. PICK x : x \in T
  BY <1>5
<1> DEFINE U == T \ {x}
<1>7. U \in SUBSET A /\ <<U, T>> \in StrictSubsetOrdering(A)
  BY <1>5, <1>6 DEF StrictSubsetOrdering
<1>8. U \notin Bad
  BY <1>4, <1>7
<1>9. CASE U = {}
  <2>1. T = {x}
    BY <1>6, <1>9
  <2>2. f[x] \in Int
    BY <1>5, <1>6
  <2> QED BY <1>5, <2>1, <2>2
<1>10. CASE U # {}
  <2>1. PICK w \in U : \A v \in U : f[v] <= f[w]
    BY <1>7, <1>8, <1>10
  <2>2. f[x] \in Int /\ f[w] \in Int /\ \A v \in T : f[v] \in Int
    BY <1>5, <1>6, <2>1
  <2>3. CASE f[x] <= f[w]
    BY <1>5, <2>1, <2>2, <2>3
  <2>4. CASE f[w] <= f[x]
    <3>1. \A v \in T : f[v] <= f[x]
      BY <2>1, <2>2, <2>4
    <3> QED BY <1>5, <1>6, <3>1
  <2> QED BY <2>2, <2>3, <2>4
<1> QED BY <1>9, <1>10

\* The greatest and the least of a finite set of integers.
LEMMA Extremes ==
  ASSUME NEW S \in SUBSET Int, IsFiniteSet(S), S # {}
  PROVE  /\ Max(S) \in S /\ \A y \in S : y <= Max(S)
         /\ Min(S) \in S /\ \A y \in S : Min(S) <= y
<1>1. \E w \in S : \A v \in S : w >= v
  <2> DEFINE f == [v \in S |-> v]
  <2>1. f \in [S -> Int] /\ \A v \in S : f[v] = v
    OBVIOUS
  <2> HIDE DEF f
  <2>2. PICK w \in S : \A v \in S : f[v] <= f[w]
    BY <2>1, Topmost
  <2> QED BY <2>1, <2>2
<1>2. \E w \in S : \A v \in S : w <= v
  <2> DEFINE f == [v \in S |-> -v]
  <2>1. f \in [S -> Int] /\ \A v \in S : f[v] = -v
    OBVIOUS
  <2> HIDE DEF f
  <2>2. PICK w \in S : \A v \in S : f[v] <= f[w]
    BY <2>1, Topmost
  <2> QED BY <2>1, <2>2
<1>3. Max(S) \in S /\ \A y \in S : Max(S) >= y
  BY <1>1 DEF Max
<1>4. Min(S) \in S /\ \A y \in S : Min(S) <= y
  BY <1>2 DEF Min
<1>5. \A y \in S : Max(S) >= y => y <= Max(S)
  BY <1>3
<1> QED BY <1>3, <1>4, <1>5

\* Of two.
LEMMA OfTwo ==
  ASSUME NEW a \in Int, NEW b \in Int
  PROVE  /\ Max({a, b}) = IF a >= b THEN a ELSE b
         /\ Min({a, b}) = IF a <= b THEN a ELSE b
<1>1. IsFiniteSet({a, b})
  <2>1. IsFiniteSet({a} \cup {b})
    BY FS_Singleton, FS_AddElement
  <2>2. {a, b} = {a} \cup {b}
    OBVIOUS
  <2> QED BY <2>1, <2>2
<1>2. /\ Max({a, b}) \in {a, b} /\ \A y \in {a, b} : y <= Max({a, b})
      /\ Min({a, b}) \in {a, b} /\ \A y \in {a, b} : Min({a, b}) <= y
  BY <1>1, Extremes
<1> QED BY <1>2

-----------------------------------------------------------------------------
(* The decisions both legs share, on any table.                            *)

\* A table's rows and levels.
LEMMA Rows ==
  ASSUME NEW t, IsTable(t)
  PROVE  /\ Len(t) \in Nat \ {0} /\ DOMAIN t = 1 .. Len(t)
         /\ TopLevel(t) \in Nat /\ TopLevel(t) + 1 = Len(t)
         /\ AllLevels(t) = 0 .. TopLevel(t) /\ 0 \in AllLevels(t)
         /\ \A i \in DOMAIN t : t[i].fec \in Nat /\ t[i].loss \in Nat
         /\ IsFiniteSet(DOMAIN t) /\ IsFiniteSet(AllLevels(t))
<1>1. t \in Seq([loss : Nat, fec : Nat]) /\ t # <<>>
  BY DEF IsTable
<1>2. Len(t) \in Nat \ {0} /\ DOMAIN t = 1 .. Len(t)
  <2>1. PICK S : t \in Seq(S)
    BY <1>1, Zenon
  <2> QED BY <1>1, <2>1
<1>3. \A i \in DOMAIN t : t[i].fec \in Nat /\ t[i].loss \in Nat
  <2> DEFINE S == [loss : Nat, fec : Nat]
  <2>1. \A row \in S : row.fec \in Nat /\ row.loss \in Nat
    OBVIOUS
  <2> HIDE DEF S
  <2>2. \A i \in DOMAIN t : t[i] \in S
    <3>1. t \in Seq(S)
      BY <1>1 DEF S
    <3> QED BY <3>1
  <2> QED BY <2>1, <2>2
<1>4. TopLevel(t) \in Nat /\ TopLevel(t) + 1 = Len(t)
  BY <1>2 DEF TopLevel
<1>5. AllLevels(t) = 0 .. TopLevel(t) /\ 0 \in AllLevels(t)
  BY <1>4 DEF AllLevels
<1>6. IsFiniteSet(DOMAIN t) /\ IsFiniteSet(AllLevels(t))
  BY <1>2, <1>4, <1>5, FS_Interval
<1> QED BY <1>2, <1>3, <1>4, <1>5, <1>6

\* A level's ratio: the row's.
LEMMA LevelsRow ==
  ASSUME NEW t, IsTable(t)
  PROVE  /\ \A l \in AllLevels(t) : /\ l \in Nat /\ l + 1 \in DOMAIN t
                                    /\ LevelToRatio(l, t) = t[l + 1].fec
                                    /\ LevelToRatio(l, t) \in Nat
<1>1. ASSUME NEW l \in AllLevels(t)
      PROVE  l \in Nat /\ l + 1 \in DOMAIN t /\ LevelToRatio(l, t) = t[l + 1].fec
  <2>1. l \in Nat /\ l + 1 \in DOMAIN t /\ l <= TopLevel(t) /\ TopLevel(t) \in Nat
    BY Rows
  <2>2. Min({l, TopLevel(t)}) = l
    <3>1. Min({l, TopLevel(t)}) = IF l <= TopLevel(t) THEN l ELSE TopLevel(t)
      BY <2>1, OfTwo
    <3> QED BY <2>1, <3>1
  <2>3. Max({0, l}) = l
    <3>1. Max({0, l}) = IF 0 >= l THEN 0 ELSE l
      BY <2>1, OfTwo
    <3> QED BY <2>1, <3>1
  <2> QED BY <2>1, <2>2, <2>3 DEF LevelToRatio, Clamped
<1> QED BY <1>1, Rows

\* And it rises with the level, where the rows do.
LEMMA LevelsRise ==
  ASSUME NEW t, IsTable(t), Rising(t)
  PROVE  \A l, m \in AllLevels(t) : l <= m => LevelToRatio(l, t) <= LevelToRatio(m, t)
<1> SUFFICES ASSUME NEW l \in AllLevels(t), NEW m \in AllLevels(t), l <= m
             PROVE  LevelToRatio(l, t) <= LevelToRatio(m, t)
  OBVIOUS
<1>1. /\ l \in Nat /\ m \in Nat /\ l + 1 \in DOMAIN t /\ m + 1 \in DOMAIN t
      /\ LevelToRatio(l, t) = t[l + 1].fec /\ LevelToRatio(m, t) = t[m + 1].fec
      /\ LevelToRatio(l, t) \in Nat
  BY LevelsRow
<1>2. l = m \/ l + 1 < m + 1
  BY <1>1
<1> QED BY <1>1, <1>2 DEF Rising

\* A ratio's level: its row, or the lowest.
LEMMA RatiosLevel ==
  ASSUME NEW t, IsTable(t), NEW r
  PROVE  /\ RatioToLevel(r, t) \in AllLevels(t)
         /\ (\E i \in DOMAIN t : t[i].fec = r) => LevelToRatio(RatioToLevel(r, t), t) = r
         /\ RatioToLevel(r, t) # 0 => LevelToRatio(RatioToLevel(r, t), t) = r
<1> DEFINE I == {i \in DOMAIN t : t[i].fec = r}
<1>1. CASE \E i \in DOMAIN t : t[i].fec = r
  <2>1. I \in SUBSET Int /\ IsFiniteSet(I) /\ I # {}
    BY <1>1, Rows, FS_Subset
  <2>2. Min(I) \in I
    BY <2>1, Extremes
  <2>3. RatioToLevel(r, t) = Min(I) - 1
    BY <1>1 DEF RatioToLevel
  <2>4. Min(I) \in DOMAIN t /\ t[Min(I)].fec = r
    BY <2>2
  <2> HIDE DEF I
  <2>5. RatioToLevel(r, t) \in AllLevels(t) /\ RatioToLevel(r, t) + 1 = Min(I)
    BY <2>3, <2>4, Rows
  <2> QED BY <2>4, <2>5, LevelsRow
<1>2. CASE ~\E i \in DOMAIN t : t[i].fec = r
  BY <1>2, Rows DEF RatioToLevel
<1> QED BY <1>1, <1>2

\* A loss's level, and what the backoff makes of it.
LEMMA LossesLevel ==
  ASSUME NEW t, IsTable(t), NEW loss
  PROVE  /\ LossToLevel(loss, t) \in AllLevels(t)
         /\ \A backoff \in BOOLEAN : \A r : ModeAwareLevel(backoff, loss, t, r) \in AllLevels(t)
<1> DEFINE I == {j \in DOMAIN t : loss <= t[j].loss}
           L == {TopLevel(t)} \cup {i - 1 : i \in I}
<1>1. \A i \in DOMAIN t : i - 1 \in AllLevels(t)
  BY Rows
<1>2. TopLevel(t) \in AllLevels(t)
  BY Rows
<1>3. L \in SUBSET AllLevels(t) /\ L # {}
  BY <1>1, <1>2
<1>4. IsFiniteSet(L) /\ L \in SUBSET Int
  BY <1>3, Rows, FS_Subset
<1>5. Min(L) \in L
  BY <1>3, <1>4, Extremes
<1>6. LossToLevel(loss, t) = Min(L)
  BY DEF LossToLevel
<1>7. LossToLevel(loss, t) \in AllLevels(t)
  BY <1>3, <1>5, <1>6
<1>8. \A r : RatioToLevel(r, t) \in AllLevels(t)
  BY RatiosLevel
<1> QED BY <1>7, <1>8 DEF ModeAwareLevel

\* The level's step: to the target, or not yet; never beyond its clocks.
LEMMA Steps ==
  ASSUME NEW t, IsTable(t), NEW target \in AllLevels(t), NEW r,
         r.level \in AllLevels(t), r.streak \in Nat, r.since \in Nat,
         NEW up \in Nat \ {0}, NEW hold \in Nat
  PROVE  LET q == StepLevel(target, r, up, hold)
         IN  /\ q.level \in {target, r.level} /\ q.streak \in 0 .. up - 1
             /\ q.since \in {0, r.since}
             /\ \/ q.level = target
                \/ /\ target > r.level /\ q.level = r.level /\ q.streak = r.streak + 1
                   /\ q.since = r.since
                \/ /\ target < r.level /\ q.level = r.level /\ q.streak = 0
                   /\ q.since = r.since /\ r.since < hold
<1>1. target \in Nat /\ r.level \in Nat
  BY Rows
<1>2. CASE target > r.level /\ r.streak + 1 >= up
  <2>1. StepLevel(target, r, up, hold) = Runtime(target, 0, 0)
    BY <1>1, <1>2 DEF StepLevel
  <2> QED BY <2>1 DEF Runtime
<1>3. CASE target > r.level /\ r.streak + 1 < up
  <2>1. StepLevel(target, r, up, hold) = Runtime(r.level, r.streak + 1, r.since)
    BY <1>1, <1>3 DEF StepLevel
  <2> QED BY <1>1, <1>3, <2>1 DEF Runtime
<1>4. CASE target < r.level /\ r.since >= hold
  <2>1. StepLevel(target, r, up, hold) = Runtime(target, 0, 0)
    BY <1>1, <1>4 DEF StepLevel
  <2> QED BY <2>1 DEF Runtime
<1>5. CASE target = r.level \/ (target < r.level /\ r.since < hold)
  <2>1. StepLevel(target, r, up, hold) = Runtime(r.level, 0, r.since)
    BY <1>1, <1>5 DEF StepLevel
  <2> QED BY <1>5, <2>1 DEF Runtime
<1> QED BY <1>1, <1>2, <1>3, <1>4, <1>5

\* The floors only raise the level, within the table.
LEMMA FloorsRaise ==
  ASSUME NEW t, IsTable(t), NEW level \in AllLevels(t)
  PROVE  /\ \A latch \in BOOLEAN : \A r :
              /\ ApplySignalFloor(level, latch, t, r) \in AllLevels(t)
              /\ ~latch => ApplySignalFloor(level, latch, t, r) = level
         /\ \A place \in Nat \cup {Unset} :
              /\ ApplyLocationFloor(level, place, t) \in AllLevels(t)
              /\ level <= ApplyLocationFloor(level, place, t)
<1>1. level \in Nat /\ level <= TopLevel(t) /\ TopLevel(t) \in Nat
  BY Rows
<1>2. ASSUME NEW latch \in BOOLEAN, NEW r
      PROVE  /\ ApplySignalFloor(level, latch, t, r) \in AllLevels(t)
             /\ ~latch => ApplySignalFloor(level, latch, t, r) = level
  <2>1. RatioToLevel(r, t) \in AllLevels(t) /\ RatioToLevel(r, t) \in Nat
    BY RatiosLevel, Rows
  <2>2. Max({level, RatioToLevel(r, t)}) \in {level, RatioToLevel(r, t)}
    BY <1>1, <2>1, OfTwo
  <2> QED BY <2>1, <2>2 DEF ApplySignalFloor
<1>3. ASSUME NEW place \in Nat \cup {Unset}
      PROVE  /\ ApplyLocationFloor(level, place, t) \in AllLevels(t)
             /\ level <= ApplyLocationFloor(level, place, t)
  <2>1. CASE place \in Nat
    <3> DEFINE m == Min({place, TopLevel(t)})
    <3>1. m \in 0 .. TopLevel(t)
      <4>1. place \in Int /\ TopLevel(t) \in Int
        BY <1>1, <2>1
      <4>2. m = IF place <= TopLevel(t) THEN place ELSE TopLevel(t)
        BY <4>1, OfTwo
      <4> QED BY <1>1, <2>1, <4>2
    <3> HIDE DEF m
    <3>2. Max({level, m}) \in 0 .. TopLevel(t) /\ level <= Max({level, m})
      BY <1>1, <3>1, OfTwo
    <3> QED BY <1>1, <3>2, Rows DEF ApplyLocationFloor, m
  <2>2. CASE place = Unset
    BY <1>1, <2>2 DEF ApplyLocationFloor, Unset
  <2> QED BY <2>1, <2>2
<1> QED BY <1>2, <1>3

\* The mode's ratio, which rises with the adaptive one.
LEMMA ModesRise ==
  ASSUME NEW fixed \in Nat, NEW floor \in Nat, NEW mode, NEW a \in Nat, NEW b \in Nat
  PROVE  /\ OffRatio = 0 /\ ApplyMode(mode, a, fixed, floor) \in Nat
         /\ a <= b => ApplyMode(mode, a, fixed, floor) <= ApplyMode(mode, b, fixed, floor)
<1>1. OffRatio = 0
  BY DEF OffRatio, Overhead
<1>2. /\ Max({a, floor}) \in Nat /\ Max({b, floor}) \in Nat
      /\ a <= b => Max({a, floor}) <= Max({b, floor})
  BY OfTwo
<1> QED BY <1>1, <1>2 DEF ApplyMode

-----------------------------------------------------------------------------
(* The engine's inputs, and a tick.                                        *)

\* Of four.
LEMMA OfFour ==
  ASSUME NEW a \in Int, NEW b \in Int, NEW c \in Int, NEW d \in Int
  PROVE  /\ Max({a, b, c, d}) \in Int
         /\ a <= Max({a, b, c, d}) /\ b <= Max({a, b, c, d})
         /\ c <= Max({a, b, c, d}) /\ d <= Max({a, b, c, d})
<1>1. IsFiniteSet({a, b, c, d})
  <2>1. IsFiniteSet((({a} \cup {b}) \cup {c}) \cup {d})
    BY FS_Singleton, FS_AddElement
  <2>2. {a, b, c, d} = (({a} \cup {b}) \cup {c}) \cup {d}
    OBVIOUS
  <2> QED BY <2>1, <2>2
<1> QED BY <1>1, Extremes

\* The settings, resolved.
LEMMA Resolved ==
  /\ IsTable(BaseTable) /\ IsTable(CellTable) /\ BackoffRatio \in Nat
  /\ DOMAIN Profiles = {"default", "cell"}
  /\ \A p \in {"default", "cell"} :
       /\ IsTable(TableOf(p)) /\ Rising(TableOf(p))
       /\ TableOf(p) = IF p = "default" THEN BaseTable ELSE CellTable
       /\ Profiles[p].up = IF p = "default" THEN BaseUp ELSE CellUp
       /\ Profiles[p].hold = IF p = "default" THEN BaseHold ELSE CellHold
       /\ Profiles[p].up \in Nat \ {0} /\ Profiles[p].hold \in Nat \ {0}
       /\ FloorOf(p) \in Nat
  /\ Fixed \in Nat /\ Dwell \in Nat \ {0}
  /\ \A w : ResolveFecProfile(w) \in {"default", "cell"}
<1>1. IsTable(BaseTable) /\ IsTable(CellTable) /\ Rising(BaseTable) /\ Rising(CellTable)
  BY TableAssumption
<1>2. DefaultRatio \in Nat
  BY DEF DefaultRatio, Overhead
<1>3. \A x \in Nat \cup {Unusable, Unset}, r \in Nat : SafeRatio(x, r) \in Nat
  BY DEF SafeRatio, Unusable, Unset
<1>4. Fixed \in Nat /\ ConfigFloor \in Nat
  BY <1>2, <1>3, InputAssumption DEF Fixed, ConfigFloor
<1>5. Floor(Unset) \in Nat /\ Floor(CellFloorEntry) \in Nat
  BY <1>3, <1>4, InputAssumption DEF Floor
<1>6. DOMAIN Profiles = {"default", "cell"}
  BY DEF Profiles
<1>7. /\ TableOf("default") = BaseTable /\ TableOf("cell") = CellTable
      /\ Profiles["default"].up = BaseUp /\ Profiles["cell"].up = CellUp
      /\ Profiles["default"].hold = BaseHold /\ Profiles["cell"].hold = CellHold
      /\ FloorOf("default") = Floor(Unset) /\ FloorOf("cell") = Floor(CellFloorEntry)
  BY DEF Profiles, TableOf, FloorOf
<1>8. \A w : ResolveFecProfile(w) \in {"default", "cell"}
  BY DEF ResolveFecProfile
<1> QED BY <1>1, <1>4, <1>5, <1>6, <1>7, <1>8, ClockAssumption, InputAssumption

\* The slowest hold, and the time the leg is given to come to rest.
Longest == Max({BaseHold, CellHold})

\* The times the engine waits, within Patience.
LEMMA Clocks ==
  /\ Longest \in Nat /\ \A p \in {"default", "cell"} : Profiles[p].hold <= Longest
  /\ Patience \in Nat /\ Patience > Dwell
  /\ \A p \in {"default", "cell"} :
       Dwell + Profiles[p].up <= Patience /\ Dwell + Profiles[p].hold <= Patience
<1>1. /\ BaseUp \in Nat \ {0} /\ CellUp \in Nat \ {0} /\ BaseHold \in Nat \ {0}
      /\ CellHold \in Nat \ {0} /\ Dwell \in Nat \ {0}
  BY ClockAssumption
<1>2. Longest = IF BaseHold >= CellHold THEN BaseHold ELSE CellHold
  BY <1>1, OfTwo DEF Longest
<1> DEFINE m == Max({BaseUp, CellUp, BaseHold, CellHold})
<1>3. m \in Int /\ BaseUp <= m /\ CellUp <= m /\ BaseHold <= m /\ CellHold <= m
  <2>1. BaseUp \in Int /\ CellUp \in Int /\ BaseHold \in Int /\ CellHold \in Int
    BY <1>1
  <2> QED BY <2>1, OfFour
<1>4. Patience = Dwell + m
  BY DEF Patience
<1> HIDE DEF m
<1> QED BY <1>1, <1>2, <1>3, <1>4, Resolved

\* The ratio of a level in a mode.
LEMMA RatiosAt ==
  ASSUME NEW m \in Modes, NEW p \in {"default", "cell"}, NEW l \in AllLevels(TableOf(p))
  PROVE  /\ RatioAt[m][p][l] = ApplyMode(m, LevelToRatio(l, TableOf(p)), Fixed, FloorOf(p))
         /\ RatioAt[m][p][l] \in Nat
         /\ \A k \in AllLevels(TableOf(p)) : l <= k => RatioAt[m][p][l] <= RatioAt[m][p][k]
<1>1. ASSUME NEW k \in AllLevels(TableOf(p))
      PROVE  RatioAt[m][p][k] = ApplyMode(m, LevelToRatio(k, TableOf(p)), Fixed, FloorOf(p))
  <2>1. p \in DOMAIN Profiles
    BY Resolved
  <2>2. k \in AllLevels(BaseTable) \cup AllLevels(CellTable)
    BY Resolved
  <2> QED BY <2>1, <2>2 DEF RatioAt
<1>2. /\ \A k \in AllLevels(TableOf(p)) : LevelToRatio(k, TableOf(p)) \in Nat
      /\ \A k \in AllLevels(TableOf(p)) :
           l <= k => LevelToRatio(l, TableOf(p)) <= LevelToRatio(k, TableOf(p))
  BY Resolved, LevelsRow, LevelsRise
<1>3. Fixed \in Nat /\ FloorOf(p) \in Nat
  BY Resolved
<1>4. \A k \in AllLevels(TableOf(p)) :
        l <= k => ApplyMode(m, LevelToRatio(l, TableOf(p)), Fixed, FloorOf(p))
                    <= ApplyMode(m, LevelToRatio(k, TableOf(p)), Fixed, FloorOf(p))
  BY <1>2, <1>3, ModesRise
<1>5. ApplyMode(m, LevelToRatio(l, TableOf(p)), Fixed, FloorOf(p)) \in Nat
  BY <1>2, <1>3, ModesRise
<1> QED BY <1>1, <1>4, <1>5

\* The worst of the WANs that carry traffic is one of them.
LEMMA DriverIsActive ==
  ASSUME NEW s \in Situation
  PROVE  FecDriverWan(s.loss, s.active) \in s.active /\ s.active \subseteq Wans
<1>1. s.active \subseteq Wans /\ s.active # {} /\ s.loss \in [Wans -> Losses]
  BY DEF Situation
<1> DEFINE loss == s.loss
           among == s.active
           worst == {w \in among : \A v \in among : loss[v] <= loss[w]}
           I == {i \in DOMAIN WanNames : WanNames[i] \in worst}
<1>2. WanNames \in Seq(Wans) /\ DOMAIN WanNames = 1 .. Len(WanNames) /\ Len(WanNames) \in Nat
  BY InputAssumption
<1>3. IsFiniteSet(DOMAIN WanNames)
  BY <1>2, FS_Interval
<1>4. IsFiniteSet(Wans)
  <2>1. WanNames \in Surjection(DOMAIN WanNames, Wans)
    <3>1. WanNames \in [DOMAIN WanNames -> Wans]
      BY <1>2
    <3>2. \A w \in Wans : \E i \in DOMAIN WanNames : WanNames[i] = w
      BY DEF Wans, ToSet
    <3> QED BY <3>1, <3>2 DEF Surjection
  <2> QED BY <1>3, <2>1, FS_Surjection
<1>5. worst # {}
  <2> DEFINE f == [w \in among |-> loss[w]]
  <2>1. f \in [among -> Int] /\ \A w \in among : f[w] = loss[w]
    <3>1. \A w \in among : w \in Wans
      BY <1>1
    <3>2. \A w \in among : loss[w] \in Losses
      BY <1>1, <3>1
    <3>3. Losses \subseteq Int
      BY InputAssumption
    <3>4. \A w \in among : loss[w] \in Int
      BY <3>2, <3>3
    <3> QED BY <3>4
  <2>2. IsFiniteSet(among)
    BY <1>1, <1>4, FS_Subset
  <2> HIDE DEF f
  <2>3. \E w \in among : \A v \in among : f[v] <= f[w]
    BY <1>1, <2>1, <2>2, Topmost
  <2> QED BY <2>1, <2>3
<1>6. I # {} /\ I \in SUBSET Int /\ IsFiniteSet(I)
  <2>1. PICK w \in worst : w \in Wans
    BY <1>1, <1>5
  <2>2. \E i \in DOMAIN WanNames : WanNames[i] = w
    BY <2>1 DEF Wans, ToSet
  <2> QED BY <1>2, <1>3, <2>2, FS_Subset
<1>7. Min(I) \in I
  BY <1>6, Extremes
<1>8. FecDriverWan(s.loss, s.active) = WanNames[Min(I)]
  BY DEF FecDriverWan
<1> QED BY <1>1, <1>7, <1>8

\* What a tick finds.
LEMMA Situated ==
  ASSUME NEW s \in Situation
  PROVE  /\ s.backoff \in BOOLEAN /\ s.mode \in Modes /\ s.place \in Places /\ s.place \in Nat
         /\ s.reading \in {"degraded", "between", "clear"}
<1>1. TopLevel(BaseTable) \in Nat
  BY Resolved, Rows
<1>2. Places \subseteq Nat
  BY <1>1 DEF Places
<1> QED BY <1>2 DEF Situation

\* The engine's part of the type.
RtTyped(r, p) == r \in [level : AllLevels(TableOf(p)), streak : 0 .. Profiles[p].up - 1,
                        since : 0 .. Longest]
Driven == [driver : Wans \cup {NoWan}, wan : Wans \cup {NoWan}, since : 0 .. Dwell - 1]
Typed == TypeOK /\ RtTyped(rt, profile)

\* The runtime as the tick finds it: on the same profile a clock that has run, on
\* another the level that keeps its ratio.
LEMMA Ages ==
  ASSUME RtTyped(rt, profile), profile \in {"default", "cell"}, NEW p \in {"default", "cell"}
  PROVE  /\ Aged(p).level \in AllLevels(TableOf(p)) /\ Aged(p).streak \in Nat
         /\ Aged(p).since \in 0 .. Longest
         /\ p = profile => /\ Aged(p).level = rt.level /\ Aged(p).streak = rt.streak
                           /\ Aged(p).since = IF rt.since < Longest THEN rt.since + 1 ELSE Longest
         /\ p # profile =>
              /\ Aged(p).level = RatioToLevel(LevelToRatio(rt.level, TableOf(profile)), TableOf(p))
              /\ Aged(p).streak = 0 /\ Aged(p).since = 0
<1>1. Longest \in Nat /\ IsTable(TableOf(p)) /\ Profiles[p].up \in Nat
  BY Clocks, Resolved
<1>2. CASE p = profile
  <2>1. rt.since \in Int /\ rt.since + 1 \in Int /\ Longest \in Int
    BY <1>1 DEF RtTyped
  <2>2. Min({rt.since + 1, Longest}) = IF rt.since + 1 <= Longest THEN rt.since + 1 ELSE Longest
    BY <2>1, OfTwo
  <2>3. Aged(p).level = rt.level /\ Aged(p).streak = rt.streak
        /\ Aged(p).since = Min({rt.since + 1, Longest})
    BY <1>2 DEF Aged, RtTyped, Longest
  <2> QED BY <1>1, <1>2, <2>1, <2>2, <2>3 DEF RtTyped
<1>3. CASE p # profile
  <2>1. Aged(p) = Runtime(RatioToLevel(LevelToRatio(rt.level, TableOf(profile)), TableOf(p)), 0, 0)
    BY <1>3 DEF Aged, ReseedRuntime
  <2>2. RatioToLevel(LevelToRatio(rt.level, TableOf(profile)), TableOf(p)) \in AllLevels(TableOf(p))
    BY <1>1, RatiosLevel
  <2> QED BY <1>1, <1>3, <2>1, <2>2 DEF Runtime
<1> QED BY <1>2, <1>3

\* What Aged leaves is aged, and what the step leaves is a runtime of the profile.
LEMMA StepTyped ==
  ASSUME RtTyped(rt, profile), profile \in {"default", "cell"}, NEW p \in {"default", "cell"},
         NEW target \in AllLevels(TableOf(p))
  PROVE  RtTyped(StepLevel(target, Aged(p), Profiles[p].up, Profiles[p].hold), p)
<1> DEFINE r == Aged(p)  up == Profiles[p].up  hold == Profiles[p].hold
           q == StepLevel(target, r, up, hold)
<1>1. /\ IsTable(TableOf(p)) /\ up \in Nat \ {0} /\ hold \in Nat /\ Longest \in Nat
      /\ r.level \in AllLevels(TableOf(p)) /\ r.streak \in Nat /\ r.since \in 0 .. Longest
  BY Ages, Resolved, Clocks
<1>2. r.since \in Nat
  BY <1>1
<1>3. q.level \in {target, r.level} /\ q.streak \in 0 .. up - 1 /\ q.since \in {0, r.since}
  <2> HIDE DEF r, up, hold
  <2> QED BY <1>1, <1>2, Steps
<1>4. q = [level |-> q.level, streak |-> q.streak, since |-> q.since]
  <2>1. \E a, b, c : q = Runtime(a, b, c)
    <3>1. q = CASE target > r.level /\ r.streak + 1 >= up -> Runtime(target, 0, 0)
                [] target > r.level /\ r.streak + 1 < up -> Runtime(r.level, r.streak + 1, r.since)
                [] target < r.level /\ r.since >= hold -> Runtime(target, 0, 0)
                [] OTHER -> Runtime(r.level, 0, r.since)
      BY DEF StepLevel
    <3> HIDE DEF q, r, up, hold
    <3> QED BY <3>1
  <2> HIDE DEF q
  <2> QED BY <2>1 DEF Runtime
<1>5. q.level \in AllLevels(TableOf(p)) /\ q.since \in 0 .. Longest
  BY <1>1, <1>3
<1> HIDE DEF q
<1>6. q \in [level : AllLevels(TableOf(p)), streak : 0 .. up - 1, since : 0 .. Longest]
  BY <1>3, <1>4, <1>5
<1> QED BY <1>6 DEF RtTyped, q

\* The pick of a driver: the incumbent, or the worst, after its dwell if it must
\* earn it.
LEMMA Picks ==
  ASSUME drive \in Driven, NEW w \in Wans, NEW among \in SUBSET Wans, w \in among
  PROVE  LET d == FecDriverPick(w, among)
         IN  /\ d \in Driven
             /\ \/ d = Keep(w)
                   /\ \/ w = drive.driver \/ drive.driver \notin among
                      \/ active # {} /\ w \notin active
                      \/ drive.wan = w /\ drive.since + 1 >= Dwell
                \/ /\ w # drive.driver /\ drive.driver \in among /\ d.driver = drive.driver
                   /\ d.wan = w
                   /\ \/ drive.wan # w /\ d.since = 0
                      \/ drive.wan = w /\ d.since = drive.since + 1
<1> DEFINE free == drive.driver \notin among \/ (active # {} /\ w \notin active)
           lasting == drive.wan = w /\ drive.since + 1 >= Dwell
           d == FecDriverPick(w, among)
<1>1. Dwell \in Nat \ {0} /\ 0 \in 0 .. Dwell - 1
  BY Resolved
<1>2. drive.since \in 0 .. Dwell - 1 /\ drive.driver \in Wans \cup {NoWan}
  BY DEF Driven
<1>3. Keep(w) \in Driven
  BY <1>1 DEF Keep, Driven
<1>4. CASE w = drive.driver \/ free \/ lasting
  <2>1. d = Keep(w)
    <3>1. w = drive.driver \/ free \/ lasting => ~(~free /\ w # drive.driver /\ drive.wan # w)
      OBVIOUS
    <3> QED BY <1>4, <3>1 DEF FecDriverPick
  <2> QED BY <1>3, <1>4, <2>1
<1>5. CASE ~free /\ w # drive.driver /\ drive.wan # w
  <2>1. d = [drive EXCEPT !.wan = w, !.since = 0]
    BY <1>5 DEF FecDriverPick
  <2>2. d \in Driven /\ d.driver = drive.driver /\ d.wan = w /\ d.since = 0
    BY <1>1, <2>1 DEF Driven
  <2> QED BY <1>5, <2>2
<1>6. CASE ~free /\ w # drive.driver /\ drive.wan = w /\ ~lasting
  <2>1. d = [drive EXCEPT !.since = @ + 1]
    BY <1>6 DEF FecDriverPick
  <2>2. drive.since + 1 \in 0 .. Dwell - 1
    BY <1>1, <1>2, <1>6
  <2>3. d \in Driven /\ d.driver = drive.driver /\ d.wan = w /\ d.since = drive.since + 1
    BY <1>6, <2>1, <2>2 DEF Driven
  <2> QED BY <1>6, <2>3
<1> QED BY <1>4, <1>5, <1>6

\* The tick, in its steps: the worst WAN w, the profile p, its target, the level
\* with what the radio asks, and the ratio with and without the place.
TickOf(s, w, p, target, level, with, without) ==
  /\ w = FecDriverWan(s.loss, s.active) /\ w \in s.active
  /\ lead' = Leading(w) /\ drive' = FecDriverPick(w, s.active) /\ active' = s.active
  /\ p = profile' /\ profile' = ResolveFecProfile(drive'.driver)
  /\ engaged' = SignalUpdate(engaged, Reading(s, drive'.driver))
  /\ target = FecTarget(s, TableOf(p))
  /\ rt' = StepLevel(target, Aged(p), Profiles[p].up, Profiles[p].hold)
  /\ asked' = Asking(target, p, rt'.level)
  /\ level = SignalFloored(s, rt'.level, engaged', p)
  /\ without = RatioAt[s.mode][p][level]
  /\ with = RatioAt[s.mode][p][ApplyLocationFloor(level, s.place, TableOf(p))]
  /\ ratio' \in IF calm = Changing THEN {ratio, with} ELSE {with}
  /\ IF ratio' # ratio THEN wire' = ratio' /\ restarted' = FALSE
                       ELSE UNCHANGED <<wire, restarted>>
  /\ shown' = Shown(s, p, rt'.level, ratio', with, without)
  /\ calm' \in IF calm = Changing /\ ratio' = with THEN {Changing, {s}} ELSE {calm}

\* Every tick has such steps, of their types; the place takes no parity away.
LEMMA Ticks ==
  ASSUME Typed, NEW s \in Situation, TickIn(s)
  PROVE  \E w \in Wans, p \in {"default", "cell"} :
         \E target \in AllLevels(TableOf(p)), level \in AllLevels(TableOf(p)),
            with \in Nat, without \in Nat :
           /\ TickOf(s, w, p, target, level, with, without)
           /\ RtTyped(rt', p) /\ without <= with
<1> DEFINE w == FecDriverWan(s.loss, s.active)
           p == profile'
           target == FecTarget(s, TableOf(p))
           level == SignalFloored(s, rt'.level, engaged', p)
           lifted == ApplyLocationFloor(level, s.place, TableOf(p))
           without == RatioAt[s.mode][p][level]
           with == RatioAt[s.mode][p][lifted]
<1>1. w \in Wans /\ w \in s.active
  BY DriverIsActive
<1>2. p = ResolveFecProfile(drive'.driver) /\ p \in {"default", "cell"}
  BY Resolved DEF TickIn
<1>3. /\ lead' = Leading(w) /\ drive' = FecDriverPick(w, s.active) /\ active' = s.active
      /\ engaged' = SignalUpdate(engaged, Reading(s, drive'.driver))
      /\ rt' = StepLevel(target, Aged(p), Profiles[p].up, Profiles[p].hold)
      /\ asked' = Asking(target, p, rt'.level)
  <2>1. /\ lead' = Leading(w) /\ drive' = FecDriverPick(lead'.wan, s.active)
        /\ active' = s.active
        /\ engaged' = SignalUpdate(engaged, Reading(s, drive'.driver))
        /\ \E t \in {target} : /\ rt' = StepLevel(t, Aged(p), Profiles[p].up, Profiles[p].hold)
                              /\ asked' = Asking(t, p, rt'.level)
    BY Zenon DEF TickIn
  <2>2. Leading(w).wan = w
    BY DEF Leading, Typed, TypeOK
  <2> HIDE DEF w, p, target
  <2> QED BY <2>1, <2>2
<1>4. /\ ratio' \in IF calm = Changing THEN {ratio, with} ELSE {with}
      /\ IF ratio' # ratio THEN wire' = ratio' /\ restarted' = FALSE
                           ELSE UNCHANGED <<wire, restarted>>
      /\ shown' = Shown(s, p, rt'.level, ratio', with, without)
      /\ calm' \in IF calm = Changing /\ ratio' = with THEN {Changing, {s}} ELSE {calm}
  <2>1. \E l \in {level} : \E wo \in {RatioAt[s.mode][p][l]},
           wi \in {RatioAt[s.mode][p][ApplyLocationFloor(l, s.place, TableOf(p))]} :
         \E held \in IF calm = Changing THEN {ratio, wi} ELSE {wi} :
           /\ ratio' = held
           /\ IF held # ratio THEN wire' = held /\ restarted' = FALSE
                              ELSE UNCHANGED <<wire, restarted>>
           /\ shown' = Shown(s, p, rt'.level, held, wi, wo)
           /\ calm' \in IF calm = Changing /\ held = wi THEN {Changing, {s}} ELSE {calm}
    BY Zenon DEF TickIn
  <2> HIDE DEF p, level
  <2> QED BY <2>1
<1>5. IsTable(TableOf(p))
  BY <1>2, Resolved
<1>6. target \in AllLevels(TableOf(p))
  BY <1>5, Situated, LossesLevel DEF FecTarget
<1>7. RtTyped(rt', p)
  <2>1. RtTyped(rt, profile) /\ profile \in {"default", "cell"}
    BY DEF Typed, TypeOK
  <2> HIDE DEF p, target
  <2> QED BY <1>2, <1>3, <1>6, <2>1, StepTyped
<1>8. level \in AllLevels(TableOf(p))
  <2>1. rt'.level \in AllLevels(TableOf(p))
    BY <1>7 DEF RtTyped
  <2>2. (engaged' /\ ~s.backoff) \in BOOLEAN
    OBVIOUS
  <2> HIDE DEF p
  <2> QED BY <1>5, <2>1, <2>2, FloorsRaise DEF SignalFloored
<1>9. lifted \in AllLevels(TableOf(p)) /\ level <= lifted
  <2>1. s.place \in Nat
    BY Situated
  <2> HIDE DEF p, level
  <2> QED BY <1>5, <1>8, <2>1, FloorsRaise
<1>10. with \in Nat /\ without \in Nat /\ without <= with
  <2>1. s.mode \in Modes
    BY Situated
  <2> HIDE DEF p, level, lifted
  <2> QED BY <1>2, <1>8, <1>9, <2>1, RatiosAt
<1>11. TickOf(s, w, p, target, level, with, without)
  BY <1>1, <1>2, <1>3, <1>4 DEF TickOf
<1> HIDE DEF w, p, target, level, with, without
<1> QED BY <1>1, <1>2, <1>6, <1>7, <1>8, <1>10, <1>11

-----------------------------------------------------------------------------
(* Types.                                                                  *)

\* The pace of the ticks: none counts while things change.
Paced(s) ==
  \/ calm = Changing /\ quiet' = 0
  \/ s \in calm /\ calm = {s} /\ quiet' = Min({quiet + 1, Patience})

\* A step is a tick in some situation, or a restart of udpspeeder.
LEMMA NextCases ==
  ASSUME Typed, [Next]_vars
  PROVE  \/ \E s \in Situation : TickIn(s) /\ Paced(s)
         \/ wire' = UnitRatio /\ restarted' = TRUE
            /\ UNCHANGED <<engine, ratio, shown, calm, quiet, history>>
         \/ UNCHANGED vars
<1>1. calm = Changing \/ \E s \in Situation : calm = {s}
  BY DEF Typed, TypeOK
<1>2. CASE Tick
  BY <1>2 DEF Tick, Paced
<1>3. CASE CalmTick
  <2>1. PICK s \in calm : TickIn(s) /\ quiet' = Min({quiet + 1, Patience})
    BY <1>3 DEF CalmTick
  <2>2. s \in Situation /\ calm = {s}
    BY <1>1, <2>1 DEF Changing
  <2> QED BY <2>1, <2>2 DEF Paced
<1>4. CASE Restart
  BY <1>4 DEF Restart
<1> QED BY <1>2, <1>3, <1>4 DEF Next

\* So it begins.
LEMMA TypeInit == Init => Typed
<1> SUFFICES ASSUME Init PROVE Typed
  OBVIOUS
<1>1. /\ drive = Keep(NoWan) /\ active = {} /\ profile = "default" /\ rt = Runtime(0, 0, 0)
      /\ engaged = FALSE /\ ratio = Unset /\ wire = UnitRatio /\ calm = Changing /\ quiet = 0
      /\ lead = [wan |-> NoWan, for |-> 0] /\ asked = LevelToRatio(0, BaseTable)
      /\ restarted = FALSE
  BY DEF Init
<1>2. IsTable(TableOf("default")) /\ TableOf("default") = BaseTable
      /\ Profiles["default"].up \in Nat \ {0} /\ Dwell \in Nat \ {0}
  BY Resolved
<1>3. 0 \in AllLevels(TableOf("default")) /\ LevelToRatio(0, BaseTable) \in Nat
  BY <1>2, Rows, LevelsRow
<1>4. 0 \in 0 .. Longest /\ 0 \in 0 .. Patience /\ 0 \in 0 .. Dwell - 1 /\ 0 \in 0 .. Dwell
      /\ 0 \in 0 .. Profiles["default"].up - 1
  BY <1>2, Clocks
<1>5. RtTyped(rt, profile)
  BY <1>1, <1>3, <1>4 DEF RtTyped, Runtime
<1>6. UnitRatio \in Nat
  BY DEF UnitRatio, Overhead
<1>7. drive \in Driven
  BY <1>1, <1>4 DEF Driven, Keep
<1>8. rt.level \in AllLevels(TableOf(profile)) /\ rt.streak < Profiles[profile].up
      /\ rt.since \in Nat
  BY <1>1, <1>2, <1>3 DEF Runtime
<1>9. TypeOK
  BY <1>1, <1>3, <1>4, <1>6, <1>7, <1>8 DEF TypeOK, Driven, Ratios
<1> QED BY <1>5, <1>9 DEF Typed

\* So it is with each tick.
LEMMA TypeTicks ==
  ASSUME Typed, NEW s \in Situation, TickIn(s), Paced(s)
  PROVE  Typed'
<1>1. PICK w \in Wans, p \in {"default", "cell"} :
      \E target \in AllLevels(TableOf(p)), level \in AllLevels(TableOf(p)),
         with \in Nat, without \in Nat :
           TickOf(s, w, p, target, level, with, without) /\ RtTyped(rt', p)
  BY Ticks
<1>2. PICK target \in AllLevels(TableOf(p)), level \in AllLevels(TableOf(p)),
           with \in Nat, without \in Nat :
             TickOf(s, w, p, target, level, with, without) /\ RtTyped(rt', p)
  BY <1>1
<1>3. TypeOK /\ drive \in Driven /\ Dwell \in Nat \ {0} /\ s.active \subseteq Wans
  BY Resolved, DriverIsActive DEF Typed, TypeOK, Driven
<1>4. drive' \in Driven
  BY <1>2, <1>3, Picks DEF TickOf
<1>5. active' \in SUBSET Wans /\ profile' = p
  BY <1>2, <1>3 DEF TickOf
<1>6. engaged' \in BOOLEAN
  BY <1>2, <1>3 DEF TickOf, SignalUpdate, TypeOK
<1>7. ratio' \in Ratios /\ wire' \in Nat /\ restarted' \in BOOLEAN
  <2>1. ratio' \in {ratio, with} /\ ratio \in Ratios /\ wire \in Nat /\ restarted \in BOOLEAN
    BY <1>2, <1>3 DEF TickOf, TypeOK
  <2>2. ratio' # ratio => wire' = with /\ restarted' = FALSE
    BY <1>2, <2>1 DEF TickOf
  <2>3. ratio' = ratio => wire' = wire /\ restarted' = restarted
    BY <1>2 DEF TickOf
  <2> QED BY <2>1, <2>2, <2>3 DEF Ratios
<1>8. calm' = Changing \/ \E z \in Situation : calm' = {z}
  <2>1. calm' \in {calm, Changing, {s}}
    BY <1>2 DEF TickOf
  <2> QED BY <1>3, <2>1 DEF TypeOK
<1>9. quiet' \in 0 .. Patience
  <2>1. quiet \in 0 .. Patience /\ Patience \in Nat
    BY <1>3, Clocks DEF TypeOK
  <2>2. quiet + 1 \in Int /\ Patience \in Int
    BY <2>1
  <2>3. Min({quiet + 1, Patience}) = IF quiet + 1 <= Patience THEN quiet + 1 ELSE Patience
    BY <2>2, OfTwo
  <2> QED BY <2>1, <2>3 DEF Paced
<1>10. lead' \in [wan : Wans \cup {NoWan}, for : 0 .. Dwell]
  <2>1. lead \in [wan : Wans \cup {NoWan}, for : 0 .. Dwell] /\ lead' = Leading(w)
    BY <1>2, <1>3 DEF TickOf, TypeOK
  <2>2. lead.for \in 0 .. Dwell /\ lead.for + 1 \in Int /\ Dwell \in Int
    BY <1>3, <2>1
  <2>3. Min({lead.for + 1, Dwell}) = IF lead.for + 1 <= Dwell THEN lead.for + 1 ELSE Dwell
    BY <2>2, OfTwo
  <2>4. Min({lead.for + 1, Dwell}) \in 0 .. Dwell /\ 0 \in 0 .. Dwell
    BY <1>3, <2>2, <2>3
  <2> QED BY <2>1, <2>4 DEF Leading
<1>11. asked' \in Nat
  <2>1. asked \in Nat /\ LevelToRatio(target, TableOf(p)) \in Nat
    BY <1>3, Resolved, LevelsRow DEF TypeOK
  <2>2. Max({asked, LevelToRatio(target, TableOf(p))}) \in Nat
    BY <2>1, OfTwo
  <2> QED BY <1>2, <2>1, <2>2 DEF TickOf, Asking
<1>12. /\ rt'.level \in AllLevels(TableOf(p)) /\ rt'.streak < Profiles[p].up
       /\ rt'.since \in Nat
  <2>1. Profiles[p].up \in Nat /\ Longest \in Nat
    BY Resolved, Clocks
  <2> QED BY <1>2, <2>1 DEF RtTyped
<1>13. TypeOK'
  BY <1>4, <1>5, <1>6, <1>7, <1>8, <1>9, <1>10, <1>11, <1>12 DEF TypeOK, Driven, Ratios
<1>14. RtTyped(rt, profile)'
  BY <1>2, <1>5
<1> QED BY <1>13, <1>14 DEF Typed

\* And with each step.
LEMMA TypeStep == Typed /\ [Next]_vars => Typed'
<1> SUFFICES ASSUME Typed, [Next]_vars PROVE Typed'
  OBVIOUS
<1>1. CASE \E s \in Situation : TickIn(s) /\ Paced(s)
  BY <1>1, TypeTicks
<1>2. CASE wire' = UnitRatio /\ restarted' = TRUE
           /\ UNCHANGED <<engine, ratio, shown, calm, quiet, history>>
  <2>1. UnitRatio \in Nat
    BY DEF UnitRatio, Overhead
  <2> QED BY <1>2, <2>1 DEF Typed, TypeOK, RtTyped, engine, history
<1>3. CASE UNCHANGED vars
  BY <1>3 DEF vars, engine, history, Typed, TypeOK, RtTyped
<1> QED BY <1>1, <1>2, <1>3, NextCases

\* The engine's state has its types, whatever the ticks find (run_controller).
THEOREM TypeCorrect == Spec => []TypeOK
<1>1. Typed => TypeOK
  BY DEF Typed
<1> QED BY <1>1, TypeInit, TypeStep, PTL DEF Spec

\* The types, with those of the runtime, always.
LEMMA TypedAlways == Spec => []Typed
<1> QED BY TypeInit, TypeStep, PTL DEF Spec

-----------------------------------------------------------------------------
(* The driver's dwell.                                                     *)

\* A challenge in flight is that of the worst WAN, which has been the worst at
\* least as long as the challenge counts.
Challenge == drive.wan # NoWan => lead.wan = drive.wan /\ drive.since <= lead.for

\* The worst WAN's history, a tick later.
LEMMA Leads ==
  ASSUME Typed, NEW w
  PROVE  /\ Leading(w).wan = w
         /\ w = lead.wan => Leading(w).for = IF lead.for < Dwell THEN lead.for + 1 ELSE Dwell
         /\ w = lead.wan => Leading(w) = [wan |-> w, for |-> Leading(w).for]
         /\ w # lead.wan => Leading(w).for = 0
<1>1. lead \in [wan : Wans \cup {NoWan}, for : 0 .. Dwell] /\ Dwell \in Nat \ {0}
  BY Resolved DEF Typed, TypeOK
<1>2. lead.for + 1 \in Int /\ Dwell \in Int /\ lead.for \in Int
  BY <1>1
<1>3. Min({lead.for + 1, Dwell}) = IF lead.for + 1 <= Dwell THEN lead.for + 1 ELSE Dwell
  BY <1>2, OfTwo
<1>4. CASE w = lead.wan
  <2>1. Leading(w) = [lead EXCEPT !.for = Min({@ + 1, Dwell})]
    BY <1>4 DEF Leading
  <2>2. Leading(w) = [wan |-> w, for |-> Min({lead.for + 1, Dwell})]
    BY <1>1, <1>4, <2>1
  <2> QED BY <1>2, <1>3, <1>4, <2>2
<1>5. CASE w # lead.wan
  BY <1>5 DEF Leading
<1> QED BY <1>4, <1>5

\* A tick's driver, from the driver before it.
LEMMA DriverTicks ==
  ASSUME Typed, Challenge, NEW s \in Situation, TickIn(s)
  PROVE  /\ Challenge'
         /\ \A v, w \in Wans :
              drive.driver = v /\ drive'.driver = w /\ v # w /\ v \in active' /\ w \in active
                => lead' = [wan |-> w, for |-> Dwell]
<1>1. PICK w \in Wans, p \in {"default", "cell"} :
      \E target \in AllLevels(TableOf(p)), level \in AllLevels(TableOf(p)),
         with \in Nat, without \in Nat : TickOf(s, w, p, target, level, with, without)
  BY Ticks
<1>2. /\ w \in s.active /\ lead' = Leading(w) /\ drive' = FecDriverPick(w, s.active)
      /\ active' = s.active
  BY <1>1 DEF TickOf
<1>3. /\ drive \in Driven /\ Dwell \in Nat \ {0} /\ s.active \in SUBSET Wans
      /\ drive.since \in 0 .. Dwell - 1 /\ lead.for \in 0 .. Dwell
      /\ NoWan \notin Wans
  BY Resolved, DriverIsActive, InputAssumption DEF Typed, TypeOK, Driven
<1>4. \/ drive' = Keep(w)
         /\ \/ w = drive.driver \/ drive.driver \notin s.active
            \/ active # {} /\ w \notin active
            \/ drive.wan = w /\ drive.since + 1 >= Dwell
      \/ /\ drive'.driver = drive.driver /\ drive'.wan = w
         /\ \/ drive.wan # w /\ drive'.since = 0
            \/ drive.wan = w /\ drive'.since = drive.since + 1
  BY <1>2, <1>3, Picks
<1>5. /\ lead'.wan = w /\ lead'.for \in 0 .. Dwell
      /\ w = lead.wan => /\ lead'.for = IF lead.for < Dwell THEN lead.for + 1 ELSE Dwell
                         /\ lead' = [wan |-> w, for |-> lead'.for]
  BY <1>2, <1>3, Leads
<1>6. drive' \in Driven
  BY <1>2, <1>3, Picks
<1>7. Challenge'
  <2>1. CASE drive' = Keep(w)
    BY <2>1 DEF Challenge, Keep
  <2>2. CASE drive'.wan = w /\ drive'.since = 0
    BY <1>3, <1>5, <2>2 DEF Challenge
  <2>3. CASE drive'.wan = w /\ drive.wan = w /\ drive'.since = drive.since + 1
    <3>1. lead.wan = w /\ drive.since <= lead.for
      BY <1>3, <2>3 DEF Challenge
    <3>2. drive'.since \in 0 .. Dwell - 1
      BY <1>6 DEF Driven
    <3> QED BY <1>3, <1>5, <2>3, <3>1, <3>2 DEF Challenge
  <2> QED BY <1>4, <2>1, <2>2, <2>3
<1>8. ASSUME NEW v \in Wans, NEW u \in Wans, drive.driver = v, drive'.driver = u, v # u,
             v \in active', u \in active
      PROVE  lead' = [wan |-> u, for |-> Dwell]
  <2>1. drive' = Keep(w) /\ u = w
    BY <1>4, <1>8 DEF Keep
  <2>2. drive.wan = w /\ drive.since + 1 >= Dwell
    BY <1>2, <1>4, <1>8, <2>1
  <2>3. lead.wan = w /\ lead.for + 1 >= Dwell
    BY <1>3, <2>2 DEF Challenge
  <2> QED BY <1>3, <1>5, <2>1, <2>3
<1> QED BY <1>7, <1>8

\* A WAN takes the drive from one that still carries traffic only after Dwell
\* ticks in a row as the worst (fec_driver_pick, whatever the losses do).
THEOREM DwellIsEarned == Spec => DriverEarnsDwell
<1>1. Init => Challenge
  BY DEF Init, Challenge, Keep
<1>2. ASSUME Typed, Challenge, [Next]_vars
      PROVE  /\ Challenge'
             /\ [\A v, w \in Wans :
                   drive.driver = v /\ drive'.driver = w /\ v # w /\ v \in active' /\ w \in active
                     => lead' = [wan |-> w, for |-> Dwell]]_vars
  <2>1. CASE \E s \in Situation : TickIn(s)
    BY <1>2, <2>1, DriverTicks
  <2>2. CASE UNCHANGED <<engine, history>>
    BY <1>2, <2>2 DEF Challenge, engine, history
  <2>3. CASE UNCHANGED vars
    BY <1>2, <2>3 DEF Challenge, vars, engine, history
  <2> QED BY <1>2, <2>1, <2>2, <2>3, NextCases
<1>3. QED
  BY <1>1, <1>2, TypedAlways, PTL DEF Spec, DriverEarnsDwell

-----------------------------------------------------------------------------
(* The parity held, and what asked for it.                                 *)

\* No more parity than asked for, at the idle level too: a change of profile may
\* start from it.
Claimed == LevelToRatio(rt.level, TableOf(profile)) <= asked

\* A tick's level is one that was asked for.
LEMMA ClaimTicks ==
  ASSUME Typed, Claimed, NEW s \in Situation, TickIn(s)
  PROVE  Claimed'
<1>1. PICK w \in Wans, p \in {"default", "cell"} :
      \E target \in AllLevels(TableOf(p)), level \in AllLevels(TableOf(p)),
         with \in Nat, without \in Nat : TickOf(s, w, p, target, level, with, without)
  BY Ticks
<1>2. PICK target \in AllLevels(TableOf(p)) : \E level \in AllLevels(TableOf(p)),
         with \in Nat, without \in Nat : TickOf(s, w, p, target, level, with, without)
  BY <1>1
<1> DEFINE r == Aged(p)
           q == StepLevel(target, r, Profiles[p].up, Profiles[p].hold)
           wanted == LevelToRatio(target, TableOf(p))
           held == LevelToRatio(rt.level, TableOf(profile))
<1>3. profile' = p /\ rt' = q /\ asked' = Asking(target, p, q.level)
  BY <1>2 DEF TickOf
<1>4. RtTyped(rt, profile) /\ profile \in {"default", "cell"} /\ asked \in Nat
  BY DEF Typed, TypeOK
<1>5. /\ IsTable(TableOf(p)) /\ Profiles[p].up \in Nat \ {0} /\ Profiles[p].hold \in Nat
      /\ IsTable(TableOf(profile)) /\ Rising(TableOf(p))
  BY <1>4, Resolved
<1>6. /\ r.level \in AllLevels(TableOf(p)) /\ r.streak \in Nat /\ r.since \in Nat
      /\ p = profile => r.level = rt.level
      /\ p # profile => r.level = RatioToLevel(held, TableOf(p))
  BY <1>4, Ages, Clocks
<1>7. q.level \in {target, r.level}
  <2> HIDE DEF r
  <2> QED BY <1>5, <1>6, Steps
<1>8. /\ \A l \in AllLevels(TableOf(p)) : l \in Nat /\ LevelToRatio(l, TableOf(p)) \in Nat
      /\ wanted \in Nat
      /\ 0 \in AllLevels(TableOf(p)) /\ LevelToRatio(0, TableOf(p)) <= wanted
  <2>1. 0 \in AllLevels(TableOf(p)) /\ 0 <= target
    BY <1>5, Rows
  <2> QED BY <1>5, <2>1, LevelsRow, LevelsRise
<1>9. held \in Nat /\ held <= asked
  BY <1>4, <1>5, LevelsRow DEF Claimed, RtTyped
<1>10. Max({asked, wanted}) \in Nat /\ asked <= Max({asked, wanted}) /\ wanted <= Max({asked, wanted})
  <2>1. asked \in Int /\ wanted \in Int
    BY <1>4, <1>8
  <2>2. Max({asked, wanted}) = IF asked >= wanted THEN asked ELSE wanted
    BY <2>1, OfTwo
  <2> QED BY <1>4, <1>8, <2>2
<1>11. CASE q.level = 0
  BY <1>3, <1>8, <1>11 DEF Claimed, Asking
<1>12. CASE q.level = target /\ q.level # 0
  BY <1>3, <1>10, <1>12 DEF Claimed, Asking
<1>13. CASE q.level = r.level /\ q.level # 0
  <2>1. LevelToRatio(r.level, TableOf(p)) = held
    <3>1. CASE p = profile
      BY <1>6, <3>1
    <3>2. CASE p # profile
      BY <1>5, <1>6, <1>13, <3>2, RatiosLevel
    <3> QED BY <3>1, <3>2
  <2>2. asked' = Max({asked, wanted})
    BY <1>3, <1>13 DEF Asking
  <2>3. LevelToRatio(rt'.level, TableOf(profile')) = held
    BY <1>3, <1>13, <2>1
  <2> HIDE DEF held, wanted
  <2> QED BY <1>4, <1>9, <1>10, <2>2, <2>3 DEF Claimed
<1> QED BY <1>7, <1>11, <1>12, <1>13

\* The engine holds no more parity than a loss asked of it since it was last idle
\* (ModeAwareLevel, StepLevel, and ReseedRuntime on a change of profile).
THEOREM LossAsks == Spec => []LossAskedForIt
<1>1. ASSUME Init PROVE Claimed
  <2>1. rt.level = 0 /\ profile = "default" /\ asked = LevelToRatio(0, BaseTable)
    BY <1>1 DEF Init, Runtime
  <2>2. TableOf("default") = BaseTable /\ IsTable(BaseTable)
    BY Resolved
  <2>3. asked \in Nat
    BY <2>1, <2>2, Rows, LevelsRow
  <2> QED BY <2>1, <2>2, <2>3 DEF Claimed
<1>2. ASSUME Typed, Claimed, [Next]_vars PROVE Claimed'
  <2>1. CASE \E s \in Situation : TickIn(s)
    BY <1>2, <2>1, ClaimTicks
  <2>2. CASE UNCHANGED <<engine, history>>
    BY <1>2, <2>2 DEF Claimed, engine, history
  <2>3. CASE UNCHANGED vars
    BY <1>2, <2>3 DEF Claimed, vars, engine, history
  <2> QED BY <1>2, <2>1, <2>2, <2>3, NextCases
<1>3. Claimed => LossAskedForIt
  BY DEF Claimed, LossAskedForIt
<1>4. QED
  BY <1>1, <1>2, <1>3, TypedAlways, PTL DEF Spec

-----------------------------------------------------------------------------
(* The card: the scale of the ratios, and the span of those in reach.      *)

\* What a function makes of a finite set is finite.
LEMMA Images ==
  ASSUME NEW S, IsFiniteSet(S), NEW f
  PROVE  IsFiniteSet({f[x] : x \in S})
<1> DEFINE T == {f[x] : x \in S}
           g == [x \in S |-> f[x]]
<1>1. g \in Surjection(S, T)
  BY DEF Surjection
<1> QED BY <1>1, FS_Surjection

\* Where a ratio of the scale that is in reach lies: on the span.
LEMMA Spans ==
  ASSUME NEW scale \in SUBSET Int, IsFiniteSet(scale), NEW reach, IsFiniteSet(reach),
         NEW x \in Nat, x \in scale, x \in reach
  PROVE  OnSpan(scale, Span(scale, reach), x)
<1> DEFINE index == [r \in reach |-> ScaleIndex(scale, r)]
           all == {index[r] : r \in reach}
           places == all \ {-1}
<1>1. \A r : ScaleIndex(scale, r) \in Int
  <2> TAKE r
  <2>1. IsFiniteSet({y \in scale : y <= r})
    BY FS_Subset
  <2>2. Cardinality({y \in scale : y <= r}) \in Nat
    BY <2>1, FS_CardinalityType
  <2> QED BY <2>2 DEF ScaleIndex
<1>2. ScaleIndex(scale, x) # -1
  <2> DEFINE below == {y \in scale : y <= x}
  <2>1. IsFiniteSet(below) /\ x \in below
    BY FS_Subset
  <2> HIDE DEF below
  <2>2. Cardinality(below) \in Nat /\ Cardinality(below) # 0
    BY <2>1, FS_CardinalityType, FS_EmptySet
  <2> QED BY <2>2 DEF ScaleIndex, below
<1>3. IsFiniteSet(all) /\ all = {ScaleIndex(scale, r) : r \in reach}
  <2>1. all = {ScaleIndex(scale, r) : r \in reach}
    OBVIOUS
  <2> HIDE DEF index
  <2> QED BY <2>1, Images
<1>4. ScaleIndex(scale, x) \in places
  BY <1>2, <1>3
<1>5. places \in SUBSET Int /\ IsFiniteSet(places)
  <2>1. all \in SUBSET Int
    BY <1>1, <1>3
  <2> HIDE DEF all
  <2> QED BY <1>3, <2>1, FS_Subset
<1>6. /\ Min(places) \in Int /\ Max(places) \in Int
      /\ Min(places) <= ScaleIndex(scale, x) /\ ScaleIndex(scale, x) <= Max(places)
  <2> HIDE DEF places
  <2> QED BY <1>4, <1>5, Extremes
<1>7. Span(scale, reach) = Min(places) .. Max(places)
  <2>1. places = {ScaleIndex(scale, r) : r \in reach} \ {-1} /\ places # {}
    BY <1>3, <1>4
  <2> HIDE DEF places
  <2> QED BY <2>1 DEF Span
<1> HIDE DEF places
<1> QED BY <1>1, <1>6, <1>7 DEF OnSpan

\* What a profile reaches in a mode from some of its levels.
LEMMA Reaches ==
  ASSUME NEW m, NEW p \in {"default", "cell"}, NEW levels \in SUBSET AllLevels(TableOf(p))
  PROVE  LET reach == ReachableRatios(m, TableOf(p), FloorOf(p), Fixed, levels)
         IN  /\ IsFiniteSet(reach) /\ reach \subseteq Nat
             /\ \A l \in levels : ApplyMode(m, LevelToRatio(l, TableOf(p)), Fixed, FloorOf(p)) \in reach
<1> DEFINE f == [l \in levels |-> ApplyMode(m, LevelToRatio(l, TableOf(p)), Fixed, FloorOf(p))]
           made == {f[l] : l \in levels}
<1>1. IsTable(TableOf(p)) /\ Fixed \in Nat /\ FloorOf(p) \in Nat /\ OffRatio \in Nat
  BY Resolved DEF OffRatio, Overhead
<1>2. IsFiniteSet(levels)
  BY <1>1, Rows, FS_Subset
<1>3. \A l \in levels : LevelToRatio(l, TableOf(p)) \in Nat
  BY <1>1, LevelsRow
<1>4. made = {ApplyMode(m, LevelToRatio(l, TableOf(p)), Fixed, FloorOf(p)) : l \in levels}
  OBVIOUS
<1>5. made \subseteq Nat
  BY <1>1, <1>3, <1>4, ModesRise
<1>6. IsFiniteSet(made)
  <2> HIDE DEF f
  <2> QED BY <1>2, Images
<1>7. CASE m = "off" \/ m = "fixed"
  BY <1>1, <1>7, FS_Singleton DEF ReachableRatios, ApplyMode
<1>8. CASE m # "off" /\ m # "fixed"
  <2>1. ReachableRatios(m, TableOf(p), FloorOf(p), Fixed, levels) = made
    BY <1>4, <1>8 DEF ReachableRatios
  <2> QED BY <1>4, <1>5, <1>6, <2>1
<1> QED BY <1>7, <1>8

\* The scale has all that any profile reaches in the mode.
LEMMA Scales ==
  ASSUME NEW m \in Modes
  PROVE  /\ FecScale[m] \in SUBSET Int /\ IsFiniteSet(FecScale[m])
         /\ \A p \in {"default", "cell"} :
              ReachableRatios(m, TableOf(p), FloorOf(p), Fixed, AllLevels(TableOf(p)))
                \subseteq FecScale[m]
<1> DEFINE reached(n) == UNION {ReachableRatios(n, p.table, p.floor, Fixed, AllLevels(p.table)) :
                                  p \in {Profiles[q] : q \in DOMAIN Profiles}}
           of(n, p) == ReachableRatios(n, TableOf(p), FloorOf(p), Fixed, AllLevels(TableOf(p)))
           context == IF m \in {"adaptive", "min_adaptive"} THEN m ELSE "adaptive"
           peers == {r \in PeerRatios : r >= 0}
<1>1. FecScale[m] = (reached(context) \cup reached(m)) \cup peers
  BY DEF FecScale, LadderScale
<1>2. ASSUME NEW n PROVE reached(n) = of(n, "default") \cup of(n, "cell")
  <2>1. {Profiles[q] : q \in DOMAIN Profiles} = {Profiles["default"], Profiles["cell"]}
    BY Resolved
  <2>2. {ReachableRatios(n, p.table, p.floor, Fixed, AllLevels(p.table)) :
           p \in {Profiles["default"], Profiles["cell"]}} = {of(n, "default"), of(n, "cell")}
    BY DEF TableOf, FloorOf
  <2> HIDE DEF of
  <2>3. reached(n) = UNION {of(n, "default"), of(n, "cell")}
    BY <2>1, <2>2
  <2> QED BY <2>3
<1>3. ASSUME NEW n, NEW p \in {"default", "cell"}
      PROVE  IsFiniteSet(of(n, p)) /\ of(n, p) \subseteq Nat
  BY Reaches
<1> HIDE DEF of
<1>4. ASSUME NEW n PROVE IsFiniteSet(reached(n)) /\ reached(n) \subseteq Nat
  <2>1. IsFiniteSet(of(n, "default")) /\ of(n, "default") \subseteq Nat
    BY <1>3
  <2>2. IsFiniteSet(of(n, "cell")) /\ of(n, "cell") \subseteq Nat
    BY <1>3
  <2>3. IsFiniteSet(of(n, "default") \cup of(n, "cell"))
    BY <2>1, <2>2, FS_Union
  <2>4. reached(n) = of(n, "default") \cup of(n, "cell")
    BY <1>2
  <2> HIDE DEF reached
  <2> QED BY <2>1, <2>2, <2>3, <2>4
<1>5. IsFiniteSet(peers) /\ peers \subseteq Nat
  BY InputAssumption, FS_Subset
<1>6. \A p \in {"default", "cell"} : of(m, p) \subseteq reached(m)
  BY <1>2
<1> HIDE DEF reached, peers, context
<1>7. IsFiniteSet(reached(context) \cup reached(m))
  BY <1>4, FS_Union
<1>8. IsFiniteSet(FecScale[m])
  BY <1>1, <1>5, <1>7, FS_Union
<1>9. FecScale[m] \in SUBSET Int
  <2>1. reached(context) \subseteq Nat /\ reached(m) \subseteq Nat
    BY <1>4
  <2>2. peers \subseteq Nat
    BY <1>5
  <2>3. FecScale[m] \subseteq Nat
    BY <1>1, <2>1, <2>2, Zenon
  <2> QED BY <2>3
<1>10. \A p \in {"default", "cell"} : of(m, p) \subseteq FecScale[m]
  BY <1>1, <1>6
<1> QED BY <1>8, <1>9, <1>10 DEF of

\* A pinned level is one level, and the place lifts it where it lifts the row.
LEMMA Pinned ==
  ASSUME NEW t, IsTable(t), NEW pin \in AllLevels(t), NEW place \in Nat
  PROVE  Max({pin, ApplyLocationFloor(0, place, t)}) = ApplyLocationFloor(pin, place, t)
<1>1. pin \in Int /\ pin >= 0 /\ 0 \in Int /\ TopLevel(t) \in Int /\ TopLevel(t) >= 0
  BY Rows
<1>2. CASE place = 0
  BY <1>1, <1>2, OfTwo DEF ApplyLocationFloor
<1>3. CASE place > 0
  <2> DEFINE m == Min({place, TopLevel(t)})
  <2>1. place \in Int /\ TopLevel(t) \in Int
    BY <1>1
  <2>2. m \in Int /\ m >= 0
    <3>1. m = IF place <= TopLevel(t) THEN place ELSE TopLevel(t)
      BY <2>1, OfTwo
    <3> QED BY <1>1, <1>3, <2>1, <3>1
  <2> HIDE DEF m
  <2>3. Max({0, m}) = m
    BY <2>2, OfTwo
  <2>4. ApplyLocationFloor(0, place, t) = m /\ ApplyLocationFloor(pin, place, t) = Max({pin, m})
    BY <1>3, <2>3 DEF ApplyLocationFloor, m
  <2> QED BY <2>4
<1> QED BY <1>2, <1>3

\* What a tick publishes.
LEMMA CardTicks ==
  ASSUME Typed, NEW s \in Situation, TickIn(s)
  PROVE  /\ shown'.located => shown'.gains
         /\ shown'.ok /\ ~shown'.settling => shown'.onSpan
<1>1. PICK w \in Wans, p \in {"default", "cell"} :
      \E target \in AllLevels(TableOf(p)), level \in AllLevels(TableOf(p)),
         with \in Nat, without \in Nat :
           /\ TickOf(s, w, p, target, level, with, without)
           /\ RtTyped(rt', p) /\ without <= with
  BY Ticks
<1>2. PICK target \in AllLevels(TableOf(p)), level \in AllLevels(TableOf(p)),
           with \in Nat, without \in Nat :
             /\ TickOf(s, w, p, target, level, with, without)
             /\ RtTyped(rt', p) /\ without <= with
  BY <1>1
<1> DEFINE t == TableOf(p)
           lifted == ApplyLocationFloor(level, s.place, t)
           pin == RatioToLevel(BackoffRatio, t)
           levels == ReachableLevels(s.backoff, s.place, t)
           reach == ReachableRatios(s.mode, t, FloorOf(p), Fixed, levels)
           all == ReachableRatios(s.mode, t, FloorOf(p), Fixed, AllLevels(t))
<1>3. /\ s.backoff \in BOOLEAN /\ s.mode \in Modes /\ s.place \in Places /\ s.place \in Nat
      /\ IsTable(t) /\ p \in DOMAIN Profiles
  BY Situated, Resolved
<1>4. /\ shown' = Shown(s, p, rt'.level, ratio', with, without)
      /\ level = SignalFloored(s, rt'.level, engaged', p)
      /\ with = RatioAt[s.mode][p][lifted]
  BY <1>2 DEF TickOf
<1>5. /\ shown'.ok = (ratio' = with)
      /\ shown'.located = LocationFloorActive(ratio', with, without)
      /\ shown'.onSpan = OnSpan(FecScale[s.mode], FecSpan[s.mode][p][s.backoff][s.place], ratio')
      /\ shown'.gains = (ratio' > without)
      /\ shown'.settling = (s.backoff /\ rt'.level # pin)
  <2> HIDE DEF pin
  <2> QED BY <1>4 DEF Shown, pin
<1>6. shown'.located => shown'.gains
  <2>1. LocationFloorActive(ratio', with, without) => ratio' > without
    BY <1>2 DEF LocationFloorActive
  <2> QED BY <1>5, <2>1, Zenon
<1>7. ASSUME shown'.ok, ~shown'.settling PROVE shown'.onSpan
  <2>1. ratio' = with /\ (~s.backoff \/ rt'.level = pin)
    BY <1>5, <1>7
  <2>2. lifted \in AllLevels(t) /\ pin \in AllLevels(t)
    BY <1>2, <1>3, FloorsRaise, RatiosLevel
  <2>3. lifted \in levels /\ levels \in SUBSET AllLevels(t)
    <3>1. CASE ~s.backoff
      BY <2>2, <3>1 DEF ReachableLevels
    <3>2. CASE s.backoff
      <4>1. rt'.level = pin
        BY <2>1, <3>2
      <4>2. level = pin
        BY <1>3, <1>4, <2>2, <3>2, <4>1, FloorsRaise DEF SignalFloored
      <4>3. levels = {Max({pin, ApplyLocationFloor(0, s.place, t)})}
        BY <3>2 DEF ReachableLevels
      <4>4. Max({pin, ApplyLocationFloor(0, s.place, t)}) = ApplyLocationFloor(pin, s.place, t)
        BY <1>3, <2>2, Pinned
      <4> HIDE DEF t, pin
      <4> QED BY <2>2, <4>2, <4>3, <4>4
    <3> QED BY <1>3, <3>1, <3>2
  <2>4. with = ApplyMode(s.mode, LevelToRatio(lifted, t), Fixed, FloorOf(p))
    BY <1>3, <1>4, <2>2, RatiosAt
  <2>5. IsFiniteSet(reach) /\ with \in reach
    <3> HIDE DEF levels
    <3> QED BY <2>3, <2>4, Reaches
  <2>6. with \in all
    <3>1. AllLevels(t) \in SUBSET AllLevels(t)
      OBVIOUS
    <3> QED BY <2>2, <2>4, <3>1, Reaches
  <2>7. FecScale[s.mode] \in SUBSET Int /\ IsFiniteSet(FecScale[s.mode]) /\ with \in FecScale[s.mode]
    BY <1>3, <2>6, Scales
  <2>8. OnSpan(FecScale[s.mode], Span(FecScale[s.mode], reach), with)
    <3> HIDE DEF reach
    <3> QED BY <2>5, <2>7, Spans
  <2>9. FecSpan[s.mode][p][s.backoff][s.place] = Span(FecScale[s.mode], reach)
    BY <1>3 DEF FecSpan
  <2> QED BY <1>5, <2>1, <2>8, <2>9
<1> QED BY <1>6, <1>7

\* The card tells the truth: of the place and of the span, on tables whose ratios
\* rise, as no one checks that an operator's do; and of the wire until udpspeeder
\* restarts (the status of the tick, ladder_view, write_fec).
THEOREM CardIsTrue == Spec => []CardTellsTheTruth
<1>1. Init => CardTellsTheTruth
  BY DEF Init, CardTellsTheTruth
<1>2. ASSUME Typed, CardTellsTheTruth, [Next]_vars PROVE CardTellsTheTruth'
  <2>1. CASE \E s \in Situation : TickIn(s)
    <3>1. PICK s \in Situation : TickIn(s)
      BY <2>1
    <3>2. /\ shown'.located => shown'.gains
          /\ shown'.ok /\ ~shown'.settling => shown'.onSpan
      BY <1>2, <3>1, CardTicks
    <3>3. IF ratio' # ratio THEN wire' = ratio' /\ restarted' = FALSE
                            ELSE UNCHANGED <<wire, restarted>>
      <4>1. PICK w \in Wans, p \in {"default", "cell"} :
            \E target \in AllLevels(TableOf(p)), level \in AllLevels(TableOf(p)),
               with \in Nat, without \in Nat : TickOf(s, w, p, target, level, with, without)
        BY <1>2, <3>1, Ticks
      <4> QED BY <4>1 DEF TickOf
    <3>4. (ratio # Unset /\ ~restarted => wire = ratio)'
      BY <1>2, <3>3 DEF CardTellsTheTruth
    <3> QED BY <3>2, <3>4 DEF CardTellsTheTruth
  <2>2. CASE wire' = UnitRatio /\ restarted' = TRUE
             /\ UNCHANGED <<engine, ratio, shown, calm, quiet, history>>
    BY <1>2, <2>2 DEF CardTellsTheTruth
  <2>3. CASE UNCHANGED vars
    BY <1>2, <2>3 DEF CardTellsTheTruth, vars
  <2> QED BY <1>2, <2>1, <2>2, <2>3, NextCases
<1>3. QED
  BY <1>1, <1>2, TypedAlways, PTL DEF Spec

-----------------------------------------------------------------------------
(* Coming to rest.                                                         *)

\* The WAN that is to drive, its profile, and the level that is to be reached.
Worst(s) == FecDriverWan(s.loss, s.active)
Goal(s) == FecTarget(s, TableOf(ResolveFecProfile(Worst(s))))

\* On the way: the clock that runs has run since the worst WAN drives, and that is
\* no more than its dwell after things came to rest.
Nearing(s) ==
  \/ rt.level = Goal(s) /\ ratio \in Asked(s)
  \/ rt.level < Goal(s) /\ quiet < rt.streak + Dwell
  \/ /\ Goal(s) < rt.level /\ quiet <= rt.since + Dwell
     /\ rt.since < Profiles[profile].hold

AtRest(s) ==
  /\ active = s.active /\ drive.driver \in s.active
  /\ \/ drive.driver # Worst(s) /\ drive.wan = Worst(s) /\ quiet <= drive.since
     \/ /\ drive.driver = Worst(s) /\ profile = ResolveFecProfile(Worst(s))
        /\ Nearing(s)

Resting == \A s \in calm : AtRest(s)

\* A tick whose write is taken and whose driver is the worst WAN reaches the level,
\* and the ratio asked for, or its clock runs.
LEMMA NearTicks ==
  ASSUME Typed, NEW s \in Situation, TickIn(s), calm' = {s}, drive'.driver = Worst(s)
  PROVE  LET p == ResolveFecProfile(Worst(s))
         IN  /\ profile' = p /\ Aged(p).streak \in Nat /\ Aged(p).since \in Nat
             /\ rt'.level \in {Goal(s), Aged(p).level}
             /\ \/ rt'.level = Goal(s) /\ ratio' \in Asked(s)
                \/ rt'.level < Goal(s) /\ rt'.streak = Aged(p).streak + 1
                \/ /\ Goal(s) < rt'.level /\ rt'.since = Aged(p).since
                   /\ rt'.since < Profiles[p].hold
<1>1. PICK w \in Wans, p \in {"default", "cell"} :
      \E target \in AllLevels(TableOf(p)), level \in AllLevels(TableOf(p)),
         with \in Nat, without \in Nat : TickOf(s, w, p, target, level, with, without)
  BY Ticks
<1>2. PICK target \in AllLevels(TableOf(p)), level \in AllLevels(TableOf(p)),
           with \in Nat, without \in Nat : TickOf(s, w, p, target, level, with, without)
  BY <1>1
<1>3. /\ w = Worst(s) /\ p = ResolveFecProfile(Worst(s)) /\ profile' = p
      /\ target = Goal(s)
      /\ rt' = StepLevel(target, Aged(p), Profiles[p].up, Profiles[p].hold)
      /\ engaged' = SignalUpdate(engaged, Reading(s, Worst(s)))
      /\ level = SignalFloored(s, rt'.level, engaged', p)
      /\ with = RatioAt[s.mode][p][ApplyLocationFloor(level, s.place, TableOf(p))]
  BY <1>2 DEF TickOf, Worst, Goal
<1>4. ratio' = with
  <2>1. /\ ratio' \in IF calm = Changing THEN {ratio, with} ELSE {with}
        /\ calm' \in IF calm = Changing /\ ratio' = with THEN {Changing, {s}} ELSE {calm}
    BY <1>2 DEF TickOf
  <2>2. calm' # Changing
    BY DEF Changing
  <2> QED BY <2>1, <2>2
<1> DEFINE r == Aged(p)
<1>5. /\ r.level \in AllLevels(TableOf(p)) /\ r.streak \in Nat /\ r.since \in Nat
      /\ IsTable(TableOf(p)) /\ Profiles[p].up \in Nat \ {0} /\ Profiles[p].hold \in Nat
  BY Ages, Resolved, Clocks DEF Typed, TypeOK
<1>6. /\ rt'.level \in {target, r.level}
      /\ \/ rt'.level = target
         \/ target > r.level /\ rt'.level = r.level /\ rt'.streak = r.streak + 1
         \/ /\ target < r.level /\ rt'.level = r.level
            /\ rt'.since = r.since /\ r.since < Profiles[p].hold
  <2> HIDE DEF r
  <2>1. rt' = StepLevel(target, r, Profiles[p].up, Profiles[p].hold)
    BY <1>3 DEF r
  <2> QED BY <1>5, <2>1, Steps
<1>7. ASSUME rt'.level = target PROVE ratio' \in Asked(s)
  <2> DEFINE d == Worst(s)
             lifts(latch) == SignalFloored(s, target, latch, p)
             latches == IF Reading(s, d) = "between" THEN BOOLEAN
                        ELSE {Reading(s, d) = "degraded"}
  <2>1. engaged \in BOOLEAN
    BY DEF Typed, TypeOK
  <2>2. engaged' \in latches
    <3>1. CASE Reading(s, d) = "between"
      BY <1>3, <2>1, <3>1 DEF SignalUpdate
    <3>2. CASE Reading(s, d) # "between"
      <4>1. engaged' = (Reading(s, d) = "degraded")
        BY <1>3, <3>2, Zenon DEF SignalUpdate
      <4> QED BY <3>2, <4>1, Zenon
    <3> QED BY <3>1, <3>2
  <2>3. ratio' = RatioAt[s.mode][p][ApplyLocationFloor(lifts(engaged'), s.place, TableOf(p))]
    BY <1>3, <1>4, <1>7
  <2>4. Asked(s) = {RatioAt[s.mode][p][ApplyLocationFloor(lifts(l), s.place, TableOf(p))] :
                      l \in latches}
    BY <1>3 DEF Asked, Goal, Worst
  <2> HIDE DEF lifts, latches
  <2> QED BY <2>2, <2>3, <2>4
<1>8. target \in Int /\ r.level \in Int
  BY <1>5, Rows
<1> QED BY <1>3, <1>5, <1>6, <1>7, <1>8

\* At rest, each tick nears.
LEMMA RestTicks ==
  ASSUME Typed, Resting, NEW s \in Situation, TickIn(s), Paced(s), calm' = {s}
  PROVE  AtRest(s)'
<1>1. PICK w \in Wans, p \in {"default", "cell"} :
      \E target \in AllLevels(TableOf(p)), level \in AllLevels(TableOf(p)),
         with \in Nat, without \in Nat : TickOf(s, w, p, target, level, with, without)
  BY Ticks
<1>2. /\ w = Worst(s) /\ w \in s.active /\ drive' = FecDriverPick(w, s.active)
      /\ active' = s.active
  BY <1>1 DEF TickOf, Worst
<1>3. /\ drive \in Driven /\ Dwell \in Nat \ {0} /\ s.active \in SUBSET Wans
      /\ drive.since \in 0 .. Dwell - 1 /\ Patience \in Nat /\ Patience > Dwell
      /\ quiet \in 0 .. Patience
  BY Resolved, Clocks, DriverIsActive DEF Typed, TypeOK, Driven
<1>4. /\ drive' \in Driven
      /\ \/ drive' = Keep(w)
            /\ \/ w = drive.driver \/ drive.driver \notin s.active
               \/ active # {} /\ w \notin active
               \/ drive.wan = w /\ drive.since + 1 >= Dwell
         \/ /\ w # drive.driver /\ drive.driver \in s.active /\ drive'.driver = drive.driver
            /\ drive'.wan = w
            /\ \/ drive.wan # w /\ drive'.since = 0
               \/ drive.wan = w /\ drive'.since = drive.since + 1
  BY <1>2, <1>3, Picks
<1>5. /\ quiet' \in Nat
      /\ calm = Changing => quiet' = 0
      /\ calm # Changing => calm = {s} /\ AtRest(s) /\ quiet' <= quiet + 1
  <2>1. quiet + 1 \in Int /\ Patience \in Int
    BY <1>3
  <2>2. Min({quiet + 1, Patience}) = IF quiet + 1 <= Patience THEN quiet + 1 ELSE Patience
    BY <2>1, OfTwo
  <2>3. calm # Changing => calm = {s} /\ quiet' = Min({quiet + 1, Patience})
    BY DEF Paced
  <2>4. calm = Changing => quiet' = 0
    BY DEF Paced, Changing
  <2>5. calm = {s} => AtRest(s)
    BY DEF Resting
  <2> QED BY <1>3, <2>2, <2>3, <2>4, <2>5
<1>6. active' = s.active /\ drive'.driver \in s.active
  BY <1>2, <1>4 DEF Keep
<1>7. CASE drive'.driver # w
  <2>1. /\ w # drive.driver /\ drive'.driver = drive.driver /\ drive'.wan = w
        /\ \/ drive.wan # w /\ drive'.since = 0
           \/ drive.wan = w /\ drive'.since = drive.since + 1
    BY <1>4, <1>7 DEF Keep
  <2>2. quiet' <= drive'.since
    <3>1. CASE calm = Changing
      BY <1>3, <1>5, <2>1, <3>1
    <3>2. CASE calm # Changing
      <4>1. drive.wan = w /\ quiet <= drive.since
        BY <1>2, <1>5, <2>1, <3>2 DEF AtRest
      <4> QED BY <1>3, <1>5, <2>1, <3>2, <4>1
    <3> QED BY <3>1, <3>2
  <2>3. (Worst(s))' = Worst(s)
    BY DEF Worst
  <2> QED BY <1>2, <1>6, <1>7, <2>1, <2>2, <2>3 DEF AtRest
<1>8. CASE drive'.driver = w
  <2> DEFINE q == ResolveFecProfile(Worst(s))
             r == Aged(q)
  <2>1. /\ profile' = q /\ r.streak \in Nat /\ r.since \in Nat
        /\ rt'.level \in {Goal(s), r.level}
        /\ \/ rt'.level = Goal(s) /\ ratio' \in Asked(s)
           \/ rt'.level < Goal(s) /\ rt'.streak = r.streak + 1
           \/ /\ Goal(s) < rt'.level /\ rt'.since = r.since
              /\ rt'.since < Profiles[q].hold
    BY <1>2, <1>8, NearTicks
  <2>2. q \in {"default", "cell"} /\ IsTable(TableOf(q)) /\ Profiles[q].hold <= Longest
        /\ Longest \in Nat /\ Profiles[q].hold \in Nat
    BY Resolved, Clocks
  <2>3. Goal(s) \in Nat
    <3>1. Goal(s) = ModeAwareLevel(s.backoff, Max({s.loss[v] : v \in s.active}), TableOf(q),
                                   BackoffRatio)
      BY DEF Goal, FecTarget
    <3>2. s.backoff \in BOOLEAN
      BY Situated
    <3> HIDE DEF q
    <3>3. Goal(s) \in AllLevels(TableOf(q))
      BY <2>2, <3>1, <3>2, LossesLevel
    <3> QED BY <2>2, <3>3, Rows
  <2>4. r.level \in AllLevels(TableOf(q)) /\ r.level \in Nat
    <3>1. RtTyped(rt, profile) /\ profile \in {"default", "cell"}
      BY DEF Typed, TypeOK
    <3>2. r.level \in AllLevels(TableOf(q))
      BY <2>2, <3>1, Ages
    <3> HIDE DEF q, r
    <3> QED BY <2>2, <3>2, Rows
  <2>5. CASE calm = Changing \/ drive.driver # w
    <3>1. quiet' <= Dwell
      <4>1. CASE calm = Changing
        BY <1>3, <1>5, <4>1
      <4>2. CASE calm # Changing /\ drive.driver # w
        <5>1. drive.driver \in s.active /\ active = s.active /\ quiet <= drive.since
          BY <1>2, <1>5, <4>2 DEF AtRest
        <5>2. drive.since + 1 >= Dwell
          BY <1>2, <1>4, <1>8, <4>2, <5>1
        <5>3. quiet \in Nat /\ quiet <= Dwell - 1
          BY <1>3, <5>1
        <5>4. quiet' \in Nat /\ quiet' <= quiet + 1
          BY <1>5, <4>2
        <5>5. Dwell \in Nat
          BY <1>3
        <5> QED BY <5>3, <5>4, <5>5
      <4> QED BY <2>5, <4>1, <4>2
    <3> HIDE DEF q, r
    <3>2. \/ rt'.level = Goal(s) /\ ratio' \in Asked(s)
          \/ rt'.level < Goal(s) /\ quiet' < rt'.streak + Dwell
          \/ /\ Goal(s) < rt'.level /\ quiet' <= rt'.since + Dwell
             /\ rt'.since < Profiles[profile'].hold
      <4>1. CASE rt'.level = Goal(s) /\ ratio' \in Asked(s)
        BY <4>1
      <4>2. CASE rt'.level < Goal(s) /\ rt'.streak = r.streak + 1
        <5>1. rt'.streak \in Nat /\ rt'.streak > 0 /\ quiet' \in Nat /\ Dwell \in Nat
          BY <1>3, <1>5, <2>1, <4>2
        <5>2. quiet' < rt'.streak + Dwell
          BY <3>1, <5>1
        <5> QED BY <4>2, <5>2
      <4>3. CASE Goal(s) < rt'.level /\ rt'.since = r.since /\ rt'.since < Profiles[q].hold
        <5>1. rt'.since \in Nat /\ quiet' \in Nat /\ Dwell \in Nat
          BY <1>3, <1>5, <2>1, <4>3
        <5>2. quiet' <= rt'.since + Dwell
          BY <3>1, <5>1
        <5>3. rt'.since < Profiles[profile'].hold
          BY <2>1, <4>3
        <5> QED BY <4>3, <5>2, <5>3
      <4> QED BY <2>1, <4>1, <4>2, <4>3
    <3> QED BY <1>2, <1>6, <1>8, <2>1, <3>2 DEF AtRest, Nearing, Goal, Worst, Asked, q
  <2>6. CASE calm # Changing /\ drive.driver = w
    <3>1. profile = q /\ Nearing(s) /\ quiet' <= quiet + 1
      BY <1>2, <1>5, <2>6 DEF AtRest
    <3>2. RtTyped(rt, profile)
      BY DEF Typed
    <3>3. /\ r.level = rt.level /\ r.streak = rt.streak
          /\ r.since = IF rt.since < Longest THEN rt.since + 1 ELSE Longest
      BY <2>2, <3>1, <3>2, Ages
    <3>4. rt.streak \in Nat /\ rt.since \in 0 .. Longest
      BY <3>2 DEF RtTyped
    <3>5. \/ rt.level = Goal(s)
          \/ rt.level < Goal(s) /\ quiet < rt.streak + Dwell
          \/ Goal(s) < rt.level /\ quiet <= rt.since + Dwell
      BY <3>1 DEF Nearing
    <3> HIDE DEF q, r
    <3>6. \/ rt'.level = Goal(s) /\ ratio' \in Asked(s)
          \/ rt'.level < Goal(s) /\ quiet' < rt'.streak + Dwell
          \/ /\ Goal(s) < rt'.level /\ quiet' <= rt'.since + Dwell
             /\ rt'.since < Profiles[profile'].hold
      BY <1>3, <1>5, <2>1, <2>2, <2>3, <2>4, <3>1, <3>3, <3>4, <3>5
    <3> QED BY <1>2, <1>6, <1>8, <2>1, <3>6 DEF AtRest, Nearing, Goal, Worst, Asked, q
  <2> QED BY <2>5, <2>6
<1> QED BY <1>7, <1>8

\* Once nothing changes the leg comes, within Patience more ticks, to the ratio the
\* situation asks for (the driver's dwell, then the ramp).
THEOREM ComesToRest == Spec => []ComesToWhatIsAsked
<1>1. Init => Resting
  BY DEF Init, Resting, Changing
<1>2. ASSUME Typed, Resting, [Next]_vars PROVE Resting'
  <2>1. CASE \E s \in Situation : TickIn(s) /\ Paced(s)
    <3>1. PICK s \in Situation : TickIn(s) /\ Paced(s)
      BY <2>1
    <3>2. calm' = Changing \/ calm' = {s}
      <4>1. PICK w \in Wans, p \in {"default", "cell"} :
            \E target \in AllLevels(TableOf(p)), level \in AllLevels(TableOf(p)),
               with \in Nat, without \in Nat : TickOf(s, w, p, target, level, with, without)
        BY <1>2, <3>1, Ticks
      <4>2. calm' \in {Changing, {s}, calm}
        BY <4>1 DEF TickOf
      <4> QED BY <3>1, <4>2 DEF Paced
    <3>3. CASE calm' = Changing
      BY <3>3 DEF Resting, Changing
    <3>4. CASE calm' = {s}
      <4>1. AtRest(s)'
        BY <1>2, <3>1, <3>4, RestTicks
      <4> QED BY <3>4, <4>1 DEF Resting
    <3> QED BY <3>2, <3>3, <3>4
  <2>2. CASE UNCHANGED <<engine, ratio, shown, calm, quiet, history>>
    BY <1>2, <2>2 DEF Resting, AtRest, Nearing, Goal, Worst, Asked, engine
  <2>3. CASE UNCHANGED vars
    BY <1>2, <2>3 DEF Resting, AtRest, Nearing, Goal, Worst, Asked, vars, engine
  <2> QED BY <1>2, <2>1, <2>2, <2>3, NextCases
<1>3. Typed /\ Resting => ComesToWhatIsAsked
  <2> SUFFICES ASSUME Typed, Resting, quiet = Patience, NEW s \in calm
               PROVE  ratio \in Asked(s)
    BY DEF ComesToWhatIsAsked
  <2>1. AtRest(s) /\ s \in Situation
    BY DEF Resting, Typed, TypeOK, Changing
  <2>2. /\ drive.since \in 0 .. Dwell - 1 /\ Dwell \in Nat \ {0} /\ Patience \in Nat
        /\ Patience > Dwell /\ profile \in {"default", "cell"}
    BY Resolved, Clocks DEF Typed, TypeOK
  <2>3. /\ Dwell + Profiles[profile].up <= Patience /\ Profiles[profile].up \in Nat
        /\ Dwell + Profiles[profile].hold <= Patience /\ Profiles[profile].hold \in Nat
    BY <2>2, Resolved, Clocks
  <2>4. rt.streak \in 0 .. Profiles[profile].up - 1 /\ rt.since \in 0 .. Longest
        /\ Longest \in Nat
    BY Clocks DEF Typed, RtTyped
  <2>5. Nearing(s)
    BY <2>1, <2>2 DEF AtRest
  <2> QED BY <2>2, <2>3, <2>4, <2>5 DEF Nearing
<1>4. QED
  BY <1>1, <1>2, <1>3, TypedAlways, PTL DEF Spec

-----------------------------------------------------------------------------
(* The relay's leg: its types.                                             *)

Policies == [mode : FecModes, fixed : Int, floor : Int]
Links == [profile : Known, signal : BOOLEAN, place : Nat]
Call == [at : {"idle", "net", "loss", "link", "answered", "refused"}, setting : Settings]

\* The calls: an idle one is no one's, the relay has taken up only what it accepts.
CallOK(call) ==
  /\ call \in Call /\ (call.at = "idle" => call = Idle)
  /\ call.at \in {"loss", "link", "answered"} => Accepted(call.setting)
CallsOK ==
  /\ DOMAIN calls = Calls /\ calls \in [Calls -> Call] /\ \A c \in Calls : CallOK(calls[c])
  /\ waiting \in Calls \cup {NoCall} /\ (waiting # NoCall => calls[waiting] # Idle)
ClientOK ==
  /\ running \in BOOLEAN /\ due \in BOOLEAN /\ desired \in Settings
  /\ \E s \in Settings : acked \in {{}, {s}}
FecOK ==
  fec \in [policy : Policies, loss : Nat \cup {Unset}, lossAge : 0 .. StaleAfter + 1,
           link : Links, linkAge : 0 .. StaleAfter + 1]
LoopOK ==
  loop \in [at : {"desired", "loss", "link"}, policy : Policies, loss : Nat \cup {Unset}]
LevelOK ==
  /\ last \in Known /\ relayRatio \in Nat \cup {Unset}
  /\ relayRt \in [level : AllLevels(Tables[last]), streak : 0 .. UpTicks[last] - 1,
                  since : 0 .. DownHold[last]]
LinkTyped ==
  /\ CallsOK /\ ClientOK /\ FecOK /\ LoopOK /\ LevelOK
  /\ ticked \in BOOLEAN /\ steady \in 0 .. FollowTime

\* The settings, the tables and the times.
LEMMA LinkInputs ==
  /\ First \in Settings /\ NoCall \notin Calls /\ "default" \in Known
  /\ StaleAfter \in Nat \ {0} /\ FollowTime \in Nat /\ StaleAfter + 3 <= FollowTime
  /\ \A p \in Known :
       /\ IsTable(Tables[p])
       /\ UpTicks[p] \in Nat \ {0} /\ UpTicks[p] + 3 <= FollowTime
       /\ DownHold[p] \in Nat \ {0} /\ DownHold[p] + 3 <= FollowTime
  /\ \A s \in Settings :
       /\ s.policy \in Policies /\ s.loss \in Nat
       /\ LinkOf(s.link).profile = s.link.profile
       /\ Accepted(s) => LinkOf(s.link) \in Links
  /\ LocalLosses \subseteq Nat \cup {Unset}
  /\ BootPolicy \in Policies /\ NoLink \in Links
<1>1. /\ First \in Settings /\ NoCall \notin Calls /\ "default" \in Known
      /\ StaleAfter \in Nat \ {0} /\ StaleAfter <= Slowest /\ Slowest \in Nat
      /\ LocalLosses \subseteq Nat \cup {Unset}
  BY SettingAssumption, NumberAssumption
<1>2. FollowTime = Slowest + 3
  BY DEF FollowTime
<1>3. ASSUME NEW p \in Known
      PROVE  /\ IsTable(Tables[p])
             /\ UpTicks[p] \in 1 .. Slowest /\ DownHold[p] \in 1 .. Slowest
  BY SettingAssumption, NumberAssumption
<1>4. ASSUME NEW p \in Known
      PROVE  /\ IsTable(Tables[p])
             /\ UpTicks[p] \in Nat \ {0} /\ UpTicks[p] + 3 <= FollowTime
             /\ DownHold[p] \in Nat \ {0} /\ DownHold[p] + 3 <= FollowTime
  BY <1>1, <1>2, <1>3
<1>5. ASSUME NEW s \in Settings
      PROVE  /\ s.policy \in Policies /\ s.loss \in Nat
             /\ LinkOf(s.link).profile = s.link.profile
             /\ Accepted(s) => LinkOf(s.link) \in Links
  <2>1. s \in Setting
    BY SettingAssumption
  <2>2. /\ s.policy \in Policies /\ s.loss \in Nat
        /\ s.link \in [profile : STRING, signal : BOOLEAN, place : Nat \cup {Unset}]
    BY <2>1 DEF Setting, Policies
  <2> DEFINE l == s.link
  <2> HIDE DEF l
  <2>3. l \in [profile : STRING, signal : BOOLEAN, place : Nat \cup {Unset}]
    BY <2>2 DEF l
  <2>4. LinkOf(l) = [profile |-> l.profile, signal |-> l.signal,
                     place |-> IF l.place = Unset THEN 0 ELSE l.place]
    BY <2>3 DEF LinkOf
  <2>5. l.profile \in Known => LinkOf(l) \in Links
    BY <2>3, <2>4 DEF Links
  <2>6. LinkOf(l).profile = l.profile
    BY <2>4
  <2> QED BY <2>2, <2>5, <2>6 DEF Accepted, l
<1>6. BootPolicy \in Policies
  BY DEF BootPolicy, Policies, FecModes, DefaultRatio, Overhead
<1>7. NoLink \in Links
  BY <1>1 DEF NoLink, Links
<1> QED BY <1>1, <1>2, <1>4, <1>5, <1>6, <1>7

\* One call changed.
LEMMA CallSet ==
  ASSUME CallsOK, NEW c \in Calls, NEW call, CallOK(call), calls' = [calls EXCEPT ![c] = call]
  PROVE  /\ DOMAIN calls' = Calls /\ calls' \in [Calls -> Call]
         /\ \A d \in Calls : CallOK(calls'[d])
         /\ calls'[c] = call /\ \A d \in Calls \ {c} : calls'[d] = calls[d]
<1>1. call \in Call
  BY DEF CallOK
<1>2. calls \in [Calls -> Call] /\ \A d \in Calls : CallOK(calls[d])
  BY DEF CallsOK
<1>3. calls'[c] = call /\ \A d \in Calls \ {c} : calls'[d] = calls[d]
  BY <1>2
<1>4. calls' \in [Calls -> Call]
  BY <1>1, <1>2
<1>5. \A d \in Calls : d = c \/ d \in Calls \ {c}
  OBVIOUS
<1> QED BY <1>2, <1>3, <1>4, <1>5

\* A call made is of a setting, and awaited.
LEMMA Sends ==
  ASSUME CallsOK, NEW c \in Calls,
         NEW s \in Settings, SendAs(c, s)
  PROVE  /\ CallsOK' /\ waiting' = c /\ calls'[c] = [at |-> "net", setting |-> s]
         /\ \A d \in Calls \ {c} : calls'[d] = calls[d]
<1> DEFINE call == [at |-> "net", setting |-> s]
<1>1. CallOK(call) /\ call # Idle
  BY DEF CallOK, Call, Idle
<1>2. calls' = [calls EXCEPT ![c] = call] /\ waiting' = c
  BY DEF SendAs
<1> HIDE DEF call
<1>3. /\ DOMAIN calls' = Calls /\ calls' \in [Calls -> Call]
      /\ \A d \in Calls : CallOK(calls'[d])
      /\ calls'[c] = call /\ \A d \in Calls \ {c} : calls'[d] = calls[d]
  BY <1>1, <1>2, CallSet
<1> QED BY <1>1, <1>2, <1>3 DEF CallsOK, call

\* A call given up, lost or ended.
LEMMA Ends ==
  ASSUME CallsOK, NEW c \in Calls,
         calls' = [calls EXCEPT ![c] = Idle],
         waiting' = IF waiting = c THEN NoCall ELSE waiting
  PROVE  CallsOK' /\ \A d \in Calls \ {c} : calls'[d] = calls[d]
<1>1. CallOK(Idle)
  BY LinkInputs DEF CallOK, Call, Idle
<1>2. /\ DOMAIN calls' = Calls /\ calls' \in [Calls -> Call]
      /\ \A d \in Calls : CallOK(calls'[d])
      /\ calls'[c] = Idle /\ \A d \in Calls \ {c} : calls'[d] = calls[d]
  BY <1>1, CallSet
<1>3. waiting' \in Calls \cup {NoCall} /\ (waiting' # NoCall => calls'[waiting'] # Idle)
  <2>1. waiting \in Calls \cup {NoCall} /\ (waiting # NoCall => calls[waiting] # Idle)
    BY DEF CallsOK
  <2> QED BY <1>2, <2>1
<1> QED BY <1>2, <1>3 DEF CallsOK

\* A handler's step.
LEMMA Handles ==
  ASSUME CallsOK, NEW c \in Calls,
         NEW at \in {"loss", "link", "answered", "refused"}, Moves(c, at), waiting' = waiting,
         at # "refused" => Accepted(calls[c].setting)
  PROVE  /\ CallsOK' /\ \A d \in Calls \ {c} : calls'[d] = calls[d]
         /\ c = waiting => calls'[c] = [at |-> at, setting |-> calls[c].setting]
<1>1. calls[c] \in Call /\ CallOK(calls[c]) /\ DOMAIN calls = Calls
  BY DEF CallsOK
<1> DEFINE s == calls[c].setting
           moved == [at |-> at, setting |-> s]
           call == IF at \in {"answered", "refused"} /\ waiting # c THEN Idle ELSE moved
<1>2. s \in Settings
  BY <1>1 DEF Call
<1>3. [calls[c] EXCEPT !.at = at] = moved
  BY <1>1 DEF Call
<1>4. calls' = [calls EXCEPT ![c] = call]
  BY <1>1, <1>3 DEF Moves
<1>5. CallOK(call) /\ (waiting = c => call = moved /\ call # Idle)
  BY <1>2, LinkInputs DEF CallOK, Call, Idle
<1> HIDE DEF call, moved
<1>6. /\ DOMAIN calls' = Calls /\ calls' \in [Calls -> Call]
      /\ \A d \in Calls : CallOK(calls'[d])
      /\ calls'[c] = call /\ \A d \in Calls \ {c} : calls'[d] = calls[d]
  BY <1>4, <1>5, CallSet
<1>7. waiting \in Calls \cup {NoCall} /\ (waiting # NoCall => calls[waiting] # Idle)
  BY DEF CallsOK
<1>8. waiting' # NoCall => calls'[waiting'] # Idle
  BY <1>5, <1>6, <1>7
<1> QED BY <1>5, <1>6, <1>7, <1>8 DEF CallsOK, moved

\* A step's runtime is one of the table, its clocks in their bounds.
LEMMA StepRecord ==
  ASSUME NEW t, IsTable(t), NEW target \in AllLevels(t), NEW up \in Nat \ {0},
         NEW hold \in Nat, NEW cap \in Nat,
         NEW r \in [level : AllLevels(t), streak : 0 .. up - 1, since : 0 .. cap]
  PROVE  StepLevel(target, r, up, hold)
           \in [level : AllLevels(t), streak : 0 .. up - 1, since : 0 .. cap]
<1> DEFINE q == StepLevel(target, r, up, hold)
<1>1. r.level \in AllLevels(t) /\ r.streak \in Nat /\ r.since \in 0 .. cap /\ r.since \in Nat
  OBVIOUS
<1>2. q.level \in {target, r.level} /\ q.streak \in 0 .. up - 1 /\ q.since \in {0, r.since}
  BY <1>1, Steps
<1>3. \E a, b, d : q = Runtime(a, b, d)
  BY DEF StepLevel
<1> HIDE DEF q
<1>4. q = [level |-> q.level, streak |-> q.streak, since |-> q.since]
  BY <1>3 DEF Runtime
<1>5. q.level \in AllLevels(t) /\ q.since \in 0 .. cap
  BY <1>1, <1>2
<1>6. q \in [level : AllLevels(t), streak : 0 .. up - 1, since : 0 .. cap]
  BY <1>2, <1>4, <1>5
<1> QED BY <1>6 DEF q

\* What the relay's loop reads.
LEMMA Pushed ==
  ASSUME FecOK
  PROVE  PushedLoss \in Nat \cup {Unset} /\ PushedLink \in Links /\ fec.policy \in Policies
<1>1. /\ fec.policy \in Policies /\ fec.loss \in Nat \cup {Unset} /\ fec.link \in Links
  BY DEF FecOK
<1> QED BY <1>1, LinkInputs DEF PushedLoss, PushedLink

\* The ratio for a policy, a level and a link.
LEMMA RatiosFor ==
  ASSUME NEW policy \in Policies, NEW link \in Links,
         NEW level \in AllLevels(Tables[link.profile])
  PROVE  RatioFor(policy, level, link) \in Nat
<1> DEFINE t == Tables[link.profile]
           signalled == ApplySignalFloor(level, link.signal, t, SignalFloor[link.profile])
           lifted == ApplyLocationFloor(signalled, link.place, t)
<1>1. /\ link.profile \in Known /\ link.signal \in BOOLEAN /\ link.place \in Nat
      /\ policy.fixed \in Int /\ policy.floor \in Int
  BY DEF Links, Policies
<1>2. IsTable(t)
  BY <1>1, LinkInputs
<1>3. signalled \in AllLevels(t)
  <2> HIDE DEF t
  <2>1. level \in AllLevels(t)
    BY DEF t
  <2> QED BY <1>1, <1>2, <2>1, FloorsRaise
<1>4. lifted \in AllLevels(t)
  <2> HIDE DEF t, signalled
  <2> QED BY <1>1, <1>2, <1>3, FloorsRaise
<1>5. LevelToRatio(lifted, t) \in Nat
  <2> HIDE DEF t, lifted
  <2> QED BY <1>2, <1>4, LevelsRow
<1>6. SafeRatio(policy.fixed, DefaultRatio) \in Nat /\ SafeRatio(policy.floor, DefaultRatio) \in Nat
  <2>1. DefaultRatio \in Nat
    BY DEF DefaultRatio, Overhead
  <2> QED BY <1>1, <2>1 DEF SafeRatio
<1>7. RatioFor(policy, level, link) = ApplyMode(policy.mode, LevelToRatio(lifted, t),
           SafeRatio(policy.fixed, DefaultRatio), SafeRatio(policy.floor, DefaultRatio))
  BY DEF RatioFor, Lifted
<1> HIDE DEF lifted, t
<1> QED BY <1>5, <1>6, <1>7, ModesRise

\* A tick of the relay's loop: the link's profile, and a step from the runtime that
\* profile starts from.
LEMMA Runs ==
  ASSUME LevelOK, LoopOK, FecOK, RunOnce
  PROVE  /\ LevelOK' /\ last' = PushedLink.profile
         /\ last' = last => Rebased(last') = relayRt
         /\ Rebased(last') \in [level : AllLevels(Tables[last']),
                                streak : 0 .. UpTicks[last'] - 1,
                                since : 0 .. DownHold[last']]
         /\ loop.loss # Unset =>
              relayRt' = StepLevel(LossToLevel(loop.loss, Tables[last']), Rebased(last'),
                                   UpTicks[last'], DownHold[last'])
<1>1. /\ last' = PushedLink.profile /\ PushedLink \in Links /\ last' \in Known /\ last \in Known
      /\ IsTable(Tables[last']) /\ UpTicks[last'] \in Nat \ {0} /\ DownHold[last'] \in Nat \ {0}
      /\ loop.policy \in Policies /\ loop.loss \in Nat \cup {Unset}
  BY Pushed, LinkInputs DEF RunOnce, Links, LevelOK, LoopOK
<1> DEFINE t == Tables[last']
           r == Rebased(last')
           up == UpTicks[last']
           hold == DownHold[last']
           Kind == [level : AllLevels(t), streak : 0 .. up - 1, since : 0 .. hold]
<1>2. r \in Kind /\ (last' = last => r = relayRt)
  <2>1. CASE last' = last
    BY <2>1 DEF Rebased, LevelOK
  <2>2. CASE last' # last
    <3>1. r = Runtime(RatioToLevel(LevelToRatio(relayRt.level, Tables[last]), t), 0, 0)
      BY <2>2 DEF Rebased, ReseedRuntime
    <3>2. RatioToLevel(LevelToRatio(relayRt.level, Tables[last]), t) \in AllLevels(t)
      BY <1>1, RatiosLevel
    <3>3. 0 \in 0 .. up - 1 /\ 0 \in 0 .. hold
      BY <1>1
    <3> HIDE DEF t, up, hold
    <3> QED BY <2>2, <3>1, <3>2, <3>3 DEF Runtime
  <2> QED BY <2>1, <2>2
<1>3. PICK local \in LocalLosses :
        relayRt' = Stepped(r, IF loop.loss # Unset THEN loop.loss ELSE local, last')
  BY Zenon DEF RunOnce
<1> DEFINE worst == IF loop.loss # Unset THEN loop.loss ELSE local
<1>4. worst = Unset => relayRt' = r
  BY <1>3 DEF Stepped
<1>5. worst # Unset => relayRt' = StepLevel(LossToLevel(worst, t), r, up, hold)
  BY <1>3 DEF Stepped
<1>6. relayRt' \in Kind
  <2>1. LossToLevel(worst, t) \in AllLevels(t)
    BY <1>1, LossesLevel
  <2>2. StepLevel(LossToLevel(worst, t), r, up, hold) \in Kind
    <3>1. hold \in Nat /\ up \in Nat \ {0}
      BY <1>1
    <3> HIDE DEF t, r, worst, up, hold
    <3>2. IsTable(t)
      BY <1>1 DEF t
    <3> QED BY <1>1, <1>2, <2>1, <3>1, <3>2, StepRecord
  <2> QED BY <1>2, <1>4, <1>5, <2>2
<1>7. relayRatio' \in Nat \cup {Unset}
  <2>1. \/ relayRatio' = RatioFor(loop.policy, relayRt'.level, PushedLink)
        \/ UNCHANGED relayRatio
    BY Zenon DEF RunOnce
  <2>2. relayRt'.level \in AllLevels(Tables[PushedLink.profile])
    BY <1>1, <1>6
  <2>3. RatioFor(loop.policy, relayRt'.level, PushedLink) \in Nat
    BY <1>1, <2>2, RatiosFor
  <2> QED BY <2>1, <2>3 DEF LevelOK
<1>8. LevelOK'
  BY <1>1, <1>6, <1>7 DEF LevelOK
<1>9. loop.loss # Unset => worst = loop.loss
  OBVIOUS
<1> HIDE DEF worst
<1> QED BY <1>1, <1>2, <1>5, <1>8, <1>9

\* So it begins.
LEMMA LinkTypeInit ==
  ASSUME LinkInit
  PROVE  LinkTyped
<1>1. /\ running = TRUE /\ desired = First /\ acked = {} /\ due = TRUE /\ waiting = NoCall
      /\ calls = [c \in Calls |-> Idle] /\ fec = BootState /\ loop = NewTick
      /\ relayRt = Runtime(0, 0, 0) /\ last = "default" /\ relayRatio = Unset
      /\ ticked = FALSE /\ steady = 0
  BY DEF LinkInit
<1>2. CallsOK
  BY <1>1, LinkInputs DEF CallsOK, CallOK, Call, Idle
<1>3. ClientOK
  BY <1>1, LinkInputs DEF ClientOK
<1>4. FecOK /\ LoopOK
  BY <1>1, LinkInputs DEF FecOK, LoopOK, BootState, NewTick
<1>5. LevelOK
  <2>1. 0 \in AllLevels(Tables["default"]) /\ 0 \in 0 .. UpTicks["default"] - 1
        /\ 0 \in 0 .. DownHold["default"]
    BY LinkInputs, Rows
  <2> QED BY <1>1, <2>1, LinkInputs DEF LevelOK, Runtime
<1>6. steady \in 0 .. FollowTime
  BY <1>1, LinkInputs
<1> QED BY <1>1, <1>2, <1>3, <1>4, <1>5, <1>6 DEF LinkTyped

\* The steps of the client and of the network.
LEMMA ClientSteps ==
  ASSUME LinkTyped, LinkNext
  PROVE  /\ Wants \/ Stop \/ Start => LinkTyped'
         /\ \A c \in Calls : Post(c) \/ Retry(c) \/ Hear(c) \/ Lose(c) => LinkTyped'
         /\ GiveUp => LinkTyped'
<1>1. CallsOK /\ ClientOK /\ FecOK /\ LoopOK /\ LevelOK /\ 0 \in 0 .. FollowTime
      /\ steady \in 0 .. FollowTime /\ ticked \in BOOLEAN
  BY LinkInputs DEF LinkTyped
<1>2. UNCHANGED relay => FecOK' /\ LoopOK' /\ LevelOK'
  BY <1>1 DEF relay, FecOK, LoopOK, LevelOK
<1>3. UNCHANGED <<calls, waiting>> => CallsOK'
  BY <1>1 DEF CallsOK
<1>4. ASSUME Wants \/ Stop \/ Start PROVE LinkTyped'
  <2>1. steady' \in 0 .. FollowTime /\ ticked' = ticked
    BY <1>1, <1>4 DEF Wants, Stop, Start, Spends
  <2>2. ClientOK'
    BY <1>1, <1>4 DEF Wants, Stop, Start, ClientOK
  <2>3. UNCHANGED relay /\ UNCHANGED <<calls, waiting>>
    BY <1>4 DEF Wants, Stop, Start
  <2> QED BY <1>1, <1>2, <1>3, <2>1, <2>2, <2>3 DEF LinkTyped
<1>5. ASSUME NEW c \in Calls, Post(c) PROVE LinkTyped'
  <2>1. CallsOK'
    BY <1>1, <1>5, Sends DEF Post, ClientOK
  <2>2. ClientOK' /\ UNCHANGED <<relay, pace>>
    BY <1>1, <1>5 DEF Post, ClientOK
  <2> QED BY <1>1, <1>2, <2>1, <2>2 DEF LinkTyped, pace
<1>6. ASSUME NEW c \in Calls, Retry(c) PROVE LinkTyped'
  <2>1. calls[waiting].setting \in Settings
    BY <1>1, <1>6 DEF Retry, CallsOK, Call
  <2>2. CallsOK'
    BY <1>1, <1>6, <2>1, Sends DEF Retry
  <2>3. ClientOK' /\ UNCHANGED <<relay, ticked>> /\ steady' = 0
    BY <1>1, <1>6 DEF Retry, ClientOK, Spends
  <2> QED BY <1>1, <1>2, <2>2, <2>3 DEF LinkTyped
<1>7. ASSUME NEW c \in Calls, Hear(c) PROVE LinkTyped'
  <2>1. CallsOK'
    BY <1>1, <1>7, Ends DEF Hear
  <2>2. calls[c].setting \in Settings
    BY <1>1 DEF CallsOK, Call
  <2>3. ClientOK' /\ UNCHANGED <<relay, pace>>
    BY <1>1, <1>7, <2>2 DEF Hear, ClientOK
  <2> QED BY <1>1, <1>2, <2>1, <2>3 DEF LinkTyped, pace
<1>8. ASSUME NEW c \in Calls, Lose(c) PROVE LinkTyped'
  <2>1. CallsOK'
    BY <1>1, <1>8, Ends DEF Lose
  <2>2. ClientOK' /\ UNCHANGED <<relay, ticked>> /\ steady' = 0
    BY <1>1, <1>8 DEF Lose, ClientOK, Spends
  <2> QED BY <1>1, <1>2, <2>1, <2>2 DEF LinkTyped
<1>9. ASSUME GiveUp PROVE LinkTyped'
  <2>1. waiting \in Calls /\ waiting' = NoCall
    BY <1>1, <1>9 DEF GiveUp, CallsOK
  <2>2. CASE calls[waiting].at \in {"answered", "refused"}
    <3>1. calls' = [calls EXCEPT ![waiting] = Idle]
      BY <1>9, <2>2 DEF GiveUp
    <3>2. CallsOK'
      BY <1>1, <2>1, <3>1, Ends
    <3>3. ClientOK' /\ UNCHANGED <<relay, ticked>> /\ steady' = 0
      BY <1>1, <1>9 DEF GiveUp, ClientOK, Spends
    <3> QED BY <1>1, <1>2, <3>2, <3>3 DEF LinkTyped
  <2>3. CASE calls[waiting].at \notin {"answered", "refused"}
    <3>1. calls' = calls
      BY <1>9, <2>3 DEF GiveUp
    <3>2. CallsOK'
      BY <1>1, <2>1, <3>1 DEF CallsOK
    <3>3. ClientOK' /\ UNCHANGED <<relay, ticked>> /\ steady' = 0
      BY <1>1, <1>9 DEF GiveUp, ClientOK, Spends
    <3> QED BY <1>1, <1>2, <3>2, <3>3 DEF LinkTyped
  <2> QED BY <2>2, <2>3
<1> QED BY <1>4, <1>5, <1>6, <1>7, <1>8, <1>9

\* The steps of the handlers.
LEMMA HandlerSteps ==
  ASSUME LinkTyped, NEW c \in Calls, Handle(c)
  PROVE  LinkTyped'
<1>1. CallsOK /\ ClientOK /\ FecOK /\ LoopOK /\ LevelOK /\ StaleAfter \in Nat
      /\ steady \in 0 .. FollowTime /\ ticked \in BOOLEAN /\ FollowTime \in Nat
  BY LinkInputs DEF LinkTyped
<1>2. calls[c].setting \in Settings
      /\ (calls[c].at \in {"loss", "link"} => Accepted(calls[c].setting))
  BY <1>1 DEF CallsOK, CallOK, Call
<1>3. /\ calls[c].setting.policy \in Policies /\ calls[c].setting.loss \in Nat
      /\ Accepted(calls[c].setting) => LinkOf(calls[c].setting.link) \in Links
  BY <1>2, LinkInputs
<1>4. Touch(c) => /\ UNCHANGED client /\ UNCHANGED <<loop, relayRt, last, relayRatio, ticked>>
                  /\ steady' \in 0 .. FollowTime
  BY <1>1 DEF Touch
<1>5. UNCHANGED client => ClientOK' /\ waiting' = waiting
  BY <1>1 DEF client, ClientOK
<1>6. UNCHANGED <<loop, relayRt, last, relayRatio>> => LoopOK' /\ LevelOK'
  BY <1>1 DEF LoopOK, LevelOK
<1>7. CASE Refuse(c)
  <2>1. UNCHANGED client /\ UNCHANGED relay /\ UNCHANGED pace /\ Moves(c, "refused")
    BY <1>7 DEF Refuse
  <2>2. CallsOK'
    BY <1>1, <1>5, <2>1, Handles
  <2>3. FecOK'
    BY <1>1, <2>1 DEF relay, FecOK
  <2> QED BY <1>1, <1>5, <1>6, <2>1, <2>2, <2>3 DEF LinkTyped, relay, pace
<1>8. CASE SetDesired(c)
  <2>1. Accepted(calls[c].setting) /\ Moves(c, "loss") /\ Touch(c)
        /\ fec' = [fec EXCEPT !.policy = calls[c].setting.policy]
    BY <1>8 DEF SetDesired
  <2>2. CallsOK'
    BY <1>1, <1>4, <1>5, <2>1, Handles
  <2>3. FecOK'
    BY <1>1, <1>3, <2>1 DEF FecOK
  <2> QED BY <1>1, <1>4, <1>5, <1>6, <2>1, <2>2, <2>3 DEF LinkTyped
<1>9. CASE SetPushedLoss(c)
  <2>1. 0 \in 0 .. StaleAfter + 1 /\ Moves(c, "link") /\ Touch(c)
        /\ Accepted(calls[c].setting)
        /\ fec' = [fec EXCEPT !.loss = calls[c].setting.loss, !.lossAge = 0]
    BY <1>1, <1>2, <1>9 DEF SetPushedLoss
  <2>2. CallsOK'
    BY <1>1, <1>4, <1>5, <2>1, Handles
  <2>3. FecOK'
    BY <1>1, <1>3, <2>1 DEF FecOK
  <2> QED BY <1>1, <1>4, <1>5, <1>6, <2>1, <2>2, <2>3 DEF LinkTyped
<1>10. CASE SetPushedLink(c)
  <2>1. 0 \in 0 .. StaleAfter + 1 /\ Moves(c, "answered") /\ Touch(c)
        /\ Accepted(calls[c].setting)
        /\ fec' = [fec EXCEPT !.link = LinkOf(calls[c].setting.link), !.linkAge = 0]
    BY <1>1, <1>2, <1>10 DEF SetPushedLink
  <2>2. CallsOK'
    BY <1>1, <1>4, <1>5, <2>1, Handles
  <2>3. FecOK'
    BY <1>1, <1>3, <2>1 DEF FecOK
  <2> QED BY <1>1, <1>4, <1>5, <1>6, <2>1, <2>2, <2>3 DEF LinkTyped
<1> QED BY <1>7, <1>8, <1>9, <1>10 DEF Handle

\* A unit of time: the ages and the clock.
LEMMA TimePasses ==
  ASSUME FecOK, LevelOK, steady \in 0 .. FollowTime, Elapse
  PROVE  /\ FecOK' /\ LevelOK' /\ last' = last /\ relayRatio' = relayRatio
         /\ relayRt'.level = relayRt.level /\ relayRt'.streak = relayRt.streak
         /\ relayRt'.since = (IF relayRt.since < DownHold[last] THEN relayRt.since + 1
                             ELSE DownHold[last])
         /\ fec'.policy = fec.policy /\ fec'.loss = fec.loss /\ fec'.link = fec.link
         /\ fec'.lossAge =
              (IF fec.lossAge <= StaleAfter THEN fec.lossAge + 1 ELSE StaleAfter + 1)
         /\ fec'.linkAge =
              (IF fec.linkAge <= StaleAfter THEN fec.linkAge + 1 ELSE StaleAfter + 1)
         /\ steady' = (IF steady < FollowTime THEN steady + 1 ELSE FollowTime)
<1>1. /\ StaleAfter \in Nat \ {0} /\ DownHold[last] \in Nat \ {0} /\ FollowTime \in Nat
      /\ fec.lossAge \in 0 .. StaleAfter + 1 /\ fec.linkAge \in 0 .. StaleAfter + 1
      /\ relayRt.since \in 0 .. DownHold[last]
  BY LinkInputs DEF FecOK, LevelOK
<1>2. /\ fec.lossAge + 1 \in Int /\ fec.linkAge + 1 \in Int /\ StaleAfter + 1 \in Int
      /\ relayRt.since + 1 \in Int /\ DownHold[last] \in Int /\ steady + 1 \in Int /\ FollowTime \in Int
  BY <1>1
<1>3. /\ Min({fec.lossAge + 1, StaleAfter + 1}) =
           (IF fec.lossAge + 1 <= StaleAfter + 1 THEN fec.lossAge + 1 ELSE StaleAfter + 1)
      /\ Min({fec.linkAge + 1, StaleAfter + 1}) =
           (IF fec.linkAge + 1 <= StaleAfter + 1 THEN fec.linkAge + 1 ELSE StaleAfter + 1)
      /\ Min({relayRt.since + 1, DownHold[last]}) =
           (IF relayRt.since + 1 <= DownHold[last] THEN relayRt.since + 1 ELSE DownHold[last])
      /\ Min({steady + 1, FollowTime}) =
           (IF steady + 1 <= FollowTime THEN steady + 1 ELSE FollowTime)
  BY <1>2, OfTwo
<1>4. /\ fec' = [fec EXCEPT !.lossAge = Min({@ + 1, StaleAfter + 1}),
                            !.linkAge = Min({@ + 1, StaleAfter + 1})]
      /\ relayRt' = [relayRt EXCEPT !.since = Min({@ + 1, DownHold[last]})]
      /\ steady' = Min({steady + 1, FollowTime}) /\ last' = last /\ relayRatio' = relayRatio
  BY DEF Elapse
<1>5. /\ Min({fec.lossAge + 1, StaleAfter + 1}) \in 0 .. StaleAfter + 1
      /\ Min({fec.linkAge + 1, StaleAfter + 1}) \in 0 .. StaleAfter + 1
      /\ Min({relayRt.since + 1, DownHold[last]}) \in 0 .. DownHold[last]
  BY <1>1, <1>3
<1>6. /\ FecOK' /\ fec'.policy = fec.policy /\ fec'.loss = fec.loss /\ fec'.link = fec.link
      /\ fec'.lossAge = Min({fec.lossAge + 1, StaleAfter + 1})
      /\ fec'.linkAge = Min({fec.linkAge + 1, StaleAfter + 1})
  BY <1>4, <1>5 DEF FecOK
<1>7. /\ LevelOK' /\ relayRt'.level = relayRt.level /\ relayRt'.streak = relayRt.streak
      /\ relayRt'.since = Min({relayRt.since + 1, DownHold[last]})
  BY <1>4, <1>5 DEF LevelOK
<1> QED BY <1>1, <1>3, <1>4, <1>6, <1>7

\* And with each step.
LEMMA LinkTypeStep ==
  ASSUME LinkTyped, [LinkNext]_linkVars
  PROVE  LinkTyped'
<1>1. CallsOK /\ ClientOK /\ FecOK /\ LoopOK /\ LevelOK /\ FollowTime \in Nat
      /\ steady \in 0 .. FollowTime /\ ticked \in BOOLEAN /\ 0 \in 0 .. FollowTime
  BY LinkInputs DEF LinkTyped
<1>2. CASE Wants \/ Stop \/ Start \/ GiveUp
  BY <1>2, ClientSteps DEF LinkNext
<1>3. CASE \E c \in Calls : Retry(c) \/ Lose(c)
  BY <1>3, ClientSteps DEF LinkNext
<1>4. CASE Exchange
  <2>1. PICK c \in Calls : Post(c) \/ Hear(c) \/ Handle(c)
    BY <1>4 DEF Exchange
  <2> QED BY <1>4, <2>1, ClientSteps, HandlerSteps DEF LinkNext
<1>5. CASE ReadDesired \/ ReadLoss
  <2>1. LoopOK'
    BY <1>1, <1>5, Pushed DEF ReadDesired, ReadLoss, LoopOK
  <2>2. UNCHANGED <<client, calls, fec, relayRt, last, relayRatio, pace>>
    BY <1>5 DEF ReadDesired, ReadLoss
  <2> QED BY <1>1, <2>1, <2>2 DEF LinkTyped, CallsOK, ClientOK, FecOK, LevelOK, client, pace
<1>6. CASE RunOnce
  <2>1. LevelOK'
    BY <1>1, <1>6, Runs
  <2>2. LoopOK'
    BY <1>6, LinkInputs DEF RunOnce, LoopOK, NewTick
  <2>3. UNCHANGED <<client, calls, fec>> /\ ticked' = TRUE /\ steady' \in 0 .. FollowTime
    BY <1>1, <1>6 DEF RunOnce, Spends
  <2> QED BY <1>1, <2>1, <2>2, <2>3 DEF LinkTyped, CallsOK, ClientOK, FecOK, client
<1>7. CASE RelayRestart
  <2>1. CallsOK'
    BY <1>7, LinkInputs DEF RelayRestart, CallsOK, CallOK, Call, Idle
  <2>2. FecOK' /\ LoopOK'
    BY <1>7, LinkInputs DEF RelayRestart, FecOK, LoopOK, BootState, NewTick
  <2>3. LevelOK'
    <3>1. /\ IsTable(Tables["default"]) /\ 0 \in 0 .. UpTicks["default"] - 1
          /\ 0 \in 0 .. DownHold["default"]
      BY LinkInputs
    <3>2. 0 \in AllLevels(Tables["default"])
      BY <3>1, Rows
    <3> QED BY <1>7, <3>1, <3>2, LinkInputs DEF RelayRestart, LevelOK, Runtime
  <2>4. ClientOK' /\ ticked' = ticked /\ steady' = 0
    BY <1>1, <1>7 DEF RelayRestart, ClientOK, Spends
  <2> QED BY <1>1, <2>1, <2>2, <2>3, <2>4 DEF LinkTyped
<1>8. CASE Elapse
  <2>1. FecOK' /\ LevelOK' /\ steady' \in 0 .. FollowTime
    BY <1>1, <1>8, TimePasses
  <2>2. UNCHANGED <<running, desired, acked, waiting, calls, loop>> /\ due' = TRUE
        /\ ticked' = FALSE
    BY <1>8 DEF Elapse
  <2> QED BY <1>1, <2>1, <2>2 DEF LinkTyped, CallsOK, ClientOK, LoopOK
<1>9. CASE UNCHANGED linkVars
  BY <1>1, <1>9 DEF LinkTyped, CallsOK, ClientOK, FecOK, LoopOK, LevelOK, linkVars, client,
                    relay, pace
<1> QED BY <1>2, <1>3, <1>4, <1>5, <1>6, <1>7, <1>8, <1>9 DEF LinkNext, Loop

\* The types of the relay's leg (post_relay_fec, start_fec_http, run of
\* udpspeeder_fec), for any settings, tables and times.
THEOREM LinkTypeCorrect == LinkSpec => []LinkTypeOK
<1>1. LinkTyped => LinkTypeOK
  BY LinkInputs DEF LinkTyped, LinkTypeOK, CallsOK, ClientOK, FecOK, LevelOK, Call
<1> QED BY <1>1, LinkTypeInit, LinkTypeStep, PTL DEF LinkSpec

-----------------------------------------------------------------------------
(* The acknowledgement.                                                    *)

\* What the relay holds of a setting whose call is at a place of its handler; and
\* that it was told it in this unit of time.
Heard(s, at) ==
  /\ at \in {"loss", "link", "answered"} => fec.policy = s.policy
  /\ at \in {"link", "answered"} => fec.loss = s.loss
  /\ at = "answered" => fec.link = LinkOf(s.link)
HeardNow(at) ==
  /\ at \in {"link", "answered"} => fec.lossAge = 0
  /\ at = "answered" => fec.linkAge = 0

\* While no other call has touched the relay, it holds what the awaited one's
\* handler has come to.
Acking ==
  /\ alone \in [call : BOOLEAN, ack : BOOLEAN]
  /\ alone.call /\ waiting # NoCall => Heard(calls[waiting].setting, calls[waiting].at)
  /\ alone.ack => \A s \in acked : Told(s)

\* The awaited call's handler carries its own setting on.
LEMMA Tells ==
  ASSUME LinkTyped, NEW c \in Calls, waiting = c, Handle(c), NEW s, s = calls[c].setting
  PROVE  /\ UNCHANGED client /\ UNCHANGED <<loop, relayRt, last, relayRatio, ticked, steady>>
         /\ calls'[c].setting = s /\ calls'[c].at # "net"
         /\ calls'[c].at = "refused" => ~Accepted(s)
         /\ Heard(s, calls[c].at) => Heard(s, calls[c].at)'
         /\ HeardNow(calls[c].at) => HeardNow(calls[c].at)'
         /\ Told(s) => Told(s)'
         /\ fec'.lossAge \in {0, fec.lossAge} /\ fec'.linkAge \in {0, fec.linkAge}
         /\ alone \in [call : BOOLEAN, ack : BOOLEAN] =>
              /\ alone' \in [call : BOOLEAN, ack : BOOLEAN] /\ alone'.call = alone.call
              /\ alone'.ack => alone.ack /\ (UNCHANGED fec \/ acked = {s})
<1>1. CallsOK /\ FecOK
  BY DEF LinkTyped
<1>2. calls[c].at \in {"loss", "link"} => Accepted(s)
  BY <1>1 DEF CallsOK, CallOK
<1>3. CASE Refuse(c)
  <2>1. calls'[c] = [at |-> "refused", setting |-> s]
    BY <1>1, <1>3, Handles DEF Refuse, client
  <2>2. UNCHANGED <<client, relay, alone, pace>> /\ ~Accepted(s)
    BY <1>3 DEF Refuse
  <2> QED BY <2>1, <2>2 DEF relay, pace, Heard, HeardNow, Told
<1>4. ASSUME Touch(c)
      PROVE  /\ UNCHANGED client /\ UNCHANGED <<loop, relayRt, last, relayRatio, ticked, steady>>
             /\ waiting' = waiting
             /\ alone \in [call : BOOLEAN, ack : BOOLEAN] =>
                  /\ alone' \in [call : BOOLEAN, ack : BOOLEAN] /\ alone'.call = alone.call
                  /\ alone'.ack => alone.ack /\ acked = {s}
  <2>1. alone' = [alone EXCEPT !.ack = @ /\ acked = {s}]
    BY <1>4 DEF Touch
  <2>2. PICK ack \in BOOLEAN : ack = (alone.ack /\ acked = {s})
    OBVIOUS
  <2>3. alone' = [alone EXCEPT !.ack = ack]
    BY Zenon, <2>1, <2>2
  <2>4. alone \in [call : BOOLEAN, ack : BOOLEAN] =>
          alone' \in [call : BOOLEAN, ack : BOOLEAN] /\ alone'.call = alone.call /\ alone'.ack = ack
    BY <2>3
  <2>5. ack => alone.ack /\ acked = {s}
    BY Zenon, <2>2
  <2>6. alone \in [call : BOOLEAN, ack : BOOLEAN] =>
          /\ alone' \in [call : BOOLEAN, ack : BOOLEAN] /\ alone'.call = alone.call
          /\ alone'.ack => alone.ack /\ acked = {s}
    BY Zenon, <2>4, <2>5
  <2> QED BY <1>4, <2>6 DEF Touch, client
<1>5. CASE SetDesired(c)
  <2>1. calls'[c] = [at |-> "loss", setting |-> s]
    BY <1>1, <1>4, <1>5, Handles DEF SetDesired
  <2>2. /\ fec'.policy = s.policy /\ fec'.loss = fec.loss /\ fec'.link = fec.link
        /\ fec'.lossAge = fec.lossAge /\ fec'.linkAge = fec.linkAge
    BY <1>1, <1>5 DEF SetDesired, FecOK
  <2>3. Touch(c)
    BY <1>5 DEF SetDesired
  <2> QED BY <1>4, <2>1, <2>2, <2>3 DEF Heard, HeardNow, Told
<1>6. CASE SetPushedLoss(c)
  <2>1. calls'[c] = [at |-> "link", setting |-> s] /\ calls[c].at = "loss"
    BY <1>1, <1>2, <1>4, <1>6, Handles DEF SetPushedLoss
  <2>2. /\ fec'.policy = fec.policy /\ fec'.loss = s.loss /\ fec'.link = fec.link
        /\ fec'.lossAge = 0 /\ fec'.linkAge = fec.linkAge
    BY <1>1, <1>6 DEF SetPushedLoss, FecOK
  <2>3. Touch(c)
    BY <1>6 DEF SetPushedLoss
  <2> QED BY <1>4, <2>1, <2>2, <2>3 DEF Heard, HeardNow, Told
<1>7. CASE SetPushedLink(c)
  <2>1. calls'[c] = [at |-> "answered", setting |-> s] /\ calls[c].at = "link"
    BY <1>1, <1>2, <1>4, <1>7, Handles DEF SetPushedLink
  <2>2. /\ fec'.policy = fec.policy /\ fec'.loss = fec.loss /\ fec'.link = LinkOf(s.link)
        /\ fec'.lossAge = fec.lossAge /\ fec'.linkAge = 0
    BY <1>1, <1>7 DEF SetPushedLink, FecOK
  <2>3. Touch(c)
    BY <1>7 DEF SetPushedLink
  <2> QED BY <1>4, <2>1, <2>2, <2>3 DEF Heard, HeardNow, Told
<1> QED BY <1>3, <1>5, <1>6, <1>7 DEF Handle

\* Another call's handler is refused, or is seen to have touched the relay.
LEMMA Interferes ==
  ASSUME LinkTyped, NEW c \in Calls, waiting # c, Handle(c)
  PROVE  /\ UNCHANGED client /\ \A d \in Calls \ {c} : calls'[d] = calls[d]
         /\ \/ UNCHANGED <<relay, alone, pace>>
            \/ /\ alone' = [call |-> FALSE, ack |-> FALSE] /\ steady' = 0
               /\ fec'.lossAge \in {0, fec.lossAge} /\ fec'.linkAge \in {0, fec.linkAge}
<1>1. CallsOK /\ FecOK
  BY DEF LinkTyped
<1>2. calls[c].at \in {"loss", "link"} => Accepted(calls[c].setting)
  BY <1>1 DEF CallsOK, CallOK
<1>3. Touch(c) => /\ UNCHANGED client /\ waiting' = waiting
                  /\ alone' = [call |-> FALSE, ack |-> FALSE] /\ steady' = 0
  BY DEF Touch, client
<1>4. CASE Refuse(c)
  BY <1>1, <1>4, Handles DEF Refuse, client
<1>5. CASE SetDesired(c)
  BY <1>1, <1>3, <1>5, Handles DEF SetDesired, FecOK
<1>6. CASE SetPushedLoss(c)
  BY <1>1, <1>2, <1>3, <1>6, Handles DEF SetPushedLoss, FecOK
<1>7. CASE SetPushedLink(c)
  BY <1>1, <1>2, <1>3, <1>7, Handles DEF SetPushedLink, FecOK
<1> QED BY <1>4, <1>5, <1>6, <1>7 DEF Handle

\* Each step keeps what is acknowledged true.
LEMMA AckStep ==
  ASSUME LinkTyped, Acking, [LinkNext]_linkVars
  PROVE  Acking'
<1>1. /\ CallsOK /\ alone \in [call : BOOLEAN, ack : BOOLEAN]
      /\ waiting \in Calls \cup {NoCall} /\ NoCall \notin Calls
  BY LinkInputs DEF LinkTyped, CallsOK, Acking
<1>2. CASE Wants \/ Stop \/ Start \/ GiveUp
  BY <1>1, <1>2 DEF Wants, Stop, Start, GiveUp, relay, Acking, Heard, Told
<1>3. ASSUME NEW c \in Calls, Post(c) PROVE Acking'
  <2>1. calls'[c] = [at |-> "net", setting |-> desired] /\ waiting' = c
    BY <1>1, <1>3, Sends DEF Post, LinkTyped, ClientOK
  <2>2. /\ alone' \in [call : BOOLEAN, ack : BOOLEAN] /\ alone'.ack = alone.ack
        /\ UNCHANGED <<acked, fec>>
    BY <1>1, <1>3 DEF Post, relay
  <2> QED BY <2>1, <2>2 DEF Acking, Heard, Told
<1>4. ASSUME NEW c \in Calls, Retry(c) PROVE Acking'
  <2>1. calls[waiting].setting \in Settings
    BY <1>1, <1>4 DEF Retry, CallsOK, Call
  <2>2. calls'[c] = [at |-> "net", setting |-> calls[waiting].setting] /\ waiting' = c
    BY <1>1, <1>4, <2>1, Sends DEF Retry
  <2>3. UNCHANGED <<alone, acked, fec>>
    BY <1>4 DEF Retry, relay
  <2> QED BY <1>1, <2>2, <2>3 DEF Acking, Heard, Told
<1>5. ASSUME NEW c \in Calls, Hear(c) PROVE Acking'
  <2>1. waiting = c /\ waiting' = NoCall /\ c # NoCall /\ UNCHANGED fec
    BY <1>1, <1>5 DEF Hear, relay
  <2>2. CASE calls[c].at = "answered"
    <3>1. acked' = {calls[c].setting} /\ alone' = [alone EXCEPT !.ack = alone.call]
      BY <1>5, <2>2 DEF Hear
    <3>2. alone' \in [call : BOOLEAN, ack : BOOLEAN] /\ alone'.ack = alone.call
      BY <1>1, <3>1
    <3>3. alone.call => Told(calls[c].setting)
      BY <2>1, <2>2 DEF Acking, Heard, Told
    <3>4. alone'.ack => \A s \in acked' : Told(s)
      BY <3>1, <3>2, <3>3
    <3> QED BY <2>1, <3>2, <3>4 DEF Acking, Told
  <2>3. CASE calls[c].at # "answered"
    BY <1>5, <2>1, <2>3 DEF Hear, Acking, Told
  <2> QED BY <2>2, <2>3
<1>6. ASSUME NEW c \in Calls, Lose(c) PROVE Acking'
  <2>1. waiting' \in {NoCall, waiting} /\ (waiting' # NoCall => waiting # c)
        /\ UNCHANGED <<alone, acked, fec>>
    BY <1>6 DEF Lose, relay
  <2>2. \A d \in Calls \ {c} : calls'[d] = calls[d]
    BY <1>1, <1>6, Ends DEF Lose
  <2> QED BY <1>1, <2>1, <2>2 DEF Acking, Heard, Told
<1>7. ASSUME NEW c \in Calls, Handle(c), waiting = c PROVE Acking'
  <2> DEFINE s == calls[c].setting
  <2>1. /\ waiting' = c /\ acked' = acked /\ calls'[c].setting = s
        /\ alone' \in [call : BOOLEAN, ack : BOOLEAN] /\ alone'.call = alone.call
        /\ alone'.ack => alone.ack /\ (UNCHANGED fec \/ acked = {s})
    BY <1>1, <1>7, Tells DEF client
  <2>2. PICK z : z = calls[c].setting
    OBVIOUS
  <2>3. /\ Heard(z, calls[c].at) => Heard(z, calls[c].at)'
        /\ Told(z) => Told(z)'
    BY <1>7, <2>2, Tells
  <2>4. alone'.call => Heard(z, calls[c].at)'
    BY <1>1, <1>7, <2>1, <2>2, <2>3 DEF Acking
  <2>5. alone'.ack => \A r \in acked' : Told(r)'
    <3>1. CASE UNCHANGED fec
      BY <2>1, <3>1 DEF Acking, Told
    <3>2. CASE acked = {z}
      BY <2>1, <2>3, <3>2 DEF Acking
    <3> QED BY <2>1, <2>2, <3>1, <3>2
  <2> QED BY <2>1, <2>2, <2>4, <2>5 DEF Acking, Heard, Told
<1>8. ASSUME NEW c \in Calls, Handle(c), waiting # c PROVE Acking'
  <2>1. /\ UNCHANGED client /\ \A d \in Calls \ {c} : calls'[d] = calls[d]
        /\ UNCHANGED <<relay, alone, pace>> \/ alone' = [call |-> FALSE, ack |-> FALSE]
    BY <1>8, Interferes
  <2>2. CASE UNCHANGED <<relay, alone>>
    BY <1>1, <1>8, <2>1, <2>2 DEF client, relay, Acking, Heard, Told
  <2>3. CASE alone' = [call |-> FALSE, ack |-> FALSE]
    BY <2>3 DEF Acking
  <2> QED BY <2>1, <2>2, <2>3
<1>9. CASE Loop
  BY <1>9 DEF Loop, ReadDesired, ReadLoss, RunOnce, client, Acking, Heard, Told
<1>10. CASE RelayRestart
  BY <1>10 DEF RelayRestart, Acking
<1>11. CASE Elapse
  <2>1. fec'.policy = fec.policy /\ fec'.loss = fec.loss /\ fec'.link = fec.link
    BY <1>11, TimePasses DEF LinkTyped
  <2>2. UNCHANGED <<calls, waiting, acked, alone>>
    BY <1>11 DEF Elapse
  <2> QED BY <2>1, <2>2 DEF Acking, Heard, Told
<1>12. CASE UNCHANGED linkVars
  BY <1>12 DEF linkVars, client, relay, Acking, Heard, Told
<1> QED BY <1>2, <1>3, <1>4, <1>5, <1>6, <1>7, <1>8, <1>9, <1>10, <1>11, <1>12
        DEF LinkNext, Exchange

\* The relay's types always.
LEMMA LinkTypedAlways == LinkSpec => []LinkTyped
<1> QED BY LinkTypeInit, LinkTypeStep, PTL DEF LinkSpec

\* What is acknowledged is held whole, unless another POST or a restart has come
\* since it was made (post_relay_fec, and the handler's three locks).
THEOREM AckIsTrue == LinkSpec => []AckedMeansApplied
<1>1. LinkInit => Acking
  BY DEF LinkInit, Acking
<1>2. Acking => AckedMeansApplied
  BY DEF Acking, AckedMeansApplied
<1> QED BY <1>1, <1>2, AckStep, LinkTypedAlways, PTL DEF LinkSpec

-----------------------------------------------------------------------------
(* What a steady time brings.                                              *)

\* A unit of time in: the heartbeat is due, or under way alone, or handled in
\* this unit.
Posted ==
  IF waiting = NoCall THEN ~due => Told(desired) /\ fec.lossAge = 0 /\ fec.linkAge = 0
  ELSE /\ calls[waiting].setting = desired /\ ~due /\ calls[waiting].at # "refused"
       /\ Heard(desired, calls[waiting].at) /\ HeardNow(calls[waiting].at)

\* Two units in: the relay holds what is wanted, and it is not stale.
Fresh == Told(desired) /\ fec.lossAge <= 1 /\ fec.linkAge <= 1

\* And its loop has ticked since: what the tick under way has read is what is wanted,
\* and the level is one of the profile wanted.
Reads ==
  /\ loop.at # "desired" => loop.policy = desired.policy
  /\ loop.at = "link" => loop.loss = desired.loss
  /\ last = desired.link.profile

\* Three units in: the level is where the loss puts it, and the ratio what is
\* wanted once the loop has ticked; or the run of higher targets, or the time the
\* level has held, has kept up with the units gone by.
Target == LossToLevel(desired.loss, Tables[desired.link.profile])
Nears ==
  \/ /\ relayRt.level = Target
     /\ relayRatio = WantedRatio(desired) \/ (steady = 3 /\ ~ticked)
  \/ /\ relayRt.level < Target
     /\ relayRt.streak + 3 >= steady + (IF ticked THEN 1 ELSE 0)
  \/ /\ relayRt.level > Target /\ relayRt.since + 2 >= steady
     /\ ticked => relayRt.since < DownHold[last]

Following ==
  /\ steady >= 1 => Posted
  /\ steady >= 2 => Fresh
  /\ steady >= 3 \/ (steady = 2 /\ ticked) => Reads
  /\ steady >= 3 => Nears

\* What a client that is gone has pushed is as old as the steady time.
Forgotten(age) == age >= steady \/ age = StaleAfter + 1

Follows ==
  IF running THEN Accepted(desired) => Following
  ELSE waiting = NoCall /\ Forgotten(fec.lossAge) /\ Forgotten(fec.linkAge)

\* The level the loss asks for, on the table of the profile wanted.
LEMMA Targets ==
  ASSUME LinkTyped, Accepted(desired), last = desired.link.profile
  PROVE  /\ IsTable(Tables[last]) /\ Target \in AllLevels(Tables[last]) /\ Target \in Nat
         /\ relayRt.level \in AllLevels(Tables[last]) /\ relayRt.level \in Nat
         /\ relayRt.streak \in 0 .. UpTicks[last] - 1 /\ relayRt.streak \in Nat
         /\ relayRt.since \in 0 .. DownHold[last] /\ relayRt.since \in Nat
         /\ UpTicks[last] \in Nat \ {0} /\ DownHold[last] \in Nat \ {0}
<1>1. /\ IsTable(Tables[last]) /\ UpTicks[last] \in Nat \ {0} /\ DownHold[last] \in Nat \ {0}
      /\ relayRt.level \in AllLevels(Tables[last]) /\ relayRt.streak \in 0 .. UpTicks[last] - 1
      /\ relayRt.since \in 0 .. DownHold[last]
  BY LinkInputs DEF LinkTyped, LevelOK
<1>2. Target \in AllLevels(Tables[last])
  BY <1>1, LossesLevel DEF Target
<1>3. AllLevels(Tables[last]) \subseteq Nat
  BY <1>1, Rows
<1> QED BY <1>1, <1>2, <1>3

\* A fresh push is what the loop reads.
LEMMA FreshReads ==
  ASSUME LinkTyped, Fresh
  PROVE  /\ fec.policy = desired.policy /\ PushedLoss = desired.loss
         /\ PushedLink = LinkOf(desired.link) /\ PushedLink.profile = desired.link.profile
         /\ desired.loss # Unset
<1>1. /\ desired \in Settings /\ StaleAfter \in Nat \ {0} /\ desired.loss \in Nat
      /\ LinkOf(desired.link).profile = desired.link.profile
      /\ fec.lossAge \in 0 .. StaleAfter + 1 /\ fec.linkAge \in 0 .. StaleAfter + 1
  BY LinkInputs DEF LinkTyped, ClientOK, FecOK
<1>2. fec.lossAge <= StaleAfter /\ fec.linkAge <= StaleAfter
  BY <1>1 DEF Fresh
<1>3. PushedLoss = fec.loss /\ PushedLink = fec.link
  BY <1>1, <1>2 DEF PushedLoss, PushedLink
<1> QED BY <1>1, <1>3 DEF Fresh, Told, Unset

\* A tick of the relay's loop comes nearer.
LEMMA NearsTick ==
  ASSUME LinkTyped, Accepted(desired), Fresh, Reads, Nears, RunOnce,
         steady \in Nat, steady >= 3, steady' = steady, UNCHANGED client,
         relayRatio' = RatioFor(loop.policy, relayRt'.level, PushedLink)
  PROVE  Nears'
<1>1. /\ last = desired.link.profile /\ loop.at = "link" /\ loop.policy = desired.policy
      /\ loop.loss = desired.loss /\ desired.loss # Unset
      /\ PushedLink = LinkOf(desired.link) /\ PushedLink.profile = desired.link.profile
      /\ ticked' = TRUE /\ ticked \in BOOLEAN
  BY FreshReads DEF Reads, RunOnce, LinkTyped
<1>2. last' = last
  BY <1>1, Runs DEF LinkTyped
<1>3. relayRt' = StepLevel(Target, relayRt, UpTicks[last], DownHold[last])
  BY <1>1, <1>2, Runs DEF LinkTyped, Target
<1>4. /\ IsTable(Tables[last]) /\ Target \in AllLevels(Tables[last]) /\ Target \in Nat
      /\ relayRt.level \in AllLevels(Tables[last]) /\ relayRt.level \in Nat
      /\ relayRt.streak \in Nat /\ relayRt.since \in Nat
      /\ UpTicks[last] \in Nat \ {0} /\ DownHold[last] \in Nat \ {0} /\ DownHold[last] \in Nat
  BY <1>1, Targets
<1>5. \/ relayRt'.level = Target
      \/ /\ Target > relayRt.level /\ relayRt'.level = relayRt.level
         /\ relayRt'.streak = relayRt.streak + 1 /\ relayRt'.since = relayRt.since
      \/ /\ Target < relayRt.level /\ relayRt'.level = relayRt.level
         /\ relayRt'.since = relayRt.since /\ relayRt.since < DownHold[last]
  BY <1>3, <1>4, Steps
<1>6. Target' = Target /\ desired' = desired
  BY DEF Target, client
<1>7. CASE relayRt'.level = Target
  <2>1. relayRatio' = WantedRatio(desired)
    BY <1>1, <1>7 DEF WantedRatio, Target
  <2> QED BY <1>6, <1>7, <2>1 DEF Nears, WantedRatio
<1>8. CASE /\ Target > relayRt.level /\ relayRt'.level = relayRt.level
           /\ relayRt'.streak = relayRt.streak + 1
  <2>1. relayRt.streak + 3 >= steady
    BY <1>1, <1>4, <1>8 DEF Nears
  <2> QED BY <1>1, <1>4, <1>6, <1>8, <2>1 DEF Nears
<1>9. CASE /\ Target < relayRt.level /\ relayRt'.level = relayRt.level
           /\ relayRt'.since = relayRt.since /\ relayRt.since < DownHold[last]
  BY <1>2, <1>4, <1>6, <1>9 DEF Nears
<1> QED BY <1>5, <1>7, <1>8, <1>9

\* And each of the loop's steps keeps what the steady time has brought.
LEMMA FollowLoop ==
  ASSUME LinkTyped, Accepted(desired), Following, Loop
  PROVE  UNCHANGED client /\ Following'
<1>1. /\ UNCHANGED client /\ UNCHANGED <<calls, fec>> /\ steady \in Nat
      /\ loop.at \in {"desired", "loss", "link"} /\ desired \in Settings
  BY LinkInputs DEF Loop, ReadDesired, ReadLoss, RunOnce, LinkTyped, LoopOK, ClientOK
<1>2. (Posted => Posted') /\ (Fresh => Fresh')
  BY <1>1 DEF client, Posted, Fresh, Told, Heard, HeardNow
<1>3. CASE ReadDesired
  <2>1. UNCHANGED <<relayRt, last, relayRatio, pace>>
    BY <1>3 DEF ReadDesired
  <2>2. loop'.at = "loss" /\ loop'.policy = fec.policy
    BY <1>1, <1>3 DEF ReadDesired, LinkTyped, LoopOK
  <2>3. Fresh /\ Reads => Reads'
    BY <1>1, <2>1, <2>2, FreshReads DEF Reads, client
  <2>4. Nears => Nears'
    BY <1>1, <2>1 DEF Nears, Target, WantedRatio, client, pace
  <2> QED BY <1>1, <1>2, <2>1, <2>3, <2>4 DEF Following, pace
<1>4. CASE ReadLoss
  <2>1. UNCHANGED <<relayRt, last, relayRatio, pace>>
    BY <1>4 DEF ReadLoss
  <2>2. loop.at = "loss" /\ loop'.at = "link" /\ loop'.loss = PushedLoss /\ loop'.policy = loop.policy
    BY <1>1, <1>4 DEF ReadLoss, LinkTyped, LoopOK
  <2>3. Fresh /\ Reads => Reads'
    BY <1>1, <2>1, <2>2, FreshReads DEF Reads, client
  <2>4. Nears => Nears'
    BY <1>1, <2>1 DEF Nears, Target, WantedRatio, client, pace
  <2> QED BY <1>1, <1>2, <2>1, <2>3, <2>4 DEF Following, pace
<1>5. CASE RunOnce
  <2>1. /\ loop'.at = "desired" /\ last' = PushedLink.profile /\ ticked' = TRUE
    BY <1>5 DEF RunOnce, NewTick
  <2>2. \/ steady' = 0
        \/ /\ steady' = steady
           /\ relayRatio' = RatioFor(loop.policy, relayRt'.level, PushedLink)
    BY <1>5 DEF RunOnce, Spends
  <2>3. CASE steady' = 0
    BY <1>1, <2>3 DEF Following
  <2>4. CASE /\ steady' = steady
             /\ relayRatio' = RatioFor(loop.policy, relayRt'.level, PushedLink)
    <3>1. Fresh => Reads'
      BY <1>1, <2>1, FreshReads DEF Reads, client
    <3>2. steady >= 3 => Nears'
      BY <1>1, <1>5, <2>4, NearsTick DEF Following
    <3> QED BY <1>1, <1>2, <2>4, <3>1, <3>2 DEF Following
  <2> QED BY <2>2, <2>3, <2>4
<1> QED BY <1>1, <1>3, <1>4, <1>5 DEF Loop

\* A step that leaves the relay as it is, and the client's wish.
LEMMA FollowStays ==
  ASSUME Following, UNCHANGED <<desired, fec, loop, relayRt, last, relayRatio, ticked, steady>>,
         Posted => Posted'
  PROVE  Following'
<1>1. (Fresh => Fresh') /\ (Reads => Reads') /\ (Nears => Nears')
  BY DEF Fresh, Told, Reads, Nears, Target, WantedRatio
<1> QED BY <1>1 DEF Following

\* The client's POST, its answer, and the handler's steps.
LEMMA FollowExchange ==
  ASSUME LinkTyped, Accepted(desired), Following, NEW c \in Calls
  PROVE  /\ Post(c) \/ Hear(c) => Following'
         /\ Handle(c) => UNCHANGED client /\ Following'
<1>1. /\ CallsOK /\ ClientOK /\ FecOK /\ waiting \in Calls \cup {NoCall} /\ NoCall \notin Calls
      /\ desired \in Settings /\ c # NoCall /\ steady \in Nat
  BY LinkInputs DEF LinkTyped, CallsOK, ClientOK
<1>2. ASSUME Post(c) PROVE Following'
  <2>1. /\ calls'[c] = [at |-> "net", setting |-> desired] /\ waiting' = c /\ ~due'
        /\ UNCHANGED <<desired, fec, loop, relayRt, last, relayRatio, ticked, steady>>
    BY <1>1, <1>2, Sends DEF Post, relay, pace
  <2>2. Posted'
    BY <1>1, <2>1 DEF Posted, Heard, HeardNow
  <2> QED BY <2>1, <2>2, FollowStays
<1>3. ASSUME Hear(c) PROVE Following'
  <2>1. /\ waiting = c /\ waiting' = NoCall /\ calls[c].at \in {"answered", "refused"}
        /\ UNCHANGED <<due, desired, fec, loop, relayRt, last, relayRatio, ticked, steady>>
    BY <1>3 DEF Hear, relay, pace
  <2>2. Posted => Posted'
    BY <1>1, <2>1 DEF Posted, Heard, HeardNow, Told
  <2> QED BY <2>1, <2>2, FollowStays
<1>4. ASSUME Handle(c), waiting # c PROVE UNCHANGED client /\ Following'
  <2>1. /\ UNCHANGED client /\ \A d \in Calls \ {c} : calls'[d] = calls[d]
        /\ UNCHANGED <<relay, alone, pace>> \/ steady' = 0
    BY <1>4, Interferes
  <2>2. CASE UNCHANGED <<relay, pace>>
    <3>1. UNCHANGED <<desired, waiting, due, fec, loop, relayRt, last, relayRatio, ticked, steady>>
      BY <2>1, <2>2 DEF client, relay, pace
    <3>2. Posted => Posted'
      BY <1>1, <1>4, <2>1, <3>1 DEF Posted, Heard, HeardNow, Told
    <3> QED BY <2>1, <3>1, <3>2, FollowStays
  <2>3. CASE steady' = 0
    BY <2>1, <2>3 DEF Following
  <2> QED BY <2>1, <2>2, <2>3
<1>5. ASSUME Handle(c), waiting = c PROVE UNCHANGED client /\ Following'
  <2>1. PICK s : s = calls[c].setting
    OBVIOUS
  <2>2. /\ UNCHANGED client /\ UNCHANGED <<loop, relayRt, last, relayRatio, ticked, steady>>
        /\ calls'[c].setting = s /\ (calls'[c].at = "refused" => ~Accepted(s))
        /\ fec'.lossAge \in {0, fec.lossAge} /\ fec'.linkAge \in {0, fec.linkAge}
    BY <1>5, <2>1, Tells
  <2>3. /\ Heard(s, calls[c].at) => Heard(s, calls[c].at)'
        /\ HeardNow(calls[c].at) => HeardNow(calls[c].at)'
        /\ Told(s) => Told(s)'
    BY <1>5, <2>1, Tells
  <2>4. s = desired => Accepted(s) /\ s = desired'
    BY <2>2 DEF client
  <2>5. Posted => Posted' /\ s = desired
    <3> SUFFICES ASSUME Posted PROVE Posted' /\ s = desired
      OBVIOUS
    <3>1. s = desired /\ ~due /\ Heard(s, calls[c].at) /\ HeardNow(calls[c].at)
      BY <1>1, <1>5, <2>1 DEF Posted
    <3>2. /\ waiting' = c /\ due' = due /\ calls'[c].at # "refused" /\ calls'[c].setting = desired'
      BY <1>1, <1>5, <2>2, <2>4, <3>1 DEF client
    <3>3. Heard(desired, calls[c].at)' /\ HeardNow(calls[c].at)'
      BY <2>3, <2>4, <3>1 DEF Heard
    <3> QED BY <1>1, <3>1, <3>2, <3>3 DEF Posted
  <2>6. Posted /\ Fresh => Fresh'
    <3>1. fec.lossAge \in Nat /\ fec.linkAge \in Nat
      BY <1>1, LinkInputs DEF FecOK
    <3> QED BY <2>2, <2>3, <2>4, <2>5, <3>1 DEF Fresh, Told
  <2>7. (Reads => Reads') /\ (Nears => Nears')
    BY <2>2 DEF client, Reads, Nears, Target, WantedRatio
  <2> QED BY <1>1, <2>2, <2>5, <2>6, <2>7 DEF Following
<1> QED BY <1>2, <1>3, <1>4, <1>5

\* A unit of time, and what it brings.
LEMMA FollowElapse ==
  ASSUME LinkTyped, Follows, Elapse
  PROVE  Follows'
<1>1. /\ StaleAfter \in Nat \ {0} /\ UpTicks[last] \in Nat \ {0} /\ DownHold[last] \in Nat \ {0}
      /\ FollowTime \in Nat /\ UpTicks[last] + 3 <= FollowTime /\ DownHold[last] + 3 <= FollowTime
      /\ StaleAfter + 3 <= FollowTime /\ steady \in 0 .. FollowTime
      /\ fec.lossAge \in 0 .. StaleAfter + 1 /\ fec.linkAge \in 0 .. StaleAfter + 1
      /\ FecOK /\ LevelOK /\ desired \in Settings
  BY LinkInputs DEF LinkTyped, FecOK, ClientOK, LevelOK
<1>2. /\ last' = last /\ relayRatio' = relayRatio
      /\ relayRt'.level = relayRt.level /\ relayRt'.streak = relayRt.streak
      /\ relayRt'.since = (IF relayRt.since < DownHold[last] THEN relayRt.since + 1
                             ELSE DownHold[last])
      /\ fec'.policy = fec.policy /\ fec'.loss = fec.loss /\ fec'.link = fec.link
      /\ fec'.lossAge = (IF fec.lossAge <= StaleAfter THEN fec.lossAge + 1 ELSE StaleAfter + 1)
      /\ fec'.linkAge = (IF fec.linkAge <= StaleAfter THEN fec.linkAge + 1 ELSE StaleAfter + 1)
      /\ steady' = (IF steady < FollowTime THEN steady + 1 ELSE FollowTime)
  BY <1>1, TimePasses
<1>3. /\ UNCHANGED <<running, desired, waiting, loop>> /\ ticked = TRUE /\ ticked' = FALSE
      /\ due' = TRUE /\ (running => waiting = NoCall /\ ~(due /\ ShouldPost))
  BY DEF Elapse
<1>4. CASE ~running
  <2>1. waiting = NoCall /\ Forgotten(fec.lossAge) /\ Forgotten(fec.linkAge)
    BY <1>4 DEF Follows
  <2>2. Forgotten(fec.lossAge)' /\ Forgotten(fec.linkAge)'
    BY <1>1, <1>2, <2>1 DEF Forgotten
  <2> QED BY <1>3, <1>4, <2>1, <2>2 DEF Follows
<1>5. CASE running
  <2> SUFFICES ASSUME Accepted(desired) PROVE Following'
    BY <1>3, <1>5 DEF Follows
  <2>1. Following
    BY <1>5 DEF Follows
  <2>2. ~due
    BY <1>3, <1>5 DEF ShouldPost
  <2>3. Posted'
    BY <1>3, <1>5 DEF Posted
  <2>4. steady >= 1 => Fresh'
    <3>1. Posted => Told(desired) /\ fec.lossAge = 0 /\ fec.linkAge = 0
      BY <1>3, <1>5, <2>2 DEF Posted
    <3> QED BY <1>1, <1>2, <1>3, <2>1, <3>1 DEF Following, Fresh, Told
  <2>5. steady >= 2 => Reads /\ Reads'
    BY <1>1, <1>2, <1>3, <2>1 DEF Following, Reads
  <2>6. steady >= 2 => Nears'
    <3> SUFFICES ASSUME steady >= 2 PROVE Nears'
      OBVIOUS
    <3>1. /\ Target \in Nat /\ relayRt.level \in Nat /\ relayRt.streak \in 0 .. UpTicks[last] - 1
          /\ relayRt.since \in 0 .. DownHold[last]
      BY <2>5, Targets DEF Reads
    <3>2. Target' = Target /\ WantedRatio(desired)' = WantedRatio(desired)
      BY <1>3 DEF Target, WantedRatio
    <3>3. steady = 2 => steady' = 3
      BY <1>1, <1>2
    <3>4. CASE relayRt.level = Target
      <4>1. steady = 2 \/ relayRatio = WantedRatio(desired)
        BY <1>1, <1>3, <2>1, <3>1, <3>4 DEF Following, Nears
      <4> QED BY <1>2, <1>3, <3>2, <3>3, <3>4, <4>1 DEF Nears
    <3>5. CASE relayRt.level < Target
      <4>1. relayRt.streak + 3 >= steady + 1
        BY <1>1, <1>3, <2>1, <3>1, <3>5 DEF Following, Nears
      <4>2. relayRt'.level < Target' /\ relayRt'.streak + 3 >= steady'
        BY <1>1, <1>2, <3>1, <3>2, <3>5, <4>1
      <4>3. relayRt'.streak + 3 >= steady' + (IF ticked' THEN 1 ELSE 0)
        BY <1>1, <1>2, <1>3, <4>2
      <4> QED BY <4>2, <4>3 DEF Nears
    <3>6. CASE relayRt.level > Target
      <4>1. ASSUME steady # 2 PROVE relayRt.since + 2 >= steady /\ relayRt.since < DownHold[last]
        <5>1. Nears
          BY <1>1, <2>1, <4>1 DEF Following
        <5>2. relayRt.level # Target /\ ~(relayRt.level < Target)
          BY <3>1, <3>6
        <5> QED BY <1>3, <5>1, <5>2 DEF Nears
      <4>2. relayRt'.level > Target' /\ relayRt'.since + 2 >= steady'
        BY <1>1, <1>2, <3>1, <3>2, <3>6, <4>1
      <4> QED BY <1>3, <4>2 DEF Nears
    <3> QED BY <3>1, <3>4, <3>5, <3>6
  <2>7. /\ steady' >= 2 => steady >= 1
        /\ steady' >= 3 \/ (steady' = 2 /\ ticked') => steady >= 2
    BY <1>1, <1>2, <1>3
  <2>8. steady' >= 3 => steady >= 2
    BY <2>7
  <2> QED BY <2>3, <2>4, <2>5, <2>6, <2>7, <2>8 DEF Following
<1> QED BY <1>4, <1>5

\* Each step keeps what the steady time has brought.
LEMMA FollowStep ==
  ASSUME LinkTyped, Follows, [LinkNext]_linkVars
  PROVE  Follows'
<1>1. /\ running \in BOOLEAN /\ waiting \in Calls \cup {NoCall} /\ NoCall \notin Calls
      /\ steady \in Nat /\ fec.lossAge \in Nat /\ fec.linkAge \in Nat
      /\ waiting # NoCall => running
  BY LinkInputs DEF LinkTyped, CallsOK, ClientOK, FecOK, Follows
<1>2. fec'.lossAge \in Nat /\ fec'.linkAge \in Nat
  BY LinkTypeStep, LinkInputs DEF LinkTyped, FecOK
<1>3. steady' = 0 /\ (~running' => waiting' = NoCall) => Follows'
  BY <1>2 DEF Follows, Following, Forgotten
<1>4. CASE Wants \/ GiveUp \/ Stop \/ Start \/ RelayRestart
  <2>1. steady' = 0 /\ (~running' => waiting' = NoCall)
    BY <1>1, <1>4 DEF Wants, GiveUp, Stop, Start, RelayRestart, Spends
  <2> QED BY <1>3, <2>1
<1>5. ASSUME NEW c \in Calls, Retry(c) \/ Lose(c) PROVE Follows'
  <2>1. steady' = 0 /\ (~running' => waiting' = NoCall)
    BY <1>1, <1>5 DEF Retry, Lose, Spends, SendAs
  <2> QED BY <1>3, <2>1
<1>6. ASSUME NEW c \in Calls, Post(c) \/ Hear(c) PROVE Follows'
  <2>1. running /\ running' /\ desired' = desired
    BY <1>1, <1>6 DEF Post, Hear
  <2> QED BY <1>6, <2>1, FollowExchange DEF Follows
<1>7. ASSUME NEW c \in Calls, Handle(c) PROVE Follows'
  <2>1. CASE running /\ Accepted(desired)
    <3>1. UNCHANGED client /\ Following'
      BY <1>7, <2>1, FollowExchange DEF Follows
    <3> QED BY <2>1, <3>1 DEF Follows, client
  <2>2. CASE running /\ ~Accepted(desired)
    <3>1. UNCHANGED client
      BY <1>7, Tells, Interferes
    <3> QED BY <2>2, <3>1 DEF Follows, client, Accepted
  <2>3. CASE ~running
    <3>1. waiting = NoCall /\ waiting # c /\ Forgotten(fec.lossAge) /\ Forgotten(fec.linkAge)
      BY <1>1, <2>3 DEF Follows
    <3>2. UNCHANGED client /\ (UNCHANGED <<relay, alone, pace>> \/ steady' = 0)
      BY <1>7, <3>1, Interferes
    <3>3. CASE UNCHANGED <<relay, pace>>
      BY <2>3, <3>1, <3>2, <3>3 DEF Follows, Forgotten, client, relay, pace
    <3>4. CASE steady' = 0
      BY <1>3, <3>1, <3>2, <3>4 DEF client
    <3> QED BY <3>2, <3>3, <3>4
  <2> QED BY <1>1, <2>1, <2>2, <2>3
<1>8. CASE Loop
  <2>1. UNCHANGED <<running, desired, waiting, fec>> /\ steady' \in {0, steady}
    BY <1>8 DEF Loop, ReadDesired, ReadLoss, RunOnce, client, pace, Spends
  <2>2. CASE running
    <3>1. Accepted(desired)' => Following'
      BY <1>8, <2>1, <2>2, FollowLoop DEF Follows, Accepted
    <3> QED BY <2>1, <2>2, <3>1 DEF Follows
  <2>3. CASE ~running
    BY <1>1, <2>1, <2>3 DEF Follows, Forgotten
  <2> QED BY <1>1, <2>2, <2>3
<1>9. CASE Elapse
  BY <1>9, FollowElapse
<1>10. CASE UNCHANGED linkVars
  <2>1. UNCHANGED <<running, desired, due, waiting, calls, fec, loop, relayRt, last, relayRatio,
                    ticked, steady>>
    BY <1>10 DEF linkVars, client, relay, pace
  <2>2. Following => Following'
    <3>1. Posted => Posted'
      BY <2>1 DEF Posted, Heard, HeardNow, Told
    <3> QED BY <2>1, <3>1, FollowStays
  <2> QED BY <2>1, <2>2 DEF Follows, Forgotten, Accepted
<1> QED BY <1>4, <1>5, <1>6, <1>7, <1>8, <1>9, <1>10 DEF LinkNext, Exchange

\* The relay does what is wanted within FollowTime units of steady time, whatever
\* was lost, delayed, repeated or restarted before; and of a client gone that long
\* it uses nothing (the heartbeat of post_relay_fec, pushed_loss_stale_after_s).
THEOREM FollowsSoon == LinkSpec => []FollowsInTime
<1>1. LinkInit => Follows
  BY DEF LinkInit, Follows, Following
<1>2. LinkTyped /\ Follows => FollowsInTime
  <2> SUFFICES ASSUME LinkTyped, Follows, steady = FollowTime
               PROVE  IF running THEN Accepted(desired) =>
                           Told(desired) /\ relayRatio = WantedRatio(desired)
                      ELSE PushedLoss = Unset /\ PushedLink = NoLink
    BY DEF FollowsInTime
  <2>1. /\ StaleAfter \in Nat /\ UpTicks[last] \in Nat \ {0} /\ DownHold[last] \in Nat
        /\ FollowTime \in Nat /\ UpTicks[last] + 3 <= FollowTime /\ DownHold[last] + 3 <= FollowTime
        /\ StaleAfter + 3 <= FollowTime /\ FollowTime >= 4
        /\ fec.lossAge \in 0 .. StaleAfter + 1 /\ fec.linkAge \in 0 .. StaleAfter + 1
    BY LinkInputs DEF LinkTyped, FecOK, LevelOK
  <2>2. ASSUME running, Accepted(desired)
        PROVE  Told(desired) /\ relayRatio = WantedRatio(desired)
    <3>1. Fresh /\ Reads /\ Nears
      BY <2>1, <2>2 DEF Follows, Following
    <3>2. relayRt.streak \in 0 .. UpTicks[last] - 1 /\ relayRt.since \in 0 .. DownHold[last]
      BY <2>2, <3>1, Targets DEF Reads
    <3>3. ~(relayRt.streak + 3 >= steady + (IF ticked THEN 1 ELSE 0))
      <4>1. relayRt.streak + 3 < FollowTime
        BY <2>1, <3>2
      <4> QED BY <2>1, <3>2, <4>1
    <3>4. ~(relayRt.since + 2 >= steady)
      BY <2>1, <3>2
    <3>5. relayRatio = WantedRatio(desired)
      BY <2>1, <3>1, <3>3, <3>4 DEF Nears
    <3> QED BY <3>1, <3>5 DEF Fresh
  <2>3. ASSUME ~running PROVE PushedLoss = Unset /\ PushedLink = NoLink
    <3>1. fec.lossAge > StaleAfter /\ fec.linkAge > StaleAfter
      BY <2>1, <2>3 DEF Follows, Forgotten
    <3> QED BY <3>1 DEF PushedLoss, PushedLink
  <2> QED BY <2>2, <2>3
<1> QED BY <1>1, <1>2, FollowStep, LinkTypedAlways, PTL DEF LinkSpec
=============================================================================
