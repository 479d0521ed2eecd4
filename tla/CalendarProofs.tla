---------------------------- MODULE CalendarProofs ----------------------------
(***************************************************************************)
(* Proofs about the calendar.  First of one event: that the walk of        *)
(* expandOccurrences finds the days the rule promises, that a query lists  *)
(* them, and that edits and deletions stand (CalendarInv is inductive).    *)
(* Then of the sync: that an event it takes for clean has the content of   *)
(* the remote object its etag names (IInv is inductive).                   *)
(***************************************************************************)
EXTENDS CaldavSync, CalendarEvents, FiniteSetTheorems, TLAPS

---------------------------------------------------------------------------
(* The walk over the days of a series. *)

(* Division with remainder. *)
LEMMA DivMod ==
  ASSUME NEW x \in Int, NEW n \in Nat \ {0}
  PROVE  /\ x \div n \in Int /\ x % n \in 0 .. n - 1
         /\ x % n = x - n * (x \div n)
OBVIOUS

LEMMA DivUnique ==
  ASSUME NEW x \in Int, NEW n \in Nat \ {0}, NEW q \in Int, n * q <= x, x < n * q + n
  PROVE  x \div n = q
OBVIOUS

LEMMA DivShift ==
  ASSUME NEW x \in Int, NEW y \in Int, NEW n \in Nat \ {0}
  PROVE  (x + n * y) \div n = x \div n + y /\ (x + n * y) % n = x % n
<1>1. x \div n \in Int /\ x % n \in 0 .. n - 1 /\ x % n = x - n * (x \div n)  BY DivMod
<1>2. (x + n * y) \div n = x \div n + y  OBVIOUS
<1>3. x + n * y \in Int  OBVIOUS
<1>4. (x + n * y) % n = (x + n * y) - n * (x \div n + y)  BY <1>2, <1>3, DivMod
<1>5. n * (x \div n + y) = n * (x \div n) + n * y  BY <1>1
<1> QED  BY <1>1, <1>2, <1>3, <1>4, <1>5

LEMMA DivMonotone ==
  ASSUME NEW x \in Int, NEW y \in Int, x <= y, NEW n \in Nat \ {0}
  PROVE  x \div n <= y \div n
OBVIOUS

LEMMA TimesMonotone ==
  ASSUME NEW x \in Int, NEW y \in Int, x < y, NEW n \in Nat \ {0}
  PROVE  x * n \in Int /\ y * n \in Int /\ x * n + n <= y * n
OBVIOUS

(* The least element of a nonempty set of naturals, and of two numbers. *)
LEMMA MinFacts ==
  ASSUME NEW T \in SUBSET Nat, T # {}
  PROVE  Min(T) \in T /\ \A y \in T : Min(T) <= y
<1> DEFINE Below == {0 .. y : y \in T}
<1>1. Below \subseteq FiniteSubsetsOf(Nat) /\ Below # {}
  <2>1. ASSUME NEW y \in T PROVE 0 .. y \in SUBSET Nat /\ IsFiniteSet(0 .. y)
    BY FS_Interval
  <2> QED  BY <2>1 DEF FiniteSubsetsOf
<1>2. PICK X \in Below : \A Y \in Below : ~ (<<Y, X>> \in StrictSubsetOrdering(Nat))
  <2> HIDE DEF Below
  <2> QED  BY <1>1, FS_StrictSubsetOrderingWellFounded, WFMin
<1>3. PICK x \in T : X = 0 .. x  BY <1>2
<1>4. ASSUME NEW y \in T PROVE x <= y
  <2> SUFFICES ASSUME y < x PROVE FALSE  BY <1>3
  <2>1. 0 .. y \subseteq 0 .. x /\ x \in 0 .. x /\ x \notin 0 .. y
    BY <1>3
  <2>2. 0 .. y \in SUBSET Nat /\ 0 .. x \in SUBSET Nat /\ 0 .. y # 0 .. x
    BY <2>1
  <2>3. <<0 .. y, 0 .. x>> \in StrictSubsetOrdering(Nat)
    BY <2>1, <2>2 DEF StrictSubsetOrdering
  <2> QED  BY <1>2, <1>3, <2>3
<1> QED  BY <1>3, <1>4 DEF Min

LEMMA Endpoints ==
  ASSUME NEW a \in Int
  PROVE  /\ \A S : S = {a} => Min(S) = a /\ Max(S) = a
         /\ \A S : S = {a, a - 1} => Min(S) = a - 1 /\ Max(S) = a
         /\ Max({0, a}) \in Int /\ Max({0, a}) >= a /\ Max({0, a}) >= 0
BY DEF Min, Max

(* Clocks.  They do not change twice within a day: before a change they    *)
(* have shown the same time for a day.                                     *)
LEMMA SummerFacts ==
  ASSUME NEW z \in DOMAIN Zones, NEW x \in Int, NEW k \in 1 .. SlotsPerDay,
         InSummer(x, z) # InSummer(x - 1, z)
  PROVE  InSummer(x - k, z) <=> ~InSummer(x, z)
<1>0. SlotsPerDay \in Nat \ {0}  BY RecurrenceAssumption
<1>1. \A s \in Zones[z].summers :
          s.gap \in Int /\ s.back \in Int /\ s.gap + SlotsPerDay <= s.back
  BY ZonesAssumption
<1>2. \A s, w \in Zones[z].summers :
          s = w \/ s.back + SlotsPerDay <= w.gap \/ w.back + SlotsPerDay <= s.gap
  BY ZonesAssumption
<1>3. CASE InSummer(x, z)
  <2>1. PICK s \in Zones[z].summers : s.gap <= x /\ x < s.back  BY <1>3 DEF InSummer
  <2>2. s.gap = x
    <3>1. ~(s.gap <= x - 1 /\ x - 1 < s.back)  BY <1>3 DEF InSummer
    <3> QED  BY <1>1, <2>1, <3>1
  <2>3. ASSUME NEW w \in Zones[z].summers, w.gap <= x - k, x - k < w.back
        PROVE  FALSE
    <3>1. s = w \/ s.back + SlotsPerDay <= w.gap \/ w.back + SlotsPerDay <= s.gap  BY <1>2
    <3>2. s.back \in Int /\ w.gap \in Int /\ w.back \in Int  BY <1>1
    <3>3. s # w  BY <1>0, <2>2, <2>3
    <3> QED  BY <1>0, <2>1, <2>2, <2>3, <3>1, <3>2, <3>3
  <2> QED  BY <1>3, <2>3 DEF InSummer
<1>4. CASE ~InSummer(x, z)
  <2>1. PICK s \in Zones[z].summers : s.gap <= x - 1 /\ x - 1 < s.back
    BY <1>4 DEF InSummer
  <2>2. ~(s.gap <= x /\ x < s.back)  BY <1>4 DEF InSummer
  <2>3. s.gap \in Int /\ s.back \in Int /\ s.gap + SlotsPerDay <= s.back  BY <1>1
  <2>4. s.gap <= x - k /\ x - k < s.back  BY <1>0, <2>1, <2>2, <2>3
  <2> QED  BY <1>4, <2>4 DEF InSummer
<1> QED  BY <1>3, <1>4

(* The two corrections give an instant within a slot of the reading in     *)
(* standard time, and where they keep their word the one that is promised. *)
LEMMA Clock ==
  ASSUME NEW z \in DOMAIN Zones, NEW naive \in Int
  PROVE  /\ WallClockToUtc(naive, z) \in {naive - Zones[z].std, naive - Zones[z].std - 1}
         /\ KeepsWord(naive, z) => WallClockToUtc(naive, z) = InstantOf(naive, z)
<1> DEFINE std == Zones[z].std  later == naive - std
<1>1. SlotsPerDay \in Nat \ {0} /\ std \in Int /\ -SlotsPerDay <= std /\ later \in Int
  BY RecurrenceAssumption, ZonesAssumption
<1>2. \A t \in Int : /\ Reading(t, z) = t + Offset(t, z)
                     /\ Offset(t, z) = IF InSummer(t, z) THEN std + 1 ELSE std
  BY <1>1 DEF Offset, Reading
<1>3. /\ later \in ShownAt(naive, z) <=> ~InSummer(later, z)
      /\ later - 1 \in ShownAt(naive, z) <=> InSummer(later - 1, z)
      /\ ShownAt(naive, z) \subseteq {later, later - 1}
  BY <1>1, <1>2 DEF ShownAt
<1>4. std < 0 /\ InSummer(later, z) # InSummer(later - 1, z) =>
          (InSummer(naive, z) <=> ~InSummer(later, z))
  <2> SUFFICES ASSUME std < 0, InSummer(later, z) # InSummer(later - 1, z)
               PROVE  InSummer(naive, z) <=> ~InSummer(later, z)
    OBVIOUS
  <2>1. -std \in 1 .. SlotsPerDay /\ naive = later - (-std)  BY <1>1
  <2> HIDE DEF std, later
  <2> QED  BY <1>1, <2>1, SummerFacts
<1>5. CASE ~InSummer(later, z) /\ ~InSummer(later - 1, z)
  <2>1. ShownAt(naive, z) = {later}  BY <1>1, <1>3, <1>5
  <2>2. InstantOf(naive, z) = later  BY <1>1, <2>1, Endpoints DEF InstantOf
  <2>3. WallClockToUtc(naive, z) = later
    BY <1>1, <1>2, <1>5 DEF WallClockToUtc, Corrected, Revised
  <2> QED  BY <2>2, <2>3
<1>6. CASE InSummer(later, z) /\ InSummer(later - 1, z)
  <2>1. ShownAt(naive, z) = {later - 1}  BY <1>1, <1>3, <1>6
  <2>2. InstantOf(naive, z) = later - 1
    <3>1. \A S : S = {later - 1} => Min(S) = later - 1
      <4>1. later - 1 \in Int  BY <1>1
      <4> HIDE DEF later
      <4> QED  BY <4>1, Endpoints
    <3>2. Min(ShownAt(naive, z)) = later - 1  BY <2>1, <3>1
    <3>3. ShownAt(naive, z) # {}  BY <2>1
    <3> QED  BY <3>2, <3>3 DEF InstantOf
  <2>3. WallClockToUtc(naive, z) = later - 1
    BY <1>1, <1>2, <1>6 DEF WallClockToUtc, Corrected, Revised
  <2> QED  BY <2>2, <2>3
<1>7. CASE InSummer(later, z) /\ ~InSummer(later - 1, z)
  <2>1. ShownAt(naive, z) = {}  BY <1>1, <1>3, <1>7
  <2>2. InstantOf(naive, z) = later  BY <2>1 DEF InstantOf
  <2>3. WallClockToUtc(naive, z) = IF InSummer(naive, z) THEN later - 1 ELSE later
    BY <1>1, <1>2, <1>7 DEF WallClockToUtc, Corrected, Revised
  <2>4. KeepsWord(naive, z) => ~InSummer(naive, z)
    BY <1>4, <1>7, <2>1 DEF KeepsWord, ShownOnce
  <2> QED  BY <2>2, <2>3, <2>4
<1>8. CASE ~InSummer(later, z) /\ InSummer(later - 1, z)
  <2>1. ShownAt(naive, z) = {later, later - 1}  BY <1>1, <1>3, <1>8
  <2>2. InstantOf(naive, z) = later - 1
    <3> HIDE DEF later
    <3> QED  BY <1>1, <2>1, Endpoints DEF InstantOf
  <2>3. WallClockToUtc(naive, z) = IF InSummer(naive, z) THEN later - 1 ELSE later
    BY <1>1, <1>2, <1>8 DEF WallClockToUtc, Corrected, Revised
  <2>4. KeepsWord(naive, z) => InSummer(naive, z)
    <3>1. later # later - 1  BY <1>1
    <3>2. ~ShownOnce(naive, z)  BY <2>1, <3>1 DEF ShownOnce
    <3> QED  BY <1>4, <1>8, <3>2 DEF KeepsWord
  <2> QED  BY <2>2, <2>3, <2>4
<1> QED  BY <1>5, <1>6, <1>7, <1>8

LEMMA MaxFacts ==
  ASSUME NEW T \in SUBSET Nat, T # {}, NEW b \in Nat, \A y \in T : y <= b
  PROVE  Max(T) \in T /\ \A y \in T : y <= Max(T)
<1> DEFINE Under == {b - y : y \in T}
<1>0. \A y \in T : y \in Nat /\ b - y \in Nat  OBVIOUS
<1>1. Under \in SUBSET Nat /\ Under # {}  BY <1>0
<1>2. Min(Under) \in Under /\ \A u \in Under : Min(Under) <= u
  <2> HIDE DEF Under
  <2> QED  BY <1>1, MinFacts
<1>3. PICK x \in T : Min(Under) = b - x  BY <1>2
<1>4. ASSUME NEW y \in T PROVE y <= x
  <2>1. b - x <= b - y  BY <1>2, <1>3
  <2> QED  BY <1>0, <2>1
<1> QED  BY <1>4 DEF Max

(* Days and months. *)
LEMMA DaysFacts ==
  /\ Days \subseteq Nat /\ Max(Days) \in Days /\ Days = 0 .. Max(Days)
  /\ IsFiniteSet(Days) /\ Max(Days) \in Nat
  /\ \A d \in Days : d \in Nat /\ d <= Max(Days)
  /\ \A d \in Nat : d <= Max(Days) => d \in Days
<1>1. PICK last \in Days : Days = 0 .. last  BY CalendarAssumption
<1>2. Days \subseteq Nat /\ last \in Nat  BY CalendarAssumption
<1>3. Max(Days) \in Days /\ \A d \in Days : d <= Max(Days)
  <2>1. Days \in SUBSET Nat /\ Days # {} /\ \A d \in Days : d <= last  BY <1>1, <1>2
  <2> QED  BY <1>2, <2>1, MaxFacts
<1>4. Max(Days) = last
  <2> HIDE DEF Days
  <2> QED  BY <1>1, <1>2, <1>3
<1>5. IsFiniteSet(Days)  BY <1>1, <1>2, FS_Interval
<1>6. \A d \in Nat : d <= last => d \in Days  BY <1>1, <1>2
<1> QED  BY <1>1, <1>2, <1>3, <1>4, <1>5, <1>6

LEMMA MonthFacts ==
  ASSUME NEW m \in 0 .. MonthOf[Max(Days)]
  PROVE  /\ FirstOfMonth[m] \in Days /\ MonthOf[FirstOfMonth[m]] = m
         /\ \A d \in Days : m <= MonthOf[d] => FirstOfMonth[m] <= d
<1> DEFINE its == {d \in Days : MonthOf[d] = m}
<1>1. Days \subseteq Nat /\ Max(Days) \in Days  BY DaysFacts
<1>2. its \in SUBSET Nat /\ its # {}  BY <1>1, CalendarAssumption DEF Days
<1>3. Min(its) \in its /\ \A d \in its : Min(its) <= d
  <2> HIDE DEF its
  <2> QED  BY <1>2, MinFacts
<1>4. FirstOfMonth[m] = Min(its)  BY <1>2 DEF FirstOfMonth
<1>5. ASSUME NEW d \in Days, m <= MonthOf[d] PROVE Min(its) <= d
  <2> SUFFICES ASSUME d < Min(its) PROVE FALSE  BY <1>1, <1>2, <1>3
  <2>1. MonthOf[d] <= MonthOf[Min(its)] /\ MonthOf[d] \in Nat
    BY <1>1, <1>3, CalendarAssumption DEF Days
  <2>2. MonthOf[Min(its)] = m /\ m \in Nat  BY <1>1, <1>3, CalendarAssumption
  <2>3. MonthOf[d] = m  BY <1>5, <2>1, <2>2
  <2> QED  BY <1>1, <1>2, <1>3, <1>5, <2>3
<1> QED  BY <1>3, <1>4, <1>5

LEMMA MonthOfFacts ==
  ASSUME NEW d \in Days
  PROVE  /\ d \in Nat /\ MonthOf[d] \in 0 .. MonthOf[Max(Days)]
         /\ DayOfMonth[d] \in Nat /\ DayOfMonth[d] <= Max(Days) + 1
<1>1. Days \subseteq Nat /\ Max(Days) \in Days /\ Days = 0 .. Max(Days)  BY DaysFacts
<1>2. d \in Nat /\ Max(Days) \in Nat  BY <1>1
<1>0. d \in 0 .. Max(Days)  BY <1>1
<1>3. MonthOf[d] \in 0 .. MonthOf[Max(Days)]
  BY <1>0, <1>1, <1>2, CalendarAssumption
<1>4. FirstOfMonth[MonthOf[d]] \in Days /\ FirstOfMonth[MonthOf[d]] <= d
  BY <1>3, MonthFacts
<1>5. DayOfMonth[d] = d - FirstOfMonth[MonthOf[d]] + 1  BY DEF DayOfMonth
<1> QED  BY <1>1, <1>2, <1>3, <1>4, <1>5

LEMMA LongestMonthIsNat == LongestMonth \in Nat
<1> DEFINE lengths == {DayOfMonth[d] : d \in Days}  b == Max(Days) + 1
<1>1. lengths \in SUBSET Nat /\ lengths # {} /\ b \in Nat /\ \A y \in lengths : y <= b
  <2>1. Max(Days) \in Days /\ Max(Days) \in Nat  BY DaysFacts
  <2>2. \A d \in Days : DayOfMonth[d] \in Nat /\ DayOfMonth[d] <= b  BY MonthOfFacts
  <2> QED  BY <2>1, <2>2
<1>2. Max(lengths) \in lengths
  <2> HIDE DEF lengths, b
  <2> QED  BY <1>1, MaxFacts
<1> QED  BY <1>1, <1>2 DEF LongestMonth

LEMMA LongestYearIsNat == LongestYear \in Nat
<1> DEFINE first(d) == FirstOfMonth[Year(d) * MonthsPerYear]
           lengths == {d - first(d) + 1 : d \in Days}  b == Max(Days) + 1
<1>1. Max(Days) \in Days /\ Max(Days) \in Nat  BY DaysFacts
<1>2. ASSUME NEW d \in Days PROVE d - first(d) + 1 \in Nat /\ d - first(d) + 1 <= b
  <2> DEFINE m == Year(d) * MonthsPerYear
  <2>1. d \in Nat /\ d <= Max(Days) /\ MonthOf[d] \in 0 .. MonthOf[Max(Days)]
    BY DaysFacts, MonthOfFacts
  <2>2. m \in Nat /\ m <= MonthOf[d]
    <3>1. MonthsPerYear \in Nat \ {0} /\ MonthOf[d] \in Nat  BY <2>1, RecurrenceAssumption
    <3> HIDE DEF Days
    <3>2. \A x \in Nat, n \in Nat \ {0} : (x \div n) * n \in Nat /\ (x \div n) * n <= x
      OBVIOUS
    <3> QED  BY <3>1, <3>2 DEF Year
  <2>3. m \in 0 .. MonthOf[Max(Days)]
    <3>1. MonthOf[Max(Days)] \in Nat  BY <1>1, CalendarAssumption
    <3> HIDE DEF m
    <3> QED  BY <2>1, <2>2, <3>1
  <2>4. first(d) \in Days /\ first(d) <= d
    <3> HIDE DEF m
    <3>1. FirstOfMonth[m] \in Days /\ FirstOfMonth[m] <= d  BY <2>2, <2>3, MonthFacts
    <3> QED  BY <3>1 DEF m
  <2>5. first(d) \in Nat  BY <2>4, DaysFacts
  <2> HIDE DEF first
  <2> QED  BY <1>1, <2>1, <2>4, <2>5
<1>3. lengths \in SUBSET Nat /\ lengths # {} /\ b \in Nat /\ \A y \in lengths : y <= b
  <2> HIDE DEF first
  <2> QED  BY <1>1, <1>2
<1>4. Max(lengths) \in lengths
  <2> HIDE DEF lengths, b
  <2> QED  BY <1>3, MaxFacts
<1> QED  BY <1>3, <1>4 DEF LongestYear

(* Where a row is in time: on which day and at what time its zone's clocks *)
(* show it, and when its occurrence on a day starts.                       *)
InTime(e) == e.at \in Int /\ e.zone \in DOMAIN Zones

LEMMA SeedFacts ==
  ASSUME NEW e, InTime(e)
  PROVE  /\ SeedDay(e) \in Int /\ WallTime(e) \in 0 .. SlotsPerDay - 1
         /\ SeedDay(e) * SlotsPerDay + WallTime(e) = Reading(e.at, e.zone)
         /\ Reading(e.at, e.zone) \in Int
<1>1. SlotsPerDay \in Nat \ {0}  BY RecurrenceAssumption
<1>2. Reading(e.at, e.zone) \in Int  BY ZonesAssumption DEF InTime, Reading, Offset
<1> DEFINE x == Reading(e.at, e.zone)
<1> HIDE DEF x
<1>3. /\ x \div SlotsPerDay \in Int /\ x % SlotsPerDay \in 0 .. SlotsPerDay - 1
      /\ x % SlotsPerDay = x - SlotsPerDay * (x \div SlotsPerDay)
  BY <1>1, <1>2, DivMod DEF x
<1>4. SlotsPerDay * (x \div SlotsPerDay) = (x \div SlotsPerDay) * SlotsPerDay
  BY <1>1, <1>3
<1>5. SeedDay(e) = x \div SlotsPerDay /\ WallTime(e) = x % SlotsPerDay
  BY DEF SeedDay, WallTime, x
<1> HIDE DEF x
<1>6. x \in Int /\ x = Reading(e.at, e.zone)  BY <1>2 DEF x
<1> QED  BY <1>1, <1>3, <1>4, <1>5, <1>6

LEMMA StartFacts ==
  ASSUME NEW e, InTime(e), NEW d \in Int
  PROVE  /\ StartOn(e, d) \in Int
         /\ (d - 1) * SlotsPerDay <= StartOn(e, d) /\ StartOn(e, d) < (d + 2) * SlotsPerDay
         /\ d * SlotsPerDay + WallTime(e) - Zones[e.zone].std - 1 <= StartOn(e, d)
         /\ StartOn(e, d) <= d * SlotsPerDay + WallTime(e) - Zones[e.zone].std
         /\ KeepsWord(d * SlotsPerDay + WallTime(e), e.zone) => StartOn(e, d) = InstantOn(e, d)
<1> DEFINE n == d * SlotsPerDay + WallTime(e)
<1>1. SlotsPerDay \in Nat \ {0} /\ WallTime(e) \in 0 .. SlotsPerDay - 1
  BY RecurrenceAssumption, SeedFacts
<1>2. n \in Int /\ d * SlotsPerDay \in Int  BY <1>1
<1>3. /\ WallClockToUtc(n, e.zone) \in {n - Zones[e.zone].std, n - Zones[e.zone].std - 1}
      /\ KeepsWord(n, e.zone) => WallClockToUtc(n, e.zone) = InstantOf(n, e.zone)
  <2> HIDE DEF n
  <2> QED  BY <1>2, Clock DEF InTime
<1>4. StartOn(e, d) = WallClockToUtc(n, e.zone) /\ InstantOn(e, d) = InstantOf(n, e.zone)
  BY DEF StartOn, InstantOn
<1>5. /\ (d - 1) * SlotsPerDay = d * SlotsPerDay - SlotsPerDay
      /\ (d + 2) * SlotsPerDay = d * SlotsPerDay + 2 * SlotsPerDay
  BY <1>1
<1>6. /\ Zones[e.zone].std \in Int /\ -SlotsPerDay <= Zones[e.zone].std
      /\ Zones[e.zone].std < SlotsPerDay
  BY ZonesAssumption DEF InTime
<1>7. n = d * SlotsPerDay + WallTime(e)  OBVIOUS
<1> HIDE DEF n
<1> QED  BY <1>1, <1>2, <1>3, <1>4, <1>5, <1>6, <1>7

LEMMA StartMonotone ==
  ASSUME NEW e, InTime(e), NEW c \in Int, NEW d \in Int, c < d
  PROVE  StartOn(e, c) < StartOn(e, d)
<1>1. SlotsPerDay \in Nat \ {0} /\ SlotsPerDay > 1 /\ WallTime(e) \in 0 .. SlotsPerDay - 1
  BY RecurrenceAssumption, SeedFacts
<1>2. c * SlotsPerDay \in Int /\ d * SlotsPerDay \in Int
      /\ c * SlotsPerDay + SlotsPerDay <= d * SlotsPerDay
  BY <1>1, TimesMonotone
<1>3. Zones[e.zone].std \in Int  BY ZonesAssumption DEF InTime
<1>4. /\ StartOn(e, c) \in Int /\ StartOn(e, d) \in Int
      /\ StartOn(e, c) <= c * SlotsPerDay + WallTime(e) - Zones[e.zone].std
      /\ d * SlotsPerDay + WallTime(e) - Zones[e.zone].std - 1 <= StartOn(e, d)
  BY StartFacts
<1> QED  BY <1>1, <1>2, <1>3, <1>4

LEMMA OwnStartFacts ==
  ASSUME NEW e, InTime(e)
  PROVE  OwnStart(e) \in Int /\ (Dependable(e) => OwnStart(e) = e.at)
<1>1. /\ SeedDay(e) \in Int
      /\ SeedDay(e) * SlotsPerDay + WallTime(e) = Reading(e.at, e.zone)
  BY SeedFacts
<1>2. OwnStart(e) = StartOn(e, SeedDay(e))  BY DEF OwnStart
<1>3. StartOn(e, SeedDay(e)) \in Int  BY <1>1, StartFacts
<1>4. ASSUME Dependable(e) PROVE OwnStart(e) = e.at
  <2>1. KeepsWord(SeedDay(e) * SlotsPerDay + WallTime(e), e.zone)  BY <1>4 DEF Dependable
  <2>2. StartOn(e, SeedDay(e)) = InstantOn(e, SeedDay(e))  BY <1>1, <2>1, StartFacts
  <2> QED  BY <1>1, <1>2, <1>4, <2>2 DEF InstantOn, Dependable
<1> QED  BY <1>2, <1>3, <1>4

(* Rules.  Counting periods from the seed, as the code does, is comparing   *)
(* the periods two days are in.                                            *)
LEMMA WeekFacts ==
  ASSUME NEW d \in Int, NEW start \in Int
  PROVE  /\ (d - start) \div DaysPerWeek \in Int
         /\ WeekOf(d, start) = start + DaysPerWeek * ((d - start) \div DaysPerWeek)
         /\ (d - start + DaysPerWeek) \div DaysPerWeek = (d - start) \div DaysPerWeek + 1
<1> DEFINE W == DaysPerWeek  x == d - start  k == -(d \div W)
<1>1. W \in Nat \ {0} /\ x \in Int  BY RecurrenceAssumption
<1>2. k \in Int /\ d % W = d + W * k  BY <1>1, DivMod
<1>3. (x + W * k) % W = x % W /\ (x + W) \div W = x \div W + 1
  <2> HIDE DEF x, k, W
  <2>1. (x + W * k) % W = x % W  BY <1>1, <1>2, DivShift
  <2>2. (x + W) \div W = x \div W + 1  BY <1>1
  <2> QED  BY <2>1, <2>2
<1>4. x \div W \in Int /\ x % W = x - W * (x \div W)  BY <1>1, DivMod
<1>5. Weekday(d) - start = x + W * k  BY <1>1, <1>2 DEF Weekday
<1>6. WeekOf(d, start) = d - (x - W * (x \div W))  BY <1>3, <1>4, <1>5 DEF WeekOf
<1>7. W * (x \div W) \in Int  BY <1>1, <1>4
<1> HIDE DEF k
<1> QED  BY <1>1, <1>3, <1>4, <1>6, <1>7

LEMMA PeriodFacts ==
  ASSUME NEW rule \in Rules, NEW seed \in Days, NEW d \in Days, seed <= d
  PROVE  /\ Periods(rule, seed, d) = PeriodOf(rule, d) - PeriodOf(rule, seed)
         /\ Periods(rule, seed, d) >= 0
<1>1. seed \in Nat /\ d \in Nat /\ MonthOf[seed] \in Nat /\ MonthOf[d] \in Nat
      /\ MonthOf[seed] <= MonthOf[d]
  BY DaysFacts, CalendarAssumption
<1>2. rule.freq \in {"DAILY", "WEEKLY", "MONTHLY", "YEARLY"} /\ rule.weekStart \in Int
  BY DEF Rules
<1>3. CASE rule.freq = "DAILY"  BY <1>1, <1>3 DEF Periods, PeriodOf
<1>4. CASE rule.freq = "WEEKLY"
  <2> DEFINE W == DaysPerWeek  a == (seed - rule.weekStart) \div W
                               b == (d - rule.weekStart) \div W
  <2>1. W \in Nat \ {0}  BY RecurrenceAssumption
  <2>0. \A x, w \in Int : /\ (x - w) \div W \in Int
                          /\ WeekOf(x, w) = w + W * ((x - w) \div W)
                          /\ (x - w + W) \div W = (x - w) \div W + 1
    BY WeekFacts
  <2> HIDE DEF W
  <2>2. /\ a \in Int /\ WeekOf(seed, rule.weekStart) = rule.weekStart + W * a
        /\ (seed - rule.weekStart + W) \div W = a + 1
    <3> seed \in Int  BY <1>1
    <3> QED  BY <1>2, <2>0
  <2>3. /\ b \in Int /\ WeekOf(d, rule.weekStart) = rule.weekStart + W * b
        /\ (d - rule.weekStart + W) \div W = b + 1
    <3> d \in Int  BY <1>1
    <3> QED  BY <1>2, <2>0
  <2>4. a <= b
    <3>1. seed - rule.weekStart \in Int /\ d - rule.weekStart \in Int
          /\ seed - rule.weekStart <= d - rule.weekStart
      BY <1>1, <1>2
    <3> QED  BY <2>1, <3>1, DivMonotone
  <2> HIDE DEF a, b, W
  <2>5. W * (b - a) = W * b - W * a /\ W * a \in Int /\ W * b \in Int /\ b - a \in Int
    BY <2>1, <2>2, <2>3
  <2>6. (W * (b - a)) \div W = b - a  BY <2>1, <2>5, DivUnique
  <2>7. WeekOf(d, rule.weekStart) - WeekOf(seed, rule.weekStart) = W * (b - a)
    BY <1>2, <2>2, <2>3, <2>5
  <2>8. Periods(rule, seed, d) = b - a  BY <1>4, <2>6, <2>7 DEF Periods, W
  <2>9. PeriodOf(rule, d) = b + 1 /\ PeriodOf(rule, seed) = a + 1
    BY <1>4, <2>2, <2>3 DEF PeriodOf, W
  <2> QED  BY <2>2, <2>3, <2>4, <2>8, <2>9
<1>5. CASE rule.freq = "MONTHLY"  BY <1>1, <1>5 DEF Periods, PeriodOf
<1>6. CASE rule.freq = "YEARLY"
  <2>1. MonthsPerYear \in Nat \ {0}  BY RecurrenceAssumption
  <2>2. Year(seed) \in Int /\ Year(d) \in Int /\ Year(seed) <= Year(d)
    <3> DEFINE x == MonthOf[seed]  y == MonthOf[d]
    <3>1. x \in Int /\ y \in Int /\ x <= y  BY <1>1
    <3> HIDE DEF x, y
    <3>2. x \div MonthsPerYear \in Int /\ y \div MonthsPerYear \in Int
          /\ x \div MonthsPerYear <= y \div MonthsPerYear
      BY <2>1, <3>1, DivMonotone, DivMod
    <3> QED  BY <3>2 DEF Year, x, y
  <2> QED  BY <1>6, <2>2 DEF Periods, PeriodOf
<1> QED  BY <1>2, <1>3, <1>4, <1>5, <1>6

LEMMA SelectedFacts ==
  ASSUME NEW e, e.rule \in Rules, SeedDay(e) \in Days
  PROVE  Selected(e) = {d \in Days : SeedDay(e) <= d /\ Matches(e.rule, SeedDay(e), d)}
<1>1. ASSUME NEW d \in Days, SeedDay(e) <= d
      PROVE  IntervalFits(e.rule, SeedDay(e), d) <=>
                (PeriodOf(e.rule, d) - PeriodOf(e.rule, SeedDay(e))) % e.rule.interval = 0
  BY <1>1, PeriodFacts DEF IntervalFits
<1>2. \A d \in Days : d >= SeedDay(e) <=> SeedDay(e) <= d  BY DaysFacts
<1> QED  BY <1>1, <1>2 DEF Selected, Matches

(* The jump: never past a day the range may need, and never back.          *)
LEMMA AlignedFacts ==
  ASSUME NEW n \in Nat, NEW step \in Nat \ {0}
  PROVE  Aligned(n, step) \in Nat /\ Aligned(n, step) <= n
<1> DEFINE q == n \div step
<1>1. q \in Int /\ n % step \in 0 .. step - 1 /\ n % step = n - step * q  BY DivMod
<1>2. 0 \div step = 0 /\ 0 \div step <= q  BY DivUnique, DivMonotone
<1> HIDE DEF q
<1>3. q \in Nat /\ q * step = step * q /\ q * step \in Nat  BY <1>1, <1>2
<1>4. Aligned(n, step) = q * step  BY DEF Aligned, q
<1> QED  BY <1>1, <1>3, <1>4

LEMMA JumpFacts ==
  ASSUME NEW rule \in Rules, NEW seed \in Days, NEW target \in Int,
         target <= Max(Days) * SlotsPerDay
  PROVE  /\ FastForward(rule, seed, target) \in Int
         /\ seed <= FastForward(rule, seed, target)
         /\ \A d \in Days : seed <= d /\ target <= d * SlotsPerDay
                               => FastForward(rule, seed, target) <= d
<1> DEFINE S == SlotsPerDay  t == target \div S
           jump == FastForward(rule, seed, target)
<1>1. S \in Nat \ {0} /\ DaysPerWeek \in Nat \ {0} /\ MonthsPerYear \in Nat \ {0}
  BY RecurrenceAssumption
<1>2. seed \in Nat /\ Days \subseteq Nat /\ Max(Days) \in Days /\ Days = 0 .. Max(Days)
  BY DaysFacts
<1>3. rule.interval \in Nat \ {0} /\ rule.freq \in {"DAILY", "WEEKLY", "MONTHLY", "YEARLY"}
  BY DEF Rules
<1>0. /\ \A d \in Days : d \in Nat /\ d <= Max(Days)
      /\ \A d \in Nat : d <= Max(Days) => d \in Days
      /\ Max(Days) \in Nat
  BY DaysFacts
<1>4. CASE target <= seed * S
  <2>1. jump = seed
    <3>1. target <= seed * SlotsPerDay  BY <1>4
    <3> QED  BY <3>1 DEF FastForward
  <2> HIDE DEF jump
  <2>2. seed \in Int /\ seed <= jump  BY <1>2, <2>1
  <2> QED  BY <2>1, <2>2 DEF jump
<1>5. CASE ~(target <= seed * S)
  <2>1. \A d \in Nat : d * S \in Int /\ (d * S) \div S = d
    <3> SUFFICES ASSUME NEW d \in Nat PROVE d * S \in Int /\ (d * S) \div S = d  OBVIOUS
    <3>1. d * S \in Int /\ S * d = d * S  BY <1>1
    <3> QED  BY <1>1, <3>1, DivUnique
  <2>2. t \in Int /\ seed <= t /\ \A d \in Days : target <= d * S => t <= d
    <3>1. t \in Int  BY <1>1, DivMod
    <3>2. seed * S \in Int /\ seed * S <= target /\ (seed * S) \div S = seed
      BY <1>2, <1>5, <2>1
    <3>3. seed <= t  BY <1>1, <3>2, DivMonotone
    <3>4. ASSUME NEW d \in Days, target <= d * S PROVE t <= d
      <4>1. d * S \in Int /\ (d * S) \div S = d  BY <1>2, <2>1
      <4> QED  BY <1>1, <3>4, <4>1, DivMonotone
    <3> QED  BY <3>1, <3>3, <3>4
  <2>3. t \in Days
    <3>1. t <= Max(Days)  BY <1>0, <2>2
    <3> HIDE DEF t
    <3>2. t \in Nat  BY <1>2, <2>2
    <3> QED  BY <1>0, <3>1, <3>2
  <2> HIDE DEF t
  <2>4. jump \in Int /\ seed <= jump /\ jump <= t
    <3>1. CASE rule.freq = "DAILY"
      <4>1. t - seed \in Nat  BY <1>2, <2>2
      <4>2. Aligned(t - seed, rule.interval) \in Nat /\ Aligned(t - seed, rule.interval) <= t - seed
        BY <1>3, <4>1, AlignedFacts
      <4>3. jump = seed + Aligned(t - seed, rule.interval)
        BY <1>5, <3>1 DEF FastForward, t
      <4> QED  BY <1>2, <2>2, <4>2, <4>3
    <3>2. CASE rule.freq = "WEEKLY"
      <4> DEFINE W == DaysPerWeek  w == (t - seed) \div W  a == Aligned(w, rule.interval)
      <4>1. t - seed \in Nat  BY <1>2, <2>2
      <4>2. w \in Int /\ (t - seed) % W \in 0 .. W - 1 /\ (t - seed) % W = (t - seed) - W * w
        <5> DEFINE x == t - seed
        <5> HIDE DEF x
        <5>1. x \in Int  BY <4>1 DEF x
        <5>2. x \div W \in Int /\ x % W \in 0 .. W - 1 /\ x % W = x - W * (x \div W)
          BY <1>1, <5>1, DivMod
        <5> QED  BY <5>2 DEF x
      <4>3. 0 \div W = 0 /\ 0 \div W <= w  BY <1>1, <4>1, DivUnique, DivMonotone
      <4>4. a \in Nat /\ a <= w  BY <1>3, <4>2, <4>3, AlignedFacts
      <4>5. jump = seed + W * a
        BY <1>5, <3>2 DEF FastForward, t
      <4> HIDE DEF w, a, W
      <4>6. W * a \in Nat /\ W * w \in Nat /\ W * a <= W * w
        BY <1>1, <4>2, <4>3, <4>4 DEF W
      <4>7. W * w <= t - seed  BY <1>1, <4>1, <4>2, <4>6 DEF W
      <4> QED  BY <1>2, <2>2, <4>5, <4>6, <4>7
    <3>3. CASE rule.freq \in {"MONTHLY", "YEARLY"}
      <4> DEFINE step == rule.interval * (IF rule.freq = "MONTHLY" THEN 1 ELSE MonthsPerYear)
                 n == MonthOf[t] - MonthOf[seed]  a == Aligned(n, step)
      <4>1. step \in Nat \ {0}  BY <1>1, <1>3
      <4>2. /\ MonthOf[t] \in 0 .. MonthOf[Max(Days)] /\ MonthOf[seed] \in Nat
            /\ MonthOf[seed] <= MonthOf[t] /\ MonthOf[t] \in Nat
            /\ MonthOf[Max(Days)] \in Nat
        BY <1>2, <2>2, <2>3, MonthOfFacts, CalendarAssumption
      <4>3. n \in Nat  BY <4>2
      <4> HIDE DEF step, n
      <4>4. a \in Nat /\ a <= n  BY <4>1, <4>3, AlignedFacts
      <4>5. jump = MonthStart(seed, a)
        BY <1>5, <3>3 DEF FastForward, t, n, step
      <4> HIDE DEF a
      <4>6. CASE a = 0
        <5>1. jump = seed  BY <4>5, <4>6 DEF MonthStart
        <5> QED  BY <1>2, <2>2, <5>1
      <4>7. CASE a # 0
        <5> DEFINE m == MonthOf[seed] + a
        <5>1. jump = FirstOfMonth[m]  BY <4>4, <4>5, <4>7 DEF MonthStart
        <5>2. m \in 0 .. MonthOf[Max(Days)] /\ m <= MonthOf[t] /\ MonthOf[seed] < m
          BY <4>2, <4>4, <4>7 DEF n
        <5> HIDE DEF m
        <5>3. /\ FirstOfMonth[m] \in Days /\ MonthOf[FirstOfMonth[m]] = m
              /\ FirstOfMonth[m] <= t
          BY <2>3, <5>2, MonthFacts
        <5>4. seed <= FirstOfMonth[m]
          <6>1. FirstOfMonth[m] \in Nat  BY <1>2, <5>3
          <6> SUFFICES ASSUME FirstOfMonth[m] < seed PROVE FALSE  BY <1>2, <6>1
          <6>2. MonthOf[FirstOfMonth[m]] <= MonthOf[seed]
            BY <1>2, <5>3, <6>1, CalendarAssumption
          <6> QED  BY <4>2, <5>2, <5>3, <6>2
        <5>5. FirstOfMonth[m] \in Int  BY <1>0, <5>3
        <5> HIDE DEF jump
        <5> QED  BY <5>1, <5>3, <5>4, <5>5
      <4> QED  BY <4>6, <4>7
    <3> QED  BY <1>3, <3>1, <3>2, <3>3
  <2>5. ASSUME NEW d \in Days, target <= d * S PROVE jump <= d
    <3>1. d \in Nat /\ t <= d  BY <1>2, <2>2, <2>5
    <3> HIDE DEF jump
    <3> QED  BY <2>2, <2>4, <3>1
  <2> HIDE DEF jump
  <2> QED  BY <2>4, <2>5 DEF jump
<1> QED  BY <1>4, <1>5

(* A range a client asks for, in the calendar. *)
InCalendar(range) ==
  range.start \in Int /\ range.end \in Int /\ range.start <= Max(Days) * SlotsPerDay

LEMMA FirstDayFacts ==
  ASSUME NEW e \in EventRows, e.rule \in Rules, SeedDay(e) \in Days,
         NEW range, InCalendar(range)
  PROVE  /\ FirstDay(e, range) \in Int /\ SeedDay(e) <= FirstDay(e, range)
         /\ e.rule.count # Null => FirstDay(e, range) = SeedDay(e)
         /\ \A d \in Days : SeedDay(e) <= d /\ StartOn(e, d) + e.length > range.start
                               => FirstDay(e, range) <= d
<1> DEFINE S == SlotsPerDay  seed == SeedDay(e)
           target == range.start - e.length - 2 * SlotsPerDay
<1>1. S \in Nat \ {0} /\ e.length \in Nat /\ InTime(e)
  BY RecurrenceAssumption DEF EventRows, InTime
<1>2. \A d \in Days : d \in Nat /\ d <= Max(Days)  BY DaysFacts
<1>3. seed \in Nat  BY <1>2
<1>4. CASE e.rule.count # Null
  BY <1>3, <1>4 DEF FirstDay
<1>5. CASE e.rule.count = Null
  <2>1. FirstDay(e, range) = FastForward(e.rule, seed, target)  BY <1>5 DEF FirstDay
  <2>2. target \in Int /\ target <= Max(Days) * S
    <3>1. Max(Days) \in Nat  BY DaysFacts
    <3>2. Max(Days) * S \in Int  BY <1>1, <3>1
    <3> QED  BY <1>1, <3>2 DEF InCalendar
  <2> HIDE DEF target
  <2>3. /\ FastForward(e.rule, seed, target) \in Int
        /\ seed <= FastForward(e.rule, seed, target)
        /\ \A d \in Days : seed <= d /\ target <= d * SlotsPerDay
                              => FastForward(e.rule, seed, target) <= d
    BY <2>2, JumpFacts
  <2>4. ASSUME NEW d \in Days, seed <= d, StartOn(e, d) + e.length > range.start
        PROVE  target <= d * SlotsPerDay
    <3>1. d \in Int  BY <1>2
    <3>2. StartOn(e, d) \in Int /\ StartOn(e, d) < (d + 2) * S  BY <1>1, <3>1, StartFacts
    <3>3. (d + 2) * S = d * S + 2 * S /\ d * S \in Int  BY <1>1, <3>1
    <3> QED  BY <1>1, <2>4, <3>2, <3>3 DEF InCalendar, target
  <2> QED  BY <1>5, <2>1, <2>3, <2>4
<1> QED  BY <1>4, <1>5

(* The walk has steps for every day that may start before its limit.       *)
LEMMA ReachFacts ==
  ASSUME NEW rule \in Rules, NEW first \in Int, NEW limit \in Int,
         NEW d \in Days, first <= d, (d - 1) * SlotsPerDay <= limit
  PROVE  d \in Reach(rule, first, limit)
<1> DEFINE S == SlotsPerDay  x == limit - first * S + S - 1  c == x \div S
           more == Max({0, c})
<1>1. S \in Nat \ {0} /\ d \in Int  BY RecurrenceAssumption, DaysFacts
<1>2. first * S \in Int  BY <1>1
<1>3. x \in Int  BY <1>1, <1>2
<1> HIDE DEF x
<1>4. c \in Int /\ x % S \in 0 .. S - 1 /\ x % S = x - S * c  BY <1>1, <1>3, DivMod
<1> HIDE DEF c
<1>5. S * c \in Int /\ S * c >= limit - first * S
  BY <1>1, <1>2, <1>3, <1>4 DEF x
<1>6. d - 1 <= first + c
  <2> SUFFICES ASSUME first + c < d - 1 PROVE FALSE  BY <1>1, <1>4
  <2>1. (first + c) * S + S <= (d - 1) * S
    BY <1>1, <1>4, TimesMonotone
  <2>2. (first + c) * S = first * S + S * c  BY <1>1, <1>4
  <2>3. (d - 1) * S \in Int  BY <1>1
  <2> QED  BY <1>1, <1>2, <1>5, <2>1, <2>2, <2>3
<1>7. more \in Int /\ more >= c  BY <1>4, Endpoints
<1>8. PeriodDays(rule) \in Nat
  <2>1. /\ rule.interval + 1 \in Nat /\ DaysPerWeek \in Nat /\ MonthsPerYear \in Nat
        /\ rule.freq \in {"DAILY", "WEEKLY", "MONTHLY", "YEARLY"}
    BY RecurrenceAssumption DEF Rules
  <2>2. LongestMonth \in Nat /\ LongestYear \in Nat
    BY LongestMonthIsNat, LongestYearIsNat
  <2>3. PICK n \in Nat : PeriodDays(rule) = (rule.interval + 1) * n
    BY <2>1, <2>2 DEF PeriodDays
  <2> QED  BY <2>1, <2>3
<1>9. d < first + PeriodDays(rule) + 5 + more
  <2> HIDE DEF more
  <2> QED  BY <1>1, <1>4, <1>6, <1>7, <1>8
<1> QED  BY <1>9 DEF Reach, more, c, x

LEMMA SubsetOfDays ==
  ASSUME NEW X, X \subseteq Days
  PROVE  IsFiniteSet(X) /\ Cardinality(X) \in Nat
BY DaysFacts, FS_Subset, FS_CardinalityType

(* The walk finds the days the rule selects, up to COUNT and UNTIL.        *)
KeptDays(e) == {d \in Counted(e) : e.rule.until # Null => StartOn(e, d) <= e.rule.until}

LEMMA FoundFacts ==
  ASSUME NEW e \in EventRows, e.rule \in Rules, SeedDay(e) \in Days,
         NEW first \in Int, SeedDay(e) <= first, NEW limit
  PROVE  LET days == Reach(e.rule, first, limit)
         IN  Found(e, days) = days \cap Selected(e)
<1> DEFINE seed == SeedDay(e)  days == Reach(e.rule, first, limit)
<1>1. ASSUME NEW d \in days
      PROVE  d \in Days /\ d \in Int /\ seed <= d /\ (seed - 1) * SlotsPerDay <= StartOn(e, d)
  <2>1. d \in Days /\ first <= d  BY DEF Reach
  <2>2. d \in Int /\ seed \in Int /\ SlotsPerDay \in Nat \ {0}
    BY <2>1, DaysFacts, RecurrenceAssumption
  <2>3. seed <= d  BY <2>1, <2>2
  <2>4. (seed - 1) * SlotsPerDay <= (d - 1) * SlotsPerDay
        /\ (seed - 1) * SlotsPerDay \in Int /\ (d - 1) * SlotsPerDay \in Int
    <3>1. CASE seed = d  BY <2>2, <3>1
    <3>2. CASE seed < d
      <4>1. seed - 1 \in Int /\ d - 1 \in Int /\ seed - 1 < d - 1  BY <2>2, <3>2
      <4> QED  BY <2>2, <4>1, TimesMonotone
    <3> QED  BY <2>2, <2>3, <3>1, <3>2
  <2>5. InTime(e)  BY DEF InTime, EventRows
  <2>6. StartOn(e, d) \in Int /\ (d - 1) * SlotsPerDay <= StartOn(e, d)
    BY <2>2, <2>5, StartFacts
  <2> QED  BY <2>1, <2>2, <2>3, <2>4, <2>6
<1>2. \A d \in days : StartOn(e, d) >= (SeedDay(e) - 1) * SlotsPerDay
  <2> TAKE d \in days
  <2>1. InTime(e) /\ SeedDay(e) \in Int /\ SlotsPerDay \in Int
    BY DaysFacts, RecurrenceAssumption DEF InTime, EventRows
  <2>2. StartOn(e, d) \in Int /\ (SeedDay(e) - 1) * SlotsPerDay \in Int
    BY <1>1, <2>1, StartFacts
  <2> QED  BY <1>1, <2>2
<1> QED  BY <1>1, <1>2, SelectedFacts DEF Found

LEMMA WalkedFacts ==
  ASSUME NEW e \in EventRows, e.rule \in Rules, SeedDay(e) \in Days,
         NEW range, InCalendar(range),
         NEW d \in Days, Overlaps(StartOn(e, d), StartOn(e, d) + e.length, range)
  PROVE  d \in Walked(e, range) <=> d \in KeptDays(e)
<1> DEFINE seed == SeedDay(e)  rule == e.rule  first == FirstDay(e, range)
           limit == WalkLimit(rule, range)  days == Reach(rule, first, limit)
           found == Found(e, days)  sel == Selected(e)
           breaks == Breaks(e, days, found, limit)
<1>1. /\ first \in Int /\ seed <= first /\ (rule.count # Null => first = seed)
      /\ \A c \in Days : seed <= c /\ StartOn(e, c) + e.length > range.start => first <= c
  BY FirstDayFacts
<1>2. /\ rule.count \in Nat \cup {Null} /\ rule.until \in Int \cup {Null} /\ InTime(e)
      /\ range.start \in Int /\ range.end \in Int /\ e.length \in Nat
  BY DEF Rules, EventRows, InTime, InCalendar
<1>3. limit \in Int  BY <1>2 DEF WalkLimit
<1>4. /\ found = days \cap sel /\ days \subseteq Days /\ sel \subseteq Days
      /\ \A c \in sel : seed <= c
      /\ \A c \in days : first <= c
  BY <1>1, FoundFacts, SelectedFacts DEF Reach, Selected
<1>5. \A c \in Days : c \in Int /\ StartOn(e, c) \in Int
                      /\ (c - 1) * SlotsPerDay <= StartOn(e, c)
                      /\ (c - 1) * SlotsPerDay \in Int
  <2> SUFFICES ASSUME NEW c \in Days
               PROVE  /\ c \in Int /\ StartOn(e, c) \in Int
                      /\ (c - 1) * SlotsPerDay <= StartOn(e, c)
                      /\ (c - 1) * SlotsPerDay \in Int
    OBVIOUS
  <2>1. c \in Int /\ SlotsPerDay \in Int  BY DaysFacts, RecurrenceAssumption
  <2>2. (c - 1) * SlotsPerDay \in Int  BY <2>1
  <2> QED  BY <1>2, <2>1, <2>2, StartFacts
<1>6. d \in days => {c \in found : c < d} = {c \in sel : c < d} \/ rule.count = Null
  <2> SUFFICES ASSUME d \in days, rule.count # Null, NEW c \in sel, c < d
               PROVE  c \in days
    BY <1>4
  <2>1. first <= c  BY <1>1, <1>4
  <2>2. c \in Days /\ d \in Int /\ c \in Int  BY <1>4, <1>5
  <2>3. first + PeriodDays(rule) + 5 + Max({0, (limit - first * SlotsPerDay + SlotsPerDay - 1)
                                                  \div SlotsPerDay}) \in Int
    <3>1. SlotsPerDay \in Nat \ {0}  BY RecurrenceAssumption
    <3>2. first * SlotsPerDay \in Int  BY <1>1, <3>1
    <3>3. limit - first * SlotsPerDay + SlotsPerDay - 1 \in Int  BY <1>3, <3>1, <3>2
    <3>4. PeriodDays(rule) \in Int
      <4>1. /\ rule.interval + 1 \in Int /\ DaysPerWeek \in Int /\ MonthsPerYear \in Int
            /\ rule.freq \in {"DAILY", "WEEKLY", "MONTHLY", "YEARLY"}
        BY RecurrenceAssumption DEF Rules
      <4>2. LongestMonth \in Int /\ LongestYear \in Int
        BY LongestMonthIsNat, LongestYearIsNat
      <4>3. PICK n \in Int : PeriodDays(rule) = (rule.interval + 1) * n
        BY <4>1, <4>2 DEF PeriodDays
      <4> QED  BY <4>1, <4>3
    <3> DEFINE x == (limit - first * SlotsPerDay + SlotsPerDay - 1) \div SlotsPerDay
    <3>5. x \in Int  BY <3>1, <3>3, DivMod
    <3> HIDE DEF x
    <3>6. Max({0, x}) \in Int  BY <3>5, Endpoints
    <3> QED  BY <1>1, <3>4, <3>6 DEF x
  <2>4. d < first + PeriodDays(rule) + 5 + Max({0, (limit - first * SlotsPerDay + SlotsPerDay - 1)
                                                      \div SlotsPerDay})
    BY DEF Reach
  <2> QED  BY <2>1, <2>2, <2>3, <2>4 DEF Reach
<1>7. ASSUME d \in Walked(e, range) PROVE d \in KeptDays(e)
  <2>1. d \in found /\ d \notin breaks
    <3>1. d \in found /\ \A b \in breaks : d < b  BY <1>7 DEF Walked
    <3>2. ~(d < d)  BY <1>5
    <3> HIDE DEF found, breaks
    <3> QED  BY <3>1, <3>2
  <2>2. d \in days /\ d \in sel  BY <1>4, <2>1
  <2>3. rule.count # Null => Cardinality({c \in sel : c < d}) < rule.count
    <3> SUFFICES ASSUME rule.count # Null
                 PROVE  Cardinality({c \in sel : c < d}) < rule.count
      OBVIOUS
    <3>1. ~(Cardinality({c \in found : c < d}) >= rule.count)  BY <2>1, <2>2 DEF Breaks
    <3>2. {c \in found : c < d} = {c \in sel : c < d}  BY <1>6, <2>2
    <3>3. {c \in sel : c < d} \subseteq Days  BY <1>4
    <3>4. Cardinality({c \in sel : c < d}) \in Nat  BY <3>3, SubsetOfDays
    <3> QED  BY <1>2, <3>1, <3>2, <3>4
  <2>4. d \in Counted(e)  BY <2>2, <2>3 DEF Counted, FirstFew
  <2>5. rule.until # Null => StartOn(e, d) <= rule.until
    <3>1. rule.until # Null => ~(StartOn(e, d) > rule.until)  BY <2>1, <2>2 DEF Breaks
    <3> QED  BY <1>2, <1>5, <3>1
  <2> QED  BY <2>4, <2>5 DEF KeptDays
<1>8. ASSUME d \in KeptDays(e) PROVE d \in Walked(e, range)
  <2>1. d \in sel /\ (rule.count # Null => Cardinality({c \in sel : c < d}) < rule.count)
        /\ (rule.until # Null => StartOn(e, d) <= rule.until)
    BY <1>8 DEF KeptDays, Counted, FirstFew
  <2>2. StartOn(e, d) <= limit
    BY <1>2, <1>5, <2>1 DEF WalkLimit, Overlaps
  <2>3. (d - 1) * SlotsPerDay <= limit
    <3> HIDE DEF limit
    <3>1. StartOn(e, d) \in Int /\ (d - 1) * SlotsPerDay <= StartOn(e, d)
          /\ (d - 1) * SlotsPerDay \in Int
      BY <1>5
    <3> QED  BY <1>3, <2>2, <3>1
  <2>4. first <= d  BY <1>1, <1>4, <2>1 DEF Overlaps
  <2>5. d \in days
    <3> HIDE DEF first, limit
    <3> QED  BY <1>1, <1>3, <2>3, <2>4, ReachFacts
  <2>6. d \in found  BY <1>4, <2>1, <2>5
  <2>7. ASSUME NEW b \in breaks PROVE d < b
    <3>1. b \in Days /\ b \in Int /\ d \in Int  BY <1>4, <1>5 DEF Breaks
    <3> SUFFICES ASSUME b <= d PROVE FALSE  BY <3>1
    <3>2. CASE (b - 1) * SlotsPerDay > limit
      <4>1. SlotsPerDay \in Nat \ {0} /\ (b - 1) * SlotsPerDay \in Int
            /\ (d - 1) * SlotsPerDay \in Int
        BY <1>5, <3>1, RecurrenceAssumption
      <4>2. (b - 1) * SlotsPerDay <= (d - 1) * SlotsPerDay
        <5>1. CASE b = d  BY <4>1, <5>1
        <5>2. CASE b < d
          <6>1. b - 1 \in Int /\ d - 1 \in Int /\ b - 1 < d - 1  BY <3>1, <5>2
          <6> QED  BY <4>1, <6>1, TimesMonotone
        <5> QED  BY <3>1, <5>1, <5>2
      <4> HIDE DEF limit
      <4> QED  BY <1>3, <2>3, <3>2, <4>1, <4>2
    <3>3. CASE rule.count # Null /\ Cardinality({c \in found : c < b}) >= rule.count
      <4>1. {c \in found : c < b} \in SUBSET {c \in sel : c < d}
        <5> SUFFICES ASSUME NEW c \in found, c < b PROVE c \in sel /\ c < d  OBVIOUS
        <5>1. c \in sel /\ c \in Int  BY <1>4, <1>5
        <5> HIDE DEF found, sel
        <5> QED  BY <3>1, <5>1
      <4>2. {c \in sel : c < d} \subseteq Days  BY <1>4
      <4>3. IsFiniteSet({c \in sel : c < d}) /\ Cardinality({c \in sel : c < d}) \in Nat
        BY <4>2, SubsetOfDays
      <4>4. {c \in found : c < b} \subseteq Days  BY <1>4
      <4>5. Cardinality({c \in found : c < b}) \in Nat  BY <4>4, SubsetOfDays
      <4>6. Cardinality({c \in found : c < b}) <= Cardinality({c \in sel : c < d})
        BY <4>1, <4>3, FS_Subset
      <4> QED  BY <1>2, <2>1, <3>3, <4>3, <4>5, <4>6
    <3>4. CASE rule.until # Null /\ b \in found /\ StartOn(e, b) > rule.until
      <4>1. StartOn(e, b) <= StartOn(e, d)
        <5>1. CASE b = d  BY <1>5, <5>1
        <5>2. CASE b < d  BY <1>2, <1>5, <3>1, <5>2, StartMonotone
        <5> QED  BY <3>1, <5>1, <5>2
      <4> QED  BY <1>2, <1>5, <2>1, <3>1, <3>4, <4>1
    <3> QED  BY <3>2, <3>3, <3>4 DEF Breaks
  <2> QED  BY <2>6, <2>7 DEF Walked
<1> QED  BY <1>7, <1>8

(* A one-to-one image has as many elements, and one in the same order has  *)
(* the images of the first few as its first few.                           *)
LEMMA ImageFacts ==
  ASSUME NEW X, IsFiniteSet(X), NEW f, \A x, y \in X : f[x] = f[y] => x = y
  PROVE  LET T == {f[x] : x \in X}
         IN  IsFiniteSet(T) /\ Cardinality(T) = Cardinality(X)
<1> DEFINE T == {f[x] : x \in X}  g == [x \in X |-> f[x]]
<1>1. g \in Surjection(X, T)  BY DEF Surjection
<1>2. g \in Injection(X, T)  BY DEF Injection, IsInjective
<1> HIDE DEF g
<1> QED  BY <1>1, <1>2, FS_Surjection

LEMMA FirstFewImage ==
  ASSUME NEW X \in SUBSET Int, IsFiniteSet(X), NEW n, NEW f,
         \A x \in X : f[x] \in Int,
         \A x, y \in X : x < y => f[x] < f[y]
  PROVE  {f[x] : x \in FirstFew(X, n)} = FirstFew({f[x] : x \in X}, n)
<1> DEFINE T == {f[x] : x \in X}
<1>1. ASSUME NEW x \in X, NEW y \in X PROVE /\ f[x] < f[y] <=> x < y
                                            /\ f[x] = f[y] => x = y
  <2>1. x \in Int /\ y \in Int /\ f[x] \in Int /\ f[y] \in Int  OBVIOUS
  <2>2. x < y \/ x = y \/ y < x  BY <2>1
  <2>3. (x < y => f[x] < f[y]) /\ (y < x => f[y] < f[x])  OBVIOUS
  <2> QED  BY <2>1, <2>2, <2>3
<1>2. ASSUME NEW x \in X
      PROVE  Cardinality({t \in T : t < f[x]}) = Cardinality({y \in X : y < x})
  <2> DEFINE Lower == {y \in X : y < x}
  <2>1. IsFiniteSet(Lower)  BY FS_Subset
  <2>2. {t \in T : t < f[x]} = {f[y] : y \in Lower}  BY <1>1
  <2>3. \A y, w \in Lower : f[y] = f[w] => y = w  BY <1>1
  <2> HIDE DEF Lower
  <2>4. Cardinality({f[y] : y \in Lower}) = Cardinality(Lower)  BY <2>1, <2>3, ImageFacts
  <2> QED  BY <2>2, <2>4 DEF Lower
<1>3. \A x \in X : x \in FirstFew(X, n) <=> f[x] \in FirstFew(T, n)
  BY <1>2 DEF FirstFew
<1> HIDE DEF T
<1>4. T = {f[x] : x \in X}  BY DEF T
<1> QED  BY <1>3, <1>4 DEF FirstFew, T

(* What a range shows of a series are the first starts due in it.          *)
Due(e, range) == {s \in Starts(e) \ e.exdates : Overlaps(s, s + e.length, range)}

LEMMA StartsFacts ==
  ASSUME NEW e \in EventRows, SeedDay(e) \in Days, Dependable(e)
  PROVE  /\ Starts(e) = {StartOn(e, d) : d \in IF e.rule = Null THEN {SeedDay(e)} ELSE KeptDays(e)}
         /\ e.rule # Null => KeptDays(e) \subseteq Selected(e) /\ Selected(e) \subseteq Days
<1>1. InTime(e)  BY DEF EventRows, InTime
<1>2. ASSUME NEW d \in Days, d = SeedDay(e) \/ (e.rule # Null /\ d \in Selected(e))
      PROVE  StartOn(e, d) = InstantOn(e, d)
  <2>1. KeepsWord(d * SlotsPerDay + WallTime(e), e.zone)  BY <1>2 DEF Dependable
  <2> QED  BY <1>1, <2>1, DaysFacts, StartFacts
<1>3. CASE e.rule = Null  BY <1>2, <1>3 DEF Starts
<1>4. CASE e.rule # Null
  <2>1. Counted(e) \subseteq Selected(e) /\ Selected(e) \subseteq Days
    BY DEF Counted, FirstFew, Selected
  <2>2. Starts(e) = {s \in {StartOn(e, d) : d \in Counted(e)} :
                        e.rule.until # Null => s <= e.rule.until}
    BY <1>2, <1>4, <2>1 DEF Starts
  <2>3. {StartOn(e, d) : d \in KeptDays(e)} = {s \in {StartOn(e, d) : d \in Counted(e)} :
                        e.rule.until # Null => s <= e.rule.until}
    BY DEF KeptDays
  <2>4. KeptDays(e) \subseteq Counted(e)  BY DEF KeptDays
  <2> QED  BY <1>4, <2>1, <2>2, <2>3, <2>4
<1> QED  BY <1>3, <1>4

LEMMA ExpansionFacts ==
  ASSUME NEW e \in EventRows, SeedDay(e) \in Days, Dependable(e),
         NEW range, InCalendar(range), NEW most \in Nat
  PROVE  LET listed == Expansion(e, range, most)
         IN  /\ listed.days \subseteq Days
             /\ {StartOn(e, d) : d \in listed.days} = FirstFew(Due(e, range), most)
             /\ listed.truncated <=> Cardinality(Due(e, range)) > most
             /\ listed.truncated \in BOOLEAN
             /\ IsFiniteSet(Due(e, range)) /\ Due(e, range) \subseteq Int
<1> DEFINE days == IF e.rule = Null THEN {SeedDay(e)} ELSE Walked(e, range)
           shown == {d \in days : Visible(e, range, StartOn(e, d))}
           f == [d \in Days |-> StartOn(e, d)]
           due == Due(e, range)
<1>1. InTime(e) /\ e.length \in Nat /\ e.rule \in Rules \cup {Null}
  BY DEF EventRows, InTime
<1>2. \A d \in Days : d \in Int /\ StartOn(e, d) \in Int  BY <1>1, DaysFacts, StartFacts
<1>3. shown \subseteq Days
  <2>1. e.rule # Null => Walked(e, range) \subseteq Days
    BY DEF Walked, Found, Reach
  <2> QED  BY <2>1
<1>4. {StartOn(e, d) : d \in shown} = due
  <2>1. CASE e.rule = Null
    BY <1>1, <2>1, StartsFacts DEF Due, Visible
  <2>2. CASE e.rule # Null
    <3>1. KeptDays(e) \subseteq Days /\ e.rule \in Rules
      BY <1>1, <2>2, StartsFacts
    <3>2. \A d \in Days : Overlaps(StartOn(e, d), StartOn(e, d) + e.length, range)
                            => (d \in Walked(e, range) <=> d \in KeptDays(e))
      BY <3>1, WalkedFacts
    <3>3. shown = {d \in KeptDays(e) : Visible(e, range, StartOn(e, d))}
      BY <1>3, <2>2, <3>1, <3>2 DEF Visible
    <3>4. Starts(e) = {StartOn(e, d) : d \in KeptDays(e)}  BY <2>2, StartsFacts
    <3> HIDE DEF shown
    <3> QED  BY <3>3, <3>4 DEF Due, Visible
  <2> QED  BY <2>1, <2>2
<1> HIDE DEF shown
<1>5. shown \in SUBSET Int /\ IsFiniteSet(shown) /\ \A d \in shown : f[d] \in Int /\ f[d] = StartOn(e, d)
  BY <1>2, <1>3, SubsetOfDays
<1>6. \A c, d \in shown : c < d => f[c] < f[d]
  <2> SUFFICES ASSUME NEW c \in shown, NEW d \in shown, c < d PROVE StartOn(e, c) < StartOn(e, d)
    BY <1>5
  <2>1. c \in Int /\ d \in Int  BY <1>5
  <2> QED  BY <1>1, <2>1, StartMonotone
<1> HIDE DEF f
<1>7. {f[d] : d \in shown} = due  BY <1>4, <1>5
<1>8. {f[d] : d \in FirstFew(shown, most)} = FirstFew(due, most)
  BY <1>5, <1>6, <1>7, FirstFewImage
<1>9. \A c, d \in shown : f[c] = f[d] => c = d
  <2> SUFFICES ASSUME NEW c \in shown, NEW d \in shown, f[c] = f[d], c # d PROVE FALSE  OBVIOUS
  <2>1. c \in Int /\ d \in Int /\ f[c] \in Int /\ f[d] \in Int  BY <1>5
  <2>2. c < d \/ d < c  BY <2>1
  <2> QED  BY <1>6, <2>1, <2>2
<1>10. IsFiniteSet(due) /\ Cardinality(due) = Cardinality(shown)
  <2>1. IsFiniteSet({f[d] : d \in shown}) /\ Cardinality({f[d] : d \in shown}) = Cardinality(shown)
    BY <1>5, <1>9, ImageFacts
  <2> QED  BY <1>7, <2>1
<1>11. due \subseteq Int  BY <1>5, <1>7
<1>12. Expansion(e, range, most) = [days |-> FirstFew(shown, most), truncated |-> Cardinality(shown) > most]
  BY DEF Expansion, Cut, shown
<1>13. FirstFew(shown, most) \subseteq shown  BY DEF FirstFew
<1>14. {StartOn(e, d) : d \in FirstFew(shown, most)} = {f[d] : d \in FirstFew(shown, most)}
  BY <1>5, <1>13
<1>15. (Cardinality(shown) > most) \in BOOLEAN  OBVIOUS
<1> DEFINE listed == Expansion(e, range, most)
<1>16. /\ listed.days = FirstFew(shown, most)
       /\ listed.truncated <=> Cardinality(due) > most
       /\ listed.truncated \in BOOLEAN
  <2> DEFINE more == Cardinality(shown) > most
  <2>1. more \in BOOLEAN /\ (more <=> Cardinality(due) > most)  BY <1>10, <1>15
  <2> HIDE DEF more
  <2>2. listed = [days |-> FirstFew(shown, most), truncated |-> more]  BY <1>12 DEF more
  <2> HIDE DEF listed
  <2>3. listed.truncated = more /\ listed.days = FirstFew(shown, most)  BY <2>2
  <2> QED  BY <2>1, <2>3
<1>17. {StartOn(e, d) : d \in listed.days} = FirstFew(due, most)
  BY <1>8, <1>14, <1>16
<1> QED  BY <1>3, <1>10, <1>11, <1>13, <1>16, <1>17

LEMMA FiniteImage ==
  ASSUME NEW X, IsFiniteSet(X), NEW f
  PROVE  IsFiniteSet({f[x] : x \in X})
<1> DEFINE T == {f[x] : x \in X}  g == [x \in X |-> f[x]]
<1>1. g \in Surjection(X, T)  BY DEF Surjection
<1> HIDE DEF g
<1> QED  BY <1>1, FS_Surjection

(* What the query calls a candidate includes every series with a start due *)
(* in the range.                                                           *)
LEMMA CandidateFacts ==
  ASSUME NEW e \in EventRows, SeedDay(e) \in Days, Dependable(e),
         NEW range, InCalendar(range), ~IsCandidate(e, range)
  PROVE  Due(e, range) = {}
<1> SUFFICES ASSUME NEW s \in Starts(e), Overlaps(s, s + e.length, range) PROVE FALSE
  BY DEF Due
<1>1. /\ InTime(e) /\ e.length \in Nat /\ e.rule \in Rules \cup {Null} /\ e.at \in Int
      /\ range.start \in Int /\ range.end \in Int
  BY DEF EventRows, InTime, InCalendar
<1>2. OwnStart(e) = e.at  BY <1>1, OwnStartFacts
<1>3. \A d \in Days : d \in Int /\ StartOn(e, d) \in Int  BY <1>1, DaysFacts, StartFacts
<1>4. CASE e.rule = Null
  <2>1. s = StartOn(e, SeedDay(e))  BY <1>4, StartsFacts
  <2>2. s = e.at  BY <1>2, <2>1 DEF OwnStart
  <2> QED  BY <1>4, <2>2 DEF IsCandidate
<1>5. CASE e.rule # Null
  <2>1. PICK d \in KeptDays(e) : s = StartOn(e, d)  BY <1>5, StartsFacts
  <2>2. d \in Days /\ d \in Selected(e)  BY <1>5, <2>1, StartsFacts
  <2>3. SeedDay(e) <= d /\ d \in Int /\ SeedDay(e) \in Int
    BY <1>3, <2>2 DEF Selected
  <2>4. e.at <= s /\ s \in Int
    <3>1. CASE d = SeedDay(e)  BY <1>1, <1>2, <1>3, <2>1, <2>2, <3>1 DEF OwnStart
    <3>2. CASE SeedDay(e) < d
      <4>1. StartOn(e, SeedDay(e)) < StartOn(e, d)  BY <1>1, <2>3, <3>2, StartMonotone
      <4> QED  BY <1>1, <1>2, <1>3, <2>1, <2>2, <4>1 DEF OwnStart
    <3> QED  BY <2>3, <3>1, <3>2
  <2>5. e.at < range.end  BY <1>1, <2>4 DEF Overlaps
  <2>6. e.rule.until # Null => s <= e.rule.until  BY <2>1 DEF KeptDays
  <2>7. e.rule.until \in Int \cup {Null}  BY <1>1, <1>5 DEF Rules
  <2>8. e.rule.until # Null => e.rule.until + e.length > range.start
    BY <1>1, <2>4, <2>6, <2>7 DEF Overlaps
  <2> QED  BY <1>5, <2>5, <2>8 DEF IsCandidate
<1> QED  BY <1>4, <1>5

LEMMA ListedFacts ==
  ASSUME NEW e \in EventRows, SeedDay(e) \in Days, Dependable(e),
         NEW range, InCalendar(range), NEW most \in Nat
  PROVE  LET listed == Listed(e, range, most)
         IN  /\ {StartOn(e, d) : d \in listed.days} = FirstFew(Due(e, range), most)
             /\ listed.truncated <=> Cardinality(Due(e, range)) > most
             /\ listed.truncated \in BOOLEAN
             /\ IsFiniteSet(FirstFew(Due(e, range), most))
             /\ FirstFew(Due(e, range), most) \subseteq Int
<1>1. LET listed == Expansion(e, range, most)
      IN  /\ {StartOn(e, d) : d \in listed.days} = FirstFew(Due(e, range), most)
          /\ listed.truncated <=> Cardinality(Due(e, range)) > most
          /\ listed.truncated \in BOOLEAN
          /\ IsFiniteSet(Due(e, range)) /\ Due(e, range) \subseteq Int
  BY ExpansionFacts
<1>2. FirstFew(Due(e, range), most) \subseteq Due(e, range)  BY DEF FirstFew
<1>3. IsFiniteSet(FirstFew(Due(e, range), most)) /\ FirstFew(Due(e, range), most) \subseteq Int
  BY <1>1, <1>2, FS_Subset
<1>4. CASE IsCandidate(e, range)
  <2>1. Listed(e, range, most) = Expansion(e, range, most)  BY <1>4 DEF Listed
  <2> QED  BY <1>1, <1>3, <2>1
<1>5. CASE ~IsCandidate(e, range)
  <2>1. Listed(e, range, most).days = {} /\ Listed(e, range, most).truncated = FALSE
    BY <1>5 DEF Listed
  <2>2. Due(e, range) = {} /\ Cardinality(Due(e, range)) = 0
    BY <1>5, CandidateFacts, FS_EmptySet
  <2>3. FirstFew(Due(e, range), most) = {}  BY <1>2, <2>2
  <2>4. {StartOn(e, d) : d \in Listed(e, range, most).days} = {}  BY <2>1
  <2>5. ~(Cardinality(Due(e, range)) > most)  BY <2>2
  <2> QED  BY <1>3, <2>1, <2>3, <2>4, <2>5
<1> QED  BY <1>4, <1>5

(* What a view tells: which occurrence, when, and whether a row of its own. *)
Key(v) == <<v.of, v.start, v.end, v.from # "series">>

LEMMA OwnViewFacts ==
  ASSUME NEW o \in OverrideRows, Dependable(o), NEW range, NEW from
  PROVE  /\ OwnView(o, from) = [of |-> o.of, start |-> o.at, end |-> o.at + o.length, from |-> from]
         /\ InRange(OwnView(o, from), range) <=> Overlaps(o.at, o.at + o.length, range)
         /\ IsCandidate(o, range) <=> Overlaps(o.at, o.at + o.length, range)
         /\ Visible(o, range, OwnStart(o)) <=> Overlaps(o.at, o.at + o.length, range)
<1>1. InTime(o) /\ o.rule = Null /\ o.exdates = {}  BY DEF OverrideRows, InTime
<1>2. OwnStart(o) = o.at  BY <1>1, OwnStartFacts
<1> QED  BY <1>1, <1>2 DEF OwnView, View, InRange, IsCandidate, Visible

LEMMA KeyFacts ==
  ASSUME NEW of, NEW start, NEW end, NEW from
  PROVE  Key([of |-> of, start |-> start, end |-> end, from |-> from])
           = <<of, start, end, from # "series">>
BY DEF Key

(* A range query of a quiet event answers what the series promises.        *)
LEMMA ListingFacts ==
  ASSUME master \in EventRows, SeedDay(master) \in Days, Dependable(master),
         overrides \subseteq OverrideRows, IsFiniteSet(overrides),
         \A o, w \in overrides : o.of = w.of => o = w,
         \A o \in overrides : Dependable(o),
         NEW range, InCalendar(range), NEW expand \in BOOLEAN, expand \/ master.rule = Null
  PROVE  LET listing == Listing(master, overrides, range, expand)
             promised == Promised(range)
         IN  /\ {Key(v) : v \in listing.views} = promised.views
             /\ Cardinality(listing.views) = Cardinality(promised.views)
             /\ listing.truncated = promised.truncated
<1> DEFINE most == MaxOccurrences
           due == Due(master, range)
           few == FirstFew(due, most)
           listed == Listed(master, range, most)
           known == IF master.rule = Null THEN {} ELSE overrides
           sub == Substituted(few, known)
           edited == {o.of : o \in known}
           shows == {o \in overrides : Overlaps(o.at, o.at + o.length, range)}
           series == {View(s, s, master.length, "series") : s \in few \ edited}
           inPlace == {OwnView(o, "in place") : o \in shows \cap sub}
           movedIn == {OwnView(o, "moved in") : o \in shows \ sub}
           views == series \cup inPlace \cup movedIn
           listing == Listing(master, overrides, range, expand)
           promised == Promised(range)
           plain == {<<s, s, s + master.length, FALSE>> : s \in few \ edited}
           placements == {<<o.of, o.at, o.at + o.length, TRUE>> : o \in shows}
<1>1. most \in Nat  BY RecurrenceAssumption
<1>2. /\ {StartOn(master, d) : d \in listed.days} = few
      /\ listed.truncated <=> Cardinality(due) > most
      /\ listed.truncated \in BOOLEAN
      /\ IsFiniteSet(few) /\ few \subseteq Int
  <2> HIDE DEF most
  <2> QED  BY <1>1, ListedFacts
<1>3. sub \subseteq known /\ known \subseteq overrides /\ few \ {o.of : o \in sub} = few \ edited
  BY DEF Substituted
<1>4. \A o \in overrides, from \in {"in place", "moved in"} :
         /\ OwnView(o, from) = [of |-> o.of, start |-> o.at, end |-> o.at + o.length, from |-> from]
         /\ InRange(OwnView(o, from), range) <=> o \in shows
         /\ IsCandidate(o, range) <=> o \in shows
         /\ Visible(o, range, OwnStart(o)) <=> o \in shows
  BY OwnViewFacts
<1>5. listing.views = views
  <2>1. listing.views = Views(master, few, sub, overrides, range)
    BY <1>2 DEF Listing
  <2>2. {v \in {OwnView(o, "in place") : o \in sub} : InRange(v, range)} = inPlace
    BY <1>3, <1>4
  <2>3. {o \in overrides \ sub : IsCandidate(o, range) /\ Visible(o, range, OwnStart(o))} = shows \ sub
    BY <1>4
  <2> HIDE DEF sub, few, shows, edited
  <2> QED  BY <1>3, <2>1, <2>2, <2>3 DEF Views
<1>6. promised.views = plain \cup placements
  BY DEF Promised, Due
<1>7. listing.truncated = promised.truncated
  <2>1. listing.truncated = listed.truncated
    <3> DEFINE folded == ~expand /\ master.rule # Null  more == listed.truncated
    <3>1. ~folded /\ more \in BOOLEAN  BY <1>2
    <3>2. listing.truncated = (~folded /\ more)  BY <3>1 DEF Listing
    <3> HIDE DEF folded, more
    <3>3. listing.truncated = more  BY <3>1, <3>2
    <3> QED  BY <3>3 DEF more
  <2>2. promised.truncated = (Cardinality(due) > most)  BY DEF Promised, Due
  <2>3. listed.truncated = (Cardinality(due) > most)
    <3> HIDE DEF listed, due, most
    <3> QED  BY <1>2
  <2> QED  BY <2>1, <2>2, <2>3
<1>8. {Key(v) : v \in series} = plain
  <2>1. \A s : Key(View(s, s, master.length, "series")) = <<s, s, s + master.length, FALSE>>
    BY DEF Key, View
  <2> HIDE DEF few, edited
  <2> QED  BY <2>1
<1>9. {Key(v) : v \in inPlace \cup movedIn} = placements
  <2>1. ASSUME NEW o \in overrides, NEW from \in {"in place", "moved in"}
        PROVE  Key(OwnView(o, from)) = <<o.of, o.at, o.at + o.length, TRUE>>
    <3>1. OwnView(o, from) = [of |-> o.of, start |-> o.at, end |-> o.at + o.length, from |-> from]
      BY <1>4
    <3>2. Key(OwnView(o, from)) = <<o.of, o.at, o.at + o.length, from # "series">>
      <4> DEFINE start == o.at  end == o.at + o.length
                 row == [of |-> o.of, start |-> start, end |-> end, from |-> from]
      <4>1. Key(row) = <<o.of, start, end, from # "series">>
        <5> HIDE DEF start, end
        <5> QED  BY KeyFacts
      <4>2. OwnView(o, from) = row  BY <3>1
      <4> HIDE DEF row
      <4>3. Key(OwnView(o, from)) = Key(row)  BY <4>2
      <4> QED  BY <4>1, <4>3
    <3>3. (from # "series") = TRUE  OBVIOUS
    <3> DEFINE own == from # "series"
    <3> HIDE DEF own
    <3>4. own = TRUE  BY <3>3 DEF own
    <3>5. <<o.of, o.at, o.at + o.length, own>> = <<o.of, o.at, o.at + o.length, TRUE>>
      BY <3>4
    <3> QED  BY <3>2, <3>5 DEF own
  <2> HIDE DEF sub, shows
  <2>2. shows \subseteq overrides  BY DEF shows
  <2> QED  BY <2>1, <2>2
<1>10. {Key(v) : v \in views} = plain \cup placements
  <2> HIDE DEF series, inPlace, movedIn, plain, placements
  <2>1. views = series \cup (inPlace \cup movedIn)  OBVIOUS
  <2> QED  BY <1>8, <1>9, <2>1
<1>11. IsFiniteSet(views)
  <2>1. IsFiniteSet(series)
    <3> DEFINE f == [s \in few \ edited |-> View(s, s, master.length, "series")]
    <3>1. IsFiniteSet(few \ edited)
      <4> HIDE DEF few, edited
      <4> QED  BY <1>2, FS_Subset
    <3>2. IsFiniteSet({f[s] : s \in few \ edited})
      <4> HIDE DEF f, few, edited
      <4> QED  BY <3>1, FiniteImage
    <3>3. {f[s] : s \in few \ edited} = series
      <4> HIDE DEF few, edited
      <4> QED  OBVIOUS
    <3> QED  BY <3>2, <3>3
  <2>2. ASSUME NEW from, NEW os \in SUBSET overrides
        PROVE  IsFiniteSet({OwnView(o, from) : o \in os})
    <3> DEFINE f == [o \in os |-> OwnView(o, from)]
    <3>1. IsFiniteSet(os)  BY FS_Subset
    <3>2. IsFiniteSet({f[o] : o \in os})
      <4> HIDE DEF f
      <4> QED  BY <3>1, FiniteImage
    <3>3. {f[o] : o \in os} = {OwnView(o, from) : o \in os}  OBVIOUS
    <3> QED  BY <3>2, <3>3
  <2>3. shows \cap sub \in SUBSET overrides /\ shows \ sub \in SUBSET overrides  OBVIOUS
  <2>4. IsFiniteSet(inPlace) /\ IsFiniteSet(movedIn)
    <3> HIDE DEF shows, sub
    <3> QED  BY <2>2, <2>3
  <2> HIDE DEF series, inPlace, movedIn
  <2> QED  BY <2>1, <2>4, FS_Union
<1>12. \A v, w \in views : Key(v) = Key(w) => v = w
  <2> SUFFICES ASSUME NEW v \in views, NEW w \in views, Key(v) = Key(w) PROVE v = w
    OBVIOUS
  <2>1. v.of = w.of /\ v.start = w.start /\ v.end = w.end /\ (v.from = "series" <=> w.from = "series")
    BY DEF Key
  <2>2. ASSUME NEW x \in views
        PROVE  /\ x = [of |-> x.of, start |-> x.start, end |-> x.end, from |-> x.from]
               /\ x.from \in {"series", "in place", "moved in"}
               /\ x.from = "in place" => \E o \in sub : x.of = o.of
               /\ x.from = "moved in" => \E o \in overrides \ sub : x.of = o.of
    <3> HIDE DEF sub, few, edited
    <3>1. CASE x \in series
      <4>1. PICK s \in few \ edited : x = View(s, s, master.length, "series")  BY <3>1
      <4>2. x = [of |-> s, start |-> s, end |-> s + master.length, from |-> "series"]
        BY <4>1 DEF View
      <4> QED  BY <4>2
    <3>2. CASE x \in inPlace
      <4>1. PICK o \in shows \cap sub : x = OwnView(o, "in place")  BY <3>2
      <4>2. o \in overrides /\ o \in sub  BY <4>1
      <4>3. x = [of |-> o.of, start |-> o.at, end |-> o.at + o.length, from |-> "in place"]
        BY <1>4, <4>1, <4>2
      <4>4. x.of = o.of /\ x.from = "in place"  BY <4>3
      <4> HIDE DEF shows
      <4> QED  BY <4>2, <4>3, <4>4
    <3>3. CASE x \in movedIn
      <4>1. PICK o \in shows \ sub : x = OwnView(o, "moved in")  BY <3>3
      <4>2. o \in overrides /\ o \notin sub  BY <4>1
      <4>3. x = [of |-> o.of, start |-> o.at, end |-> o.at + o.length, from |-> "moved in"]
        BY <1>4, <4>1, <4>2
      <4>4. x.of = o.of /\ x.from = "moved in"  BY <4>3
      <4> HIDE DEF shows
      <4> QED  BY <4>2, <4>3, <4>4
    <3> QED  BY <3>1, <3>2, <3>3
  <2>3. v.from = w.from
    <3> HIDE DEF views, sub
    <3>0. ASSUME NEW x \in views, NEW y \in views, x.of = y.of,
                 x.from = "in place", y.from = "moved in"
          PROVE  FALSE
      <4>1. PICK o \in sub : x.of = o.of  BY <2>2, <3>0
      <4>2. PICK q \in overrides \ sub : y.of = q.of  BY <2>2, <3>0
      <4> QED  BY <1>3, <3>0, <4>1, <4>2
    <3>1. ~(v.from = "in place" /\ w.from = "moved in") /\ ~(v.from = "moved in" /\ w.from = "in place")
      BY <2>1, <3>0
    <3> QED  BY <2>1, <2>2, <3>1
  <2> HIDE DEF views
  <2> QED  BY <2>1, <2>2, <2>3
<1>13. Cardinality(views) = Cardinality({Key(v) : v \in views})
  <2> DEFINE f == [v \in views |-> Key(v)]
  <2> HIDE DEF views
  <2>1. {f[v] : v \in views} = {Key(v) : v \in views}  OBVIOUS
  <2>2. \A v, w \in views : f[v] = f[w] => v = w  BY <1>12
  <2> HIDE DEF f
  <2>3. Cardinality({f[v] : v \in views}) = Cardinality(views)  BY <1>11, <2>2, ImageFacts
  <2> QED  BY <2>1, <2>3
<1> HIDE DEF views, plain, placements, listing, promised
<1> QED  BY <1>5, <1>6, <1>7, <1>10, <1>13 DEF listing, promised

---------------------------------------------------------------------------
(* The invariant of one event and its requests. *)

(* A request that waits for a step is under way.                           *)
LEMMA UnderWay ==
  ASSUME calls \in [EventRequests -> CallRecords \cup {NoCall}],
         NEW r \in EventRequests, calls[r].pc # "idle"
  PROVE  r \in InProgress /\ calls[r] \in CallRecords
BY DEF InProgress, NoCall

(* A step of a request that is under way keeps the invariant if it keeps   *)
(* that of the rows and of its own request, writes or takes in hand only   *)
(* overrides that there were, or a new one under its own id, and adds to   *)
(* the history only when nothing overlaps it.                              *)
LEMMA StepKeeps ==
  ASSUME CalendarInv, NEW r \in InProgress, NEW c \in CallRecords \cup {NoCall},
         calls' = [calls EXCEPT ![r] = c], left' = left,
         master' \in EventRows \cup {Null}, overrides' \subseteq OverrideRows,
         IsFiniteSet(overrides'), gone' \subseteq Int, placed' \subseteq OverrideRows,
         RowsInv',
         c # NoCall => /\ c.id = calls[r].id /\ c.alone = calls[r].alone
                       /\ c.pc # "overrides to edit" /\ CallInv(r)',
         calls[r].alone \/ (gone' \subseteq gone /\ placed' \subseteq placed),
         \A o \in overrides' \cup {w \in {c.row} : c # NoCall /\ c.pc \in HasOverride} :
             \/ \E w \in overrides \cup InHand : o.id = w.id /\ o.of = w.of
             \/ Awaits(r, "overrides to edit") /\ o.id = calls[r].id /\ o.of = calls[r].of
  PROVE  CalendarInv'
<1>1. calls \in [EventRequests -> CallRecords \cup {NoCall}] /\ r \in EventRequests
  BY DEF CalendarInv, CalendarTypeOK, InProgress
<1>2. calls' \in [EventRequests -> CallRecords \cup {NoCall}] /\ calls'[r] = c
  BY <1>1
<1>3. \A q \in EventRequests : q # r => calls'[q] = calls[q]
  BY <1>1
<1>4. CalendarTypeOK'
  BY <1>2 DEF CalendarInv, CalendarTypeOK
<1>5. /\ \A q \in InProgress' : q \in InProgress /\ (q = r => c # NoCall)
      /\ \A q \in InProgress : q # r => q \in InProgress'
  BY <1>1, <1>2, <1>3 DEF InProgress
<1>6. /\ \A q \in InProgress' : calls'[q].id = calls[q].id
      /\ \A q \in InProgress' : Awaits(q, "overrides to edit")' =>
              q # r /\ calls'[q] = calls[q] /\ Awaits(q, "overrides to edit")
  BY <1>2, <1>3, <1>5 DEF Awaits, InProgress
<1> DEFINE Known(o) ==
             \/ \E w \in overrides \cup InHand : o.id = w.id /\ o.of = w.of
             \/ Awaits(r, "overrides to edit") /\ o.id = calls[r].id /\ o.of = calls[r].of
<1>7. ASSUME NEW o \in (overrides \cup InHand)'  PROVE Known(o)
  <2>1. CASE o \in overrides'  BY <2>1
  <2>2. CASE o \in InHand'
    <3>1. PICK q \in InProgress' : calls'[q].pc \in HasOverride /\ o = calls'[q].row
      BY <2>2 DEF InHand
    <3>2. CASE q = r  BY <1>2, <1>5, <3>1, <3>2
    <3>3. CASE q # r
      <4>1. q \in InProgress /\ calls[q].pc \in HasOverride /\ o = calls[q].row
        BY <1>3, <1>5, <3>1, <3>3 DEF InProgress
      <4>2. o \in InHand  BY <4>1 DEF InHand
      <4> QED  BY <4>2
    <3> QED  BY <3>2, <3>3
  <2> QED  BY <2>1, <2>2
<1>8. IdsInv'
  <2>1. IdsInv  BY DEF CalendarInv
  <2> DEFINE old == overrides \cup InHand
             new == (overrides \cup InHand)'
  <2>2. /\ \A o, w \in old : o.id = w.id => o.of = w.of
        /\ \A o \in old : o.id > left
        /\ \A q \in InProgress : calls[q].id > left
        /\ \A q, s \in InProgress : calls[q].id = calls[s].id => q = s
        /\ \A q \in InProgress : Awaits(q, "overrides to edit") =>
              \A o \in old : o.id # calls[q].id
    BY <2>1 DEF IdsInv
  <2>3. \A o \in new : Known(o)  BY <1>7
  <2> HIDE DEF old, new
  <2>4. ASSUME NEW o \in new, NEW w \in new, o.id = w.id  PROVE o.of = w.of
    <3>1. Known(o) /\ Known(w)  BY <2>3
    <3> DEFINE Old(x) == \E y \in old : x.id = y.id /\ x.of = y.of
               New(x) == Awaits(r, "overrides to edit") /\ x.id = calls[r].id /\ x.of = calls[r].of
    <3>2. (Old(o) \/ New(o)) /\ (Old(w) \/ New(w))  BY <3>1 DEF old
    <3>3. CASE Old(o) /\ Old(w)  BY <2>2, <2>4, <3>3
    <3>4. CASE Old(o) /\ New(w)  BY <2>2, <2>4, <3>4
    <3>5. CASE New(o) /\ Old(w)  BY <2>2, <2>4, <3>5
    <3>6. CASE New(o) /\ New(w)  BY <3>6
    <3> QED  BY <3>2, <3>3, <3>4, <3>5, <3>6
  <2>5. ASSUME NEW o \in new  PROVE o.id > left'
    <3>1. CASE \E w \in old : o.id = w.id /\ o.of = w.of  BY <2>2, <3>1
    <3>2. CASE o.id = calls[r].id  BY <2>2, <3>2
    <3> QED  BY <2>3, <3>1, <3>2 DEF old
  <2>6. /\ \A q \in InProgress' : calls'[q].id > left'
        /\ \A q, s \in InProgress' : calls'[q].id = calls'[s].id => q = s
    <3>1. ASSUME NEW q \in InProgress'  PROVE calls'[q].id > left'
      <4>1. q \in InProgress /\ calls'[q].id = calls[q].id  BY <1>5, <1>6
      <4>2. calls[q].id > left  BY <2>2, <4>1
      <4> QED  BY <4>1, <4>2
    <3>2. ASSUME NEW q \in InProgress', NEW s \in InProgress', calls'[q].id = calls'[s].id
          PROVE  q = s
      <4>1. q \in InProgress /\ calls'[q].id = calls[q].id  BY <1>5, <1>6
      <4>2. s \in InProgress /\ calls'[s].id = calls[s].id  BY <1>5, <1>6
      <4> QED  BY <2>2, <3>2, <4>1, <4>2
    <3> QED  BY <3>1, <3>2
  <2>7. ASSUME NEW q \in InProgress', Awaits(q, "overrides to edit")', NEW o \in new
        PROVE  o.id # calls'[q].id
    <3>1. q \in InProgress /\ q # r /\ calls'[q] = calls[q] /\ Awaits(q, "overrides to edit")
      BY <1>5, <1>6, <2>7
    <3>2. CASE \E w \in old : o.id = w.id /\ o.of = w.of  BY <2>2, <3>1, <3>2
    <3>3. CASE o.id = calls[r].id  BY <2>2, <3>1, <3>3
    <3> QED  BY <2>3, <3>2, <3>3 DEF old
  <2> QED  BY <2>4, <2>5, <2>6, <2>7 DEF IdsInv, new
<1>9. ASSUME NEW q \in InProgress'  PROVE CallInv(q)'
  <2>1. CASE q = r  BY <1>5, <2>1
  <2>2. CASE q # r
    <3>1. q \in InProgress /\ calls'[q] = calls[q]  BY <1>3, <1>5, <2>2 DEF InProgress
    <3>2. CallInv(q) /\ CallInv(r)  BY <3>1 DEF CalendarInv
    <3>3. (calls[r].alone => InProgress = {r}) /\ (calls[q].alone => InProgress = {q})
      BY <3>2 DEF CallInv
    <3>4. ~calls[r].alone /\ ~calls[q].alone  BY <2>2, <3>1, <3>3
    <3> QED  BY <3>1, <3>2, <3>4 DEF CallInv
  <2> QED  BY <2>1, <2>2
<1> QED  BY <1>4, <1>8, <1>9 DEF CalendarInv

LEMMA OneLess ==
  ASSUME NEW n \in Nat, n > 0
  PROVE  /\ n - 1 \in Nat /\ n > n - 1
         /\ \A x \in Nat : x > n => x # n /\ x > n - 1
OBVIOUS

(* So does a request that arrives about one occurrence the history forgets.*)
LEMMA ArriveKeeps ==
  ASSUME CalendarInv, NEW r \in EventRequests, MayArrive(r),
         NEW c \in CallRecords, Arrive(r, c),
         gone' \subseteq gone, placed' \subseteq placed,
         c.pc \notin {"delete override", "exclude"},
         c.held # Null => c.held = master,
         c.pc \in HasMaster => c.held # Null,
         c.pc \in AboutOne =>
             c.of # Null /\ c.of \notin gone' /\ \A p \in placed' : p.of # c.of,
         c.pc \in HasOverride =>
             /\ c.row \in OverrideRows /\ c.row.of = c.of
             /\ \E w \in overrides : c.row.id = w.id /\ c.row.of = w.of
  PROVE  CalendarInv'
<1> DEFINE n == [c EXCEPT !.id = left, !.alone = (InProgress = {})]
<1>1. CalendarTypeOK /\ RowsInv /\ IdsInv /\ \A q \in InProgress : CallInv(q)
  BY DEF CalendarInv
<1>2. left \in Nat /\ left > 0 /\ left' = left - 1 /\ left' \in Nat /\ r \notin InProgress
  <2>1. left \in Nat  BY <1>1 DEF CalendarTypeOK
  <2>2. left > 0 /\ calls[r] = NoCall  BY DEF MayArrive
  <2>3. left' = left - 1  BY DEF Arrive
  <2>4. r \notin InProgress  BY <2>2 DEF InProgress
  <2>5. left' \in Nat
    <3>1. left - 1 \in Nat  BY <2>1, <2>2, OneLess
    <3> QED  BY <2>3, <3>1
  <2> QED  BY <2>1, <2>2, <2>3, <2>4, <2>5
<1>3. n \in CallRecords
  <2> DEFINE first == InProgress = {}
  <2>1. first \in BOOLEAN  OBVIOUS
  <2> HIDE DEF first
  <2>2. [c EXCEPT !.id = left, !.alone = first] \in CallRecords
    BY <1>2, <2>1 DEF CallRecords
  <2> QED  BY <2>2 DEF first
<1>4. /\ n.pc = c.pc /\ n.held = c.held /\ n.of = c.of /\ n.row = c.row
      /\ n.id = left /\ n.alone = (InProgress = {})
  BY DEF CallRecords
<1>5. master' = master /\ overrides' = overrides  BY DEF Arrive, rows
<1> DEFINE later(q) == [calls[q] EXCEPT !.alone = FALSE]
<1> HIDE DEF n
<1>6. calls' = [q \in EventRequests |-> IF q = r THEN n
                     ELSE IF calls[q] # NoCall THEN later(q) ELSE calls[q]]
  BY DEF Arrive, n
<1>7. calls \in [EventRequests -> CallRecords \cup {NoCall}]
  BY <1>1 DEF CalendarTypeOK
<1>8. ASSUME NEW q \in InProgress
      PROVE  /\ later(q) \in CallRecords /\ calls[q] \in CallRecords
             /\ later(q).pc = calls[q].pc /\ later(q).held = calls[q].held
             /\ later(q).of = calls[q].of /\ later(q).row = calls[q].row
             /\ later(q).id = calls[q].id /\ ~later(q).alone
  BY <1>7 DEF InProgress, CallRecords
<1>9. n # NoCall /\ \A q \in InProgress : later(q) # NoCall
  <2>1. NoCall \notin CallRecords  BY DEF NoCall, CallRecords
  <2> HIDE DEF later
  <2> QED  BY <1>3, <1>8, <2>1
<1>10. /\ calls' \in [EventRequests -> CallRecords \cup {NoCall}]
       /\ calls'[r] = n
       /\ \A q \in InProgress : calls'[q] = later(q)
       /\ InProgress' = InProgress \cup {r}
  <2> HIDE DEF later
  <2>1. calls'[r] = n /\ \A q \in InProgress : calls'[q] = later(q)
    BY <1>2, <1>6 DEF InProgress
  <2>2. \A q \in EventRequests : q # r /\ q \notin InProgress => calls'[q] = NoCall
    BY <1>6 DEF InProgress
  <2>3. InProgress' = InProgress \cup {r}  BY <1>9, <2>1, <2>2 DEF InProgress
  <2>4. \A q \in EventRequests : calls'[q] \in CallRecords \cup {NoCall}
    BY <1>3, <1>8, <2>1, <2>2
  <2>5. calls' = [q \in EventRequests |-> calls'[q]]  BY <1>6
  <2> QED  BY <2>1, <2>3, <2>4, <2>5
<1>11. CalendarTypeOK'
  BY <1>1, <1>2, <1>5, <1>10 DEF CalendarTypeOK
<1>12. RowsInv'
  BY <1>1, <1>5 DEF RowsInv
<1> DEFINE old == overrides \cup InHand
           new == (overrides \cup InHand)'
<1>13. \A o \in new : \E w \in old : o.id = w.id /\ o.of = w.of
  <2> HIDE DEF later
  <2> SUFFICES ASSUME NEW o \in new PROVE \E w \in old : o.id = w.id /\ o.of = w.of
    OBVIOUS
  <2>1. CASE o \in overrides'  BY <1>5, <2>1
  <2>2. CASE o \in InHand'
    <3>1. PICK q \in InProgress' : calls'[q].pc \in HasOverride /\ o = calls'[q].row
      BY <2>2 DEF InHand
    <3>2. CASE q = r
      <4>1. c.pc \in HasOverride /\ o = c.row  BY <1>4, <1>10, <3>1, <3>2
      <4> QED  BY <4>1
    <3>3. CASE q # r
      <4>1. q \in InProgress /\ calls[q].pc \in HasOverride /\ o = calls[q].row
        BY <1>8, <1>10, <3>1, <3>3
      <4>2. o \in InHand  BY <4>1 DEF InHand
      <4> QED  BY <4>2
    <3> QED  BY <3>2, <3>3
  <2> QED  BY <2>1, <2>2
<1>14. IdsInv'
  <2>0. /\ \A o, w \in old : o.id = w.id => o.of = w.of
        /\ \A o \in old : o.id > left
        /\ \A q \in InProgress : calls[q].id > left
        /\ \A q, s \in InProgress : calls[q].id = calls[s].id => q = s
        /\ \A q \in InProgress : Awaits(q, "overrides to edit") =>
              \A o \in old : o.id # calls[q].id
    BY <1>1 DEF IdsInv
  <2>1. \A q \in InProgress : calls'[q].id = calls[q].id /\ calls'[q].pc = calls[q].pc
    BY <1>8, <1>10
  <2>2. calls'[r].id = left  BY <1>4, <1>10
  <2> HIDE DEF later
  <2>3. \A o \in old : o.id \in Nat /\ o.id > left
    <3>1. overrides \subseteq OverrideRows /\ \A q \in InProgress : CallInv(q)
      BY <1>1 DEF CalendarTypeOK
    <3>2. InHand \subseteq OverrideRows  BY <3>1 DEF InHand, CallInv
    <3>3. \A o \in old : o.id \in Nat  BY <3>1, <3>2 DEF OverrideRows
    <3> QED  BY <2>0, <3>3
  <2>4. \A q \in InProgress : calls[q].id \in Nat /\ calls[q].id > left
    BY <1>8, <2>0 DEF CallRecords
  <2>5. \A x \in Nat : x > left => x # left /\ x > left'
    <3>1. \A x \in Nat : x > left => x # left /\ x > left - 1
      BY <1>2, OneLess
    <3> QED  BY <1>2, <3>1
  <2>6. left > left'
    <3>1. left > left - 1  BY <1>2, OneLess
    <3> QED  BY <1>2, <3>1
  <2> HIDE DEF old, new
  <2>7. ASSUME NEW o \in new, NEW w \in new, o.id = w.id  PROVE o.of = w.of
    <3>1. PICK x \in old : o.id = x.id /\ o.of = x.of  BY <1>13
    <3>2. PICK y \in old : w.id = y.id /\ w.of = y.of  BY <1>13
    <3> QED  BY <2>0, <2>7, <3>1, <3>2
  <2>8. \A o \in new : o.id > left' /\ o.id # left
    <3> SUFFICES ASSUME NEW o \in new PROVE o.id > left' /\ o.id # left  OBVIOUS
    <3>1. PICK w \in old : o.id = w.id  BY <1>13
    <3>2. w.id > left' /\ w.id # left  BY <2>3, <2>5
    <3> QED  BY <3>1, <3>2
  <2>9. ASSUME NEW q \in InProgress'  PROVE calls'[q].id > left'
    <3>1. CASE q = r  BY <2>2, <2>6, <3>1
    <3>2. CASE q \in InProgress
      <4>1. calls[q].id > left'  BY <2>4, <2>5, <3>2
      <4> QED  BY <2>1, <3>2, <4>1
    <3> QED  BY <1>10, <3>1, <3>2
  <2>10. ASSUME NEW q \in InProgress', NEW s \in InProgress', calls'[q].id = calls'[s].id
         PROVE  q = s
    <3>1. \A t \in InProgress : calls[t].id # left  BY <2>4, <2>5
    <3>2. CASE q \in InProgress /\ s \in InProgress
      <4>1. calls[q].id = calls[s].id  BY <2>1, <2>10, <3>2
      <4> QED  BY <2>0, <3>2, <4>1
    <3>3. CASE q = r /\ s \in InProgress  BY <2>1, <2>2, <2>10, <3>1, <3>3
    <3>4. CASE q \in InProgress /\ s = r  BY <2>1, <2>2, <2>10, <3>1, <3>4
    <3> QED  BY <1>10, <3>2, <3>3, <3>4
  <2>11. ASSUME NEW q \in InProgress', Awaits(q, "overrides to edit")', NEW o \in new
         PROVE  o.id # calls'[q].id
    <3>1. CASE q = r  BY <2>2, <2>8, <3>1
    <3>2. CASE q \in InProgress
      <4>1. Awaits(q, "overrides to edit")  BY <2>1, <2>11, <3>2 DEF Awaits
      <4>2. PICK w \in old : o.id = w.id  BY <1>13
      <4>3. w.id # calls[q].id  BY <2>0, <3>2, <4>1
      <4> QED  BY <2>1, <3>2, <4>2, <4>3
    <3> QED  BY <1>10, <3>1, <3>2
  <2> QED  BY <2>7, <2>8, <2>9, <2>10, <2>11 DEF IdsInv, new
<1>15. ASSUME NEW q \in InProgress'  PROVE CallInv(q)'
  <2> HIDE DEF later
  <2>1. CASE q = r
    <3>1. calls'[q] = n  BY <1>10, <2>1
    <3>2. n.held # Null => gone' \subseteq n.held.exdates
      <4>1. n.held = c.held  BY <1>4
      <4>2. gone # {} => gone \subseteq master.exdates  BY <1>1 DEF RowsInv
      <4>3. gone' \subseteq master.exdates  BY <4>2
      <4> QED  BY <4>1, <4>3
    <3>3. n.alone => InProgress' = {q}  BY <1>4, <1>10, <2>1
    <3> QED  BY <1>4, <3>1, <3>2, <3>3 DEF CallInv
  <2>2. CASE q \in InProgress
    <3>1. CallInv(q)  BY <1>1, <2>2
    <3>2. /\ calls'[q].pc = calls[q].pc /\ calls'[q].held = calls[q].held
          /\ calls'[q].of = calls[q].of /\ calls'[q].row = calls[q].row
          /\ ~calls'[q].alone
      BY <1>8, <1>10, <2>2
    <3> QED  BY <3>1, <3>2 DEF CallInv
  <2> QED  BY <1>10, <2>1, <2>2
<1> HIDE DEF old, new, later
<1> QED  BY <1>11, <1>12, <1>14, <1>15 DEF CalendarInv

LEMMA CallTyped ==
  ASSUME NEW pc \in {"save", "delete", "master to edit", "master to delete",
                     "master of occurrence", "overrides to edit", "save override",
                     "overrides to delete"},
         NEW held \in EventRows \cup {Null}, NEW of \in Int \cup {Null},
         NEW row \in OverrideRows \cup {Null}, NEW shift \in Int \cup {Null},
         NEW rule \in Rules \cup {Null, LeftOut}
  PROVE  Call(pc, held, of, row, shift, rule) \in CallRecords
<1> DEFINE alone == TRUE
<1>1. alone \in BOOLEAN  OBVIOUS
<1> HIDE DEF alone
<1>2. [pc |-> pc, held |-> held, of |-> of, row |-> row, shift |-> shift, rule |-> rule,
       id |-> 0, alone |-> alone] \in CallRecords
  BY <1>1 DEF CallRecords
<1> QED  BY <1>2 DEF Call, alone

LEMMA ArrivalFacts ==
  ASSUME CalendarInv
  PROVE  /\ master \in EventRows \cup {Null} /\ overrides \subseteq OverrideRows
         /\ Moves \subseteq Int \cup {Null}
         /\ NewRules \cup {LeftOut} \subseteq Rules \cup {Null, LeftOut}
         /\ Nameable \subseteq Int /\ Null \notin Int
<1>1. master \in EventRows \cup {Null} /\ overrides \subseteq OverrideRows
  BY DEF CalendarInv, CalendarTypeOK
<1>2. Moves \subseteq Int \cup {Null}  BY CalendarEventsAssumption DEF Moves
<1>3. NewRules \cup {LeftOut} \subseteq Rules \cup {Null, LeftOut}
  BY CalendarEventsAssumption
<1>4. Null \notin Int  BY RecurrenceAssumption
<1>5. Nameable \subseteq Int
  BY CalendarEventsAssumption DEF CalendarInv, CalendarTypeOK, Nameable
<1> QED  BY <1>1, <1>2, <1>3, <1>4, <1>5

LEMMA MovedFacts ==
  ASSUME NEW shift \in Int \cup {Null}
  PROVE  /\ \A o \in OverrideRows : /\ Moved(o, shift) \in OverrideRows
                                    /\ Moved(o, shift).id = o.id /\ Moved(o, shift).of = o.of
         /\ \A e \in EventRows : /\ Moved(e, shift) \in EventRows
                                 /\ Moved(e, shift).exdates = e.exdates
<1>1. CASE shift = Null  BY <1>1 DEF Moved
<1>2. CASE shift \in Int
  BY <1>2, RecurrenceAssumption DEF Moved, OverrideRows, EventRows
<1> QED  BY <1>1, <1>2

LEMMA EditSeriesKeeps ==
  ASSUME CalendarInv, NEW r \in EventRequests, EditSeries(r) \/ EditSeriesOfOverride(r)
  PROVE  CalendarInv'
<1>1. PICK pc \in {"save", "master to edit"}, held \in {master, Null},
           shift \in Moves, rule \in NewRules \cup {LeftOut} :
         /\ MayArrive(r) /\ UNCHANGED history
         /\ Arrive(r, Call(pc, held, Null, Null, shift, rule))
         /\ pc = "save" => held # Null
  BY DEF EditSeries, EditSeriesOfOverride
<1> DEFINE c == Call(pc, held, Null, Null, shift, rule)
<1>2. held \in EventRows \cup {Null} /\ Null \in Int \cup {Null} /\ Null \in OverrideRows \cup {Null}
      /\ shift \in Int \cup {Null} /\ rule \in Rules \cup {Null, LeftOut}
  BY ArrivalFacts
<1>3. c \in CallRecords  BY <1>2, CallTyped
<1>4. c.pc = pc /\ c.held = held  BY DEF Call
<1>5. gone' = gone /\ placed' = placed  BY <1>1 DEF history
<1>6. pc \notin AboutOne /\ (pc \in HasMaster => pc = "save") /\ pc \notin HasOverride
  BY DEF AboutOne, HasMaster, HasOverride
<1> HIDE DEF c
<1> QED  BY <1>1, <1>3, <1>4, <1>5, <1>6, ArriveKeeps DEF c

LEMMA EditOccurrenceKeeps ==
  ASSUME CalendarInv, NEW r \in EventRequests, EditOccurrence(r)
  PROVE  CalendarInv'
<1>1. PICK of \in Nameable, shift \in Moves, pc \in {"save", "overrides to edit"} :
         /\ MayArrive(r) /\ master # Null /\ Forgets(of)
         /\ Arrive(r, Call(pc, master, of, Null, shift, LeftOut))
  BY DEF EditOccurrence
<1> DEFINE c == Call(pc, master, of, Null, shift, LeftOut)
<1>2. c \in CallRecords
  <2>1. master \in EventRows \cup {Null} /\ of \in Int \cup {Null} /\ shift \in Int \cup {Null}
    BY ArrivalFacts
  <2> QED  BY <2>1, CallTyped
<1>3. c.pc = pc /\ c.held = master /\ c.of = of  BY DEF Call
<1>4. /\ gone' \subseteq gone /\ placed' \subseteq placed /\ of # Null
      /\ of \notin gone' /\ \A p \in placed' : p.of # of
  BY <1>1, ArrivalFacts DEF Forgets
<1>5. pc \notin HasOverride  BY DEF HasOverride
<1> HIDE DEF c
<1> QED  BY <1>1, <1>2, <1>4, <1>5, <1>3, ArriveKeeps DEF c

LEMMA EditOverrideKeeps ==
  ASSUME CalendarInv, NEW r \in EventRequests, EditOverride(r)
  PROVE  CalendarInv'
<1>1. PICK o \in overrides, shift \in Moves :
         /\ MayArrive(r) /\ Forgets(o.of)
         /\ Arrive(r, Call("save override", Null, o.of, Moved(o, shift), shift, LeftOut))
  BY DEF EditOverride
<1> DEFINE c == Call("save override", Null, o.of, Moved(o, shift), shift, LeftOut)
<1>2. /\ Moved(o, shift) \in OverrideRows
      /\ Moved(o, shift).id = o.id /\ Moved(o, shift).of = o.of
      /\ o.of \in Int
  BY ArrivalFacts, MovedFacts DEF OverrideRows
<1>3. c \in CallRecords
  <2>1. Moved(o, shift) \in OverrideRows \cup {Null} /\ o.of \in Int \cup {Null}
        /\ shift \in Int \cup {Null}
    BY <1>2, ArrivalFacts
  <2> QED  BY <2>1, CallTyped
<1>4. c.pc = "save override" /\ c.held = Null /\ c.of = o.of /\ c.row = Moved(o, shift)
  BY DEF Call
<1>5. /\ gone' \subseteq gone /\ placed' \subseteq placed /\ o.of # Null
      /\ o.of \notin gone' /\ \A p \in placed' : p.of # o.of
  BY <1>1, <1>2, ArrivalFacts DEF Forgets
<1>6. "save override" \notin HasMaster  BY DEF HasMaster
<1> HIDE DEF c
<1> QED  BY <1>1, <1>2, <1>3, <1>5, <1>6, <1>4, ArriveKeeps DEF c

LEMMA DeleteSeriesKeeps ==
  ASSUME CalendarInv, NEW r \in EventRequests, DeleteSeries(r) \/ DeleteSeriesOfOverride(r)
  PROVE  CalendarInv'
<1>1. PICK pc \in {"delete", "master to delete"}, held \in {master, Null} :
         /\ MayArrive(r) /\ UNCHANGED history
         /\ Arrive(r, Call(pc, held, Null, Null, Null, LeftOut))
         /\ pc = "delete" => held # Null
  BY DEF DeleteSeries, DeleteSeriesOfOverride
<1> DEFINE c == Call(pc, held, Null, Null, Null, LeftOut)
<1>2. held \in EventRows \cup {Null} /\ Null \in Int \cup {Null} /\ Null \in OverrideRows \cup {Null}
      /\ LeftOut \in Rules \cup {Null, LeftOut}
  BY ArrivalFacts
<1>3. c \in CallRecords  BY <1>2, CallTyped
<1>4. c.pc = pc /\ c.held = held  BY DEF Call
<1>5. gone' = gone /\ placed' = placed  BY <1>1 DEF history
<1>6. pc \notin AboutOne /\ (pc \in HasMaster => pc = "delete") /\ pc \notin HasOverride
  BY DEF AboutOne, HasMaster, HasOverride
<1> HIDE DEF c
<1> QED  BY <1>1, <1>3, <1>4, <1>5, <1>6, ArriveKeeps DEF c

LEMMA DeleteOccurrenceKeeps ==
  ASSUME CalendarInv, NEW r \in EventRequests, DeleteOccurrence(r) \/ DeleteOverride(r)
  PROVE  CalendarInv'
<1>1. PICK pc \in {"delete", "overrides to delete", "master of occurrence"},
           held \in {master, Null}, of \in Nameable \cup {o.of : o \in overrides} :
         /\ MayArrive(r) /\ Forgets(of)
         /\ Arrive(r, Call(pc, held, of, Null, Null, LeftOut))
         /\ pc # "master of occurrence" => held # Null
  BY DEF DeleteOccurrence, DeleteOverride
<1> DEFINE c == Call(pc, held, of, Null, Null, LeftOut)
<1>2. of \in Int  BY ArrivalFacts DEF OverrideRows
<1>3. c \in CallRecords
  <2>1. held \in EventRows \cup {Null} /\ of \in Int \cup {Null}  BY <1>2, ArrivalFacts
  <2> QED  BY <2>1, CallTyped
<1>4. c.pc = pc /\ c.held = held /\ c.of = of  BY DEF Call
<1>5. /\ gone' \subseteq gone /\ placed' \subseteq placed /\ of # Null
      /\ of \notin gone' /\ \A p \in placed' : p.of # of
  BY <1>1, <1>2, ArrivalFacts DEF Forgets
<1>6. (pc \in HasMaster => pc # "master of occurrence") /\ pc \notin HasOverride
  BY DEF HasMaster, HasOverride
<1> HIDE DEF c
<1> QED  BY <1>1, <1>3, <1>5, <1>6, <1>4, ArriveKeeps DEF c

(* What the invariant says of a request that waits for a step.             *)
LEMMA Waiting ==
  ASSUME CalendarInv, NEW r \in EventRequests, calls[r].pc # "idle"
  PROVE  /\ r \in InProgress /\ calls[r] \in CallRecords /\ CallInv(r)
         /\ CalendarTypeOK /\ RowsInv /\ IdsInv
         /\ NoCall \in CallRecords \cup {NoCall}
         /\ master \in EventRows \cup {Null} /\ overrides \subseteq OverrideRows
         /\ IsFiniteSet(overrides) /\ gone \subseteq Int /\ placed \subseteq OverrideRows
         /\ \A o \in overrides : \E w \in overrides \cup InHand : o.id = w.id /\ o.of = w.of
<1>1. CalendarTypeOK /\ RowsInv /\ IdsInv /\ \A q \in InProgress : CallInv(q)
  BY DEF CalendarInv
<1>2. calls \in [EventRequests -> CallRecords \cup {NoCall}]  BY <1>1 DEF CalendarTypeOK
<1>3. r \in InProgress /\ calls[r] \in CallRecords  BY <1>2, UnderWay
<1> QED  BY <1>1, <1>3 DEF CalendarTypeOK

(* A request that ends, and writes nothing.                                *)
LEMMA EndKeeps ==
  ASSUME CalendarInv, NEW r \in InProgress, Ends(r), UNCHANGED <<rows, left, history>>
  PROVE  CalendarInv'
<1>1. CalendarTypeOK /\ RowsInv  BY DEF CalendarInv
<1>2. /\ master' = master /\ overrides' = overrides /\ left' = left
      /\ gone' = gone /\ placed' = placed /\ calls' = [calls EXCEPT ![r] = NoCall]
  BY DEF Ends, rows, history
<1>3. RowsInv'  BY <1>1, <1>2 DEF RowsInv
<1>4. /\ master' \in EventRows \cup {Null} /\ overrides' \subseteq OverrideRows
      /\ IsFiniteSet(overrides') /\ gone' \subseteq Int /\ placed' \subseteq OverrideRows
  BY <1>1, <1>2 DEF CalendarTypeOK
<1> QED  BY <1>2, <1>3, <1>4, StepKeeps

LEMMA ReadMasterKeeps ==
  ASSUME CalendarInv, NEW r \in EventRequests, ReadMaster(r)
  PROVE  CalendarInv'
<1>1. PICK from \in {"master to edit", "master to delete", "master of occurrence"},
           to \in {"save", "delete", "overrides to delete"} :
         /\ calls[r].pc = from
         /\ from # "master of occurrence" => to # "overrides to delete"
         /\ from = "master of occurrence" => to = "overrides to delete"
         /\ IF master = Null THEN Ends(r)
            ELSE calls' = [calls EXCEPT ![r].pc = to, ![r].held = master]
         /\ UNCHANGED <<rows, left, history>>
  <2>1. PICK next \in {<<"master to edit", "save">>, <<"master to delete", "delete">>,
                       <<"master of occurrence", "overrides to delete">>} :
           /\ calls[r].pc = next[1]
           /\ IF master = Null THEN Ends(r)
              ELSE calls' = [calls EXCEPT ![r].pc = next[2], ![r].held = master]
           /\ UNCHANGED <<rows, left, history>>
    BY DEF ReadMaster, Awaits
  <2>2. /\ next[1] \in {"master to edit", "master to delete", "master of occurrence"}
        /\ next[2] \in {"save", "delete", "overrides to delete"}
        /\ next[1] # "master of occurrence" => next[2] # "overrides to delete"
        /\ next[1] = "master of occurrence" => next[2] = "overrides to delete"
    <3>1. CASE next = <<"master to edit", "save">>  BY <3>1
    <3>2. CASE next = <<"master to delete", "delete">>  BY <3>2
    <3>3. CASE next = <<"master of occurrence", "overrides to delete">>  BY <3>3
    <3> QED  BY <2>1, <3>1, <3>2, <3>3
  <2> QED  BY <2>1, <2>2
<1>2. /\ r \in InProgress /\ calls[r] \in CallRecords /\ CallInv(r)
      /\ RowsInv /\ calls \in [EventRequests -> CallRecords \cup {NoCall}]
      /\ master \in EventRows \cup {Null} /\ overrides \subseteq OverrideRows
      /\ IsFiniteSet(overrides) /\ gone \subseteq Int /\ placed \subseteq OverrideRows
      /\ \A o \in overrides : \E w \in overrides \cup InHand : o.id = w.id /\ o.of = w.of
  BY <1>1, Waiting DEF CalendarTypeOK
<1>3. CASE master = Null  BY <1>1, <1>2, <1>3, EndKeeps
<1>4. CASE master # Null
  <2> DEFINE c == [calls[r] EXCEPT !.pc = to, !.held = master]
  <2>1. /\ c \in CallRecords /\ c.pc = to /\ c.held = master
        /\ c.of = calls[r].of /\ c.row = calls[r].row
        /\ c.id = calls[r].id /\ c.alone = calls[r].alone
    BY <1>2 DEF CallRecords
  <2> HIDE DEF c
  <2>2. /\ master' = master /\ overrides' = overrides /\ left' = left
        /\ gone' = gone /\ placed' = placed
    BY <1>1 DEF rows, history
  <2>3. calls' = [calls EXCEPT ![r] = c]  BY <1>1, <1>2, <1>4 DEF c
  <2>4. calls'[r] = c /\ InProgress' = InProgress
    <3>1. NoCall \notin CallRecords  BY DEF NoCall, CallRecords
    <3> QED  BY <1>2, <2>1, <2>3, <3>1 DEF InProgress
  <2>5. RowsInv'  BY <1>2, <2>2 DEF RowsInv
  <2>6. CallInv(r)'
    <3>1. gone \subseteq master.exdates  BY <1>2 DEF RowsInv
    <3>2. to \in AboutOne => calls[r].pc \in AboutOne
      <4>1. to \in AboutOne => to = "overrides to delete"
        BY DEF AboutOne, HasOverride
      <4>2. "master of occurrence" \in AboutOne  BY DEF AboutOne
      <4> QED  BY <1>1, <4>1, <4>2
    <3>3. to \notin HasOverride  BY DEF HasOverride
    <3> QED  BY <1>1, <1>2, <1>4, <2>1, <2>2, <2>4, <3>1, <3>2, <3>3 DEF CallInv
  <2>7. c.pc \notin HasOverride /\ c.pc # "overrides to edit"  BY <2>1 DEF HasOverride
  <2> QED  BY <1>2, <2>1, <2>2, <2>3, <2>5, <2>6, <2>7, StepKeeps
<1> QED  BY <1>3, <1>4

LEMMA PatchedFacts ==
  ASSUME NEW call \in CallRecords, call.held \in EventRows
  PROVE  Patched(call.held, call) \in EventRows
         /\ Patched(call.held, call).exdates = call.held.exdates
<1>1. call.shift \in Int \cup {Null} /\ call.rule \in Rules \cup {Null, LeftOut}
  BY DEF CallRecords
<1> DEFINE m == Moved(call.held, call.shift)
<1>2. m \in EventRows /\ m.exdates = call.held.exdates  BY <1>1, MovedFacts
<1> HIDE DEF m
<1>3. CASE call.rule = LeftOut  BY <1>2, <1>3 DEF Patched, m
<1>4. CASE call.rule # LeftOut
  <2>1. Patched(call.held, call) = [m EXCEPT !.rule = call.rule]  BY <1>4 DEF Patched, m
  <2>2. call.rule \in Rules \cup {Null}  BY <1>1, <1>4
  <2> QED  BY <1>2, <2>1, <2>2 DEF EventRows
<1> QED  BY <1>3, <1>4

LEMMA SaveMasterKeeps ==
  ASSUME CalendarInv, NEW r \in EventRequests, SaveMaster(r)
  PROVE  CalendarInv'
<1>1. /\ calls[r].pc = "save" /\ master' = Patched(calls[r].held, calls[r])
      /\ calls' = [calls EXCEPT ![r] = NoCall] /\ overrides' = overrides
      /\ left' = left /\ gone' = gone /\ placed' = placed
  BY DEF SaveMaster, Awaits, Ends, history
<1>2. /\ r \in InProgress /\ calls[r] \in CallRecords /\ CallInv(r) /\ RowsInv
      /\ overrides \subseteq OverrideRows
      /\ IsFiniteSet(overrides) /\ gone \subseteq Int /\ placed \subseteq OverrideRows
      /\ \A o \in overrides : \E w \in overrides \cup InHand : o.id = w.id /\ o.of = w.of
  BY <1>1, Waiting
<1>3. calls[r].held # Null /\ gone \subseteq calls[r].held.exdates
  BY <1>1, <1>2 DEF CallInv, HasMaster
<1>4. calls[r].held \in EventRows  BY <1>2, <1>3 DEF CallRecords
<1>5. master' \in EventRows /\ gone \subseteq master'.exdates
  BY <1>1, <1>2, <1>3, <1>4, PatchedFacts
<1>6. RowsInv'
  BY <1>1, <1>2, <1>5, CalendarEventsAssumption DEF RowsInv
<1> QED  BY <1>1, <1>2, <1>5, <1>6, StepKeeps

LEMMA DeleteMasterKeeps ==
  ASSUME CalendarInv, NEW r \in EventRequests, DeleteMaster(r)
  PROVE  CalendarInv'
<1>1. /\ calls[r].pc = "delete" /\ master' = Null
      /\ calls' = [calls EXCEPT ![r] = NoCall] /\ overrides' = {}
      /\ left' = left /\ gone' = {} /\ placed' = {}
  BY DEF DeleteMaster, Awaits, Ends
<1>2. r \in InProgress  BY <1>1, Waiting
<1>3. RowsInv'  BY <1>1 DEF RowsInv
<1> QED  BY <1>1, <1>2, <1>3, StepKeeps, FS_EmptySet

LEMMA EvictKeeps ==
  ASSUME CalendarInv, NEW r \in EventRequests, Evict(r)
  PROVE  CalendarInv'
<1>1. r \in InProgress  BY DEF Evict, InProgress
<1> QED  BY <1>1, EndKeeps DEF Evict

LEMMA FindOverrideKeeps ==
  ASSUME CalendarInv, NEW r \in EventRequests, FindOverride(r)
  PROVE  CalendarInv'
<1> DEFINE call == calls[r]
           existing == OverrideOf(call.of)
<1>1. call.pc = "overrides to edit"  BY DEF FindOverride, Awaits
<1>2. /\ r \in InProgress /\ call \in CallRecords /\ CallInv(r)
      /\ RowsInv /\ calls \in [EventRequests -> CallRecords \cup {NoCall}]
      /\ master \in EventRows \cup {Null} /\ overrides \subseteq OverrideRows
      /\ IsFiniteSet(overrides) /\ gone \subseteq Int /\ placed \subseteq OverrideRows
      /\ \A o \in overrides : \E w \in overrides \cup InHand : o.id = w.id /\ o.of = w.of
  BY <1>1, Waiting DEF CalendarTypeOK
<1>3. /\ master' = master /\ overrides' = overrides /\ left' = left
      /\ gone' = gone /\ placed' = placed
  BY DEF FindOverride, rows, history
<1>4. PICK row \in IF existing = {} THEN {NewOverride(call)}
                   ELSE {Moved(o, call.shift) : o \in existing} :
         calls' = [calls EXCEPT ![r].pc = "save override", ![r].row = row]
  BY DEF FindOverride
<1>5. call.held # Null /\ call.of # Null  BY <1>1, <1>2 DEF CallInv, HasMaster, AboutOne
<1>6. /\ call.held \in EventRows /\ call.of \in Int /\ call.id \in Nat
      /\ call.shift \in Int \cup {Null}
  BY <1>2, <1>5 DEF CallRecords
<1>7. /\ row \in OverrideRows /\ row.of = call.of
      /\ \/ \E w \in overrides : row.id = w.id /\ row.of = w.of
         \/ row.id = call.id
  <2>1. CASE existing = {}
    <3> DEFINE at == IF call.shift # Null THEN call.of + call.shift
                     ELSE IF call.held.allDay THEN call.held.at ELSE call.of
    <3>1. at \in Int  BY <1>6 DEF EventRows
    <3>2. row = Override(call.id, call.of, at, call.held)  BY <1>4, <2>1 DEF NewOverride
    <3> HIDE DEF at, call
    <3>3. row = [id |-> call.id, of |-> call.of, at |-> at, length |-> call.held.length,
                 zone |-> call.held.zone, rule |-> Null, exdates |-> {}]
      BY <3>2 DEF Override
    <3>4. call.held.length \in Nat /\ call.held.zone \in DOMAIN Zones  BY <1>6 DEF EventRows
    <3>5. row \in OverrideRows  BY <1>6, <3>1, <3>3, <3>4 DEF OverrideRows
    <3> QED  BY <3>3, <3>5
  <2>2. CASE existing # {}
    <3>1. PICK o \in existing : row = Moved(o, call.shift)  BY <1>4, <2>2
    <3>2. o \in overrides /\ o.of = call.of /\ o \in OverrideRows
      BY <1>2, <3>1 DEF OverrideOf
    <3> QED  BY <1>6, <3>1, <3>2, MovedFacts
  <2> QED  BY <2>1, <2>2
<1> DEFINE c == [call EXCEPT !.pc = "save override", !.row = row]
<1>8. /\ c \in CallRecords /\ c.pc = "save override" /\ c.held = call.held
      /\ c.of = call.of /\ c.row = row /\ c.id = call.id /\ c.alone = call.alone
  BY <1>2, <1>7 DEF CallRecords
<1> HIDE DEF c
<1>9. calls' = [calls EXCEPT ![r] = c]  BY <1>2, <1>4 DEF c
<1>10. calls'[r] = c /\ InProgress' = InProgress
  <2>1. NoCall \notin CallRecords  BY DEF NoCall, CallRecords
  <2> QED  BY <1>2, <1>8, <1>9, <2>1 DEF InProgress
<1>11. RowsInv'  BY <1>2, <1>3 DEF RowsInv
<1>12. CallInv(r)'
  <2>1. "overrides to edit" \in AboutOne /\ "save override" \notin HasMaster
    BY DEF AboutOne, HasMaster
  <2> HIDE DEF call
  <2> QED  BY <1>1, <1>2, <1>3, <1>7, <1>8, <1>10, <2>1 DEF CallInv, call
<1>13. ASSUME NEW o \in overrides' \cup {w \in {c.row} : c # NoCall /\ c.pc \in HasOverride}
       PROVE  \/ \E w \in overrides \cup InHand : o.id = w.id /\ o.of = w.of
              \/ Awaits(r, "overrides to edit") /\ o.id = calls[r].id /\ o.of = calls[r].of
  <2>1. CASE o \in overrides  BY <1>2, <2>1
  <2>2. CASE o = row
    <3>1. CASE row.id = call.id  BY <1>1, <1>7, <2>2, <3>1 DEF Awaits
    <3>2. CASE \E w \in overrides : row.id = w.id /\ row.of = w.of  BY <2>2, <3>2
    <3> QED  BY <1>7, <3>1, <3>2
  <2> QED  BY <1>3, <1>8, <2>1, <2>2
<1>14. c # NoCall => /\ c.id = calls[r].id /\ c.alone = calls[r].alone
                     /\ c.pc # "overrides to edit" /\ CallInv(r)'
  BY <1>8, <1>12
<1>15. /\ master' \in EventRows \cup {Null} /\ overrides' \subseteq OverrideRows
       /\ IsFiniteSet(overrides') /\ gone' \subseteq Int /\ placed' \subseteq OverrideRows
  BY <1>2, <1>3
<1> HIDE DEF call
<1> QED  BY <1>2, <1>3, <1>8, <1>9, <1>11, <1>13, <1>14, <1>15, StepKeeps

LEMMA ListOverridesKeeps ==
  ASSUME CalendarInv, NEW r \in EventRequests, ListOverrides(r)
  PROVE  CalendarInv'
<1> DEFINE call == calls[r]
           existing == OverrideOf(call.of)
<1>1. call.pc = "overrides to delete"  BY DEF ListOverrides, Awaits
<1>2. /\ r \in InProgress /\ call \in CallRecords /\ CallInv(r)
      /\ RowsInv /\ calls \in [EventRequests -> CallRecords \cup {NoCall}]
      /\ master \in EventRows \cup {Null} /\ overrides \subseteq OverrideRows
      /\ IsFiniteSet(overrides) /\ gone \subseteq Int /\ placed \subseteq OverrideRows
      /\ \A o \in overrides : \E w \in overrides \cup InHand : o.id = w.id /\ o.of = w.of
  BY <1>1, Waiting DEF CalendarTypeOK
<1>3. /\ master' = master /\ overrides' = overrides /\ left' = left
      /\ gone' = gone /\ placed' = placed
  BY DEF ListOverrides, rows, history
<1>4. PICK to \in {"exclude", "delete override"}, row \in OverrideRows \cup {call.row} :
        /\ calls' = [calls EXCEPT ![r].pc = to, ![r].row = row]
        /\ to = "exclude" => existing = {}
        /\ to = "delete override" => row \in existing
  <2>1. CASE existing = {}
    <3>1. calls' = [calls EXCEPT ![r].pc = "exclude"]  BY <2>1 DEF ListOverrides, Goes
    <3>2. calls' = [calls EXCEPT ![r].pc = "exclude", ![r].row = call.row]
      BY <1>2, <3>1 DEF CallRecords
    <3> QED  BY <2>1, <3>2
  <2>2. CASE existing # {}
    <3>1. PICK o \in existing :
             calls' = [calls EXCEPT ![r].pc = "delete override", ![r].row = o]
      BY <2>2 DEF ListOverrides
    <3>2. o \in OverrideRows  BY <1>2 DEF OverrideOf
    <3> QED  BY <3>1, <3>2
  <2> QED  BY <2>1, <2>2
<1> DEFINE c == [call EXCEPT !.pc = to, !.row = row]
<1>5. /\ c \in CallRecords /\ c.pc = to /\ c.held = call.held
      /\ c.of = call.of /\ c.row = row /\ c.id = call.id /\ c.alone = call.alone
  BY <1>2 DEF CallRecords
<1> HIDE DEF c
<1>6. calls' = [calls EXCEPT ![r] = c]  BY <1>2, <1>4 DEF c
<1>7. calls'[r] = c /\ InProgress' = InProgress
  <2>1. NoCall \notin CallRecords  BY DEF NoCall, CallRecords
  <2> QED  BY <1>2, <1>5, <1>6, <2>1 DEF InProgress
<1>8. RowsInv'  BY <1>2, <1>3 DEF RowsInv
<1>9. /\ to = "delete override" => row \in overrides /\ row \in OverrideRows /\ row.of = call.of
      /\ to = "delete override" => existing \subseteq {row}
  <2> SUFFICES ASSUME to = "delete override"
               PROVE  /\ row \in overrides /\ row \in OverrideRows /\ row.of = call.of
                      /\ existing \subseteq {row}
    OBVIOUS
  <2>1. row \in overrides /\ row.of = call.of /\ \A o \in existing : o \in overrides /\ o.of = call.of
    BY <1>4 DEF OverrideOf
  <2>2. \A o, w \in overrides : o.of = w.of => o = w  BY <1>2 DEF RowsInv
  <2> HIDE DEF existing, call
  <2> QED  BY <1>2, <2>1, <2>2
<1>10. CallInv(r)'
  <2>1. /\ "overrides to delete" \in AboutOne /\ "overrides to delete" \in HasMaster
        /\ to \in HasOverride => to = "delete override"
    BY DEF AboutOne, HasMaster, HasOverride
  <2>2. OverrideOf(calls[r].of)' = existing
    BY <1>3, <1>5, <1>7 DEF OverrideOf
  <2>3. /\ call.held # Null /\ gone \subseteq call.held.exdates
        /\ call.of # Null /\ call.of \notin gone /\ \A p \in placed : p.of # call.of
        /\ call.alone => InProgress = {r}
    BY <1>1, <1>2, <2>1 DEF CallInv
  <2> HIDE DEF existing, call
  <2>4. to \in HasOverride => c.row \in OverrideRows /\ c.row.of = c.of
    BY <1>5, <1>9, <2>1
  <2>5. c.alone => /\ InProgress' = {r}
                   /\ to = "delete override" => existing \subseteq {c.row}
                   /\ to = "exclude" => existing = {}
    BY <1>4, <1>5, <1>7, <1>9, <2>3
  <2> QED  BY <1>3, <1>5, <1>7, <2>2, <2>3, <2>4, <2>5 DEF CallInv
<1>11. ASSUME NEW o \in overrides' \cup {w \in {c.row} : c # NoCall /\ c.pc \in HasOverride}
       PROVE  \E w \in overrides \cup InHand : o.id = w.id /\ o.of = w.of
  <2>1. to \in HasOverride => to = "delete override"  BY <1>4 DEF HasOverride
  <2> QED  BY <1>2, <1>3, <1>5, <1>9, <2>1
<1>12. c # NoCall => /\ c.id = calls[r].id /\ c.alone = calls[r].alone
                     /\ c.pc # "overrides to edit" /\ CallInv(r)'
  BY <1>5, <1>10
<1>13. /\ master' \in EventRows \cup {Null} /\ overrides' \subseteq OverrideRows
       /\ IsFiniteSet(overrides') /\ gone' \subseteq Int /\ placed' \subseteq OverrideRows
  BY <1>2, <1>3
<1> HIDE DEF call, existing
<1> QED  BY <1>2, <1>3, <1>5, <1>6, <1>8, <1>11, <1>12, <1>13, StepKeeps

LEMMA DeleteRowKeeps ==
  ASSUME CalendarInv, NEW r \in EventRequests, DeleteRow(r)
  PROVE  CalendarInv'
<1> DEFINE call == calls[r]
<1>1. call.pc = "delete override"  BY DEF DeleteRow, Awaits
<1>2. /\ r \in InProgress /\ call \in CallRecords /\ CallInv(r)
      /\ RowsInv /\ calls \in [EventRequests -> CallRecords \cup {NoCall}]
      /\ master \in EventRows \cup {Null} /\ overrides \subseteq OverrideRows
      /\ IsFiniteSet(overrides) /\ gone \subseteq Int /\ placed \subseteq OverrideRows
      /\ \A o \in overrides : \E w \in overrides \cup InHand : o.id = w.id /\ o.of = w.of
  BY <1>1, Waiting DEF CalendarTypeOK
<1>3. /\ master' = master /\ left' = left /\ gone' = gone /\ placed' = placed
      /\ overrides' = {o \in overrides : o.id # call.row.id}
      /\ calls' = [calls EXCEPT ![r].pc = "exclude"]
  BY DEF DeleteRow, Goes, history
<1>4. /\ call.held # Null /\ gone \subseteq call.held.exdates
      /\ call.of # Null /\ call.of \notin gone /\ \A p \in placed : p.of # call.of
      /\ call.row \in OverrideRows /\ call.row.of = call.of
      /\ call.alone => InProgress = {r} /\ OverrideOf(call.of) \subseteq {call.row}
  <2>1. "delete override" \in AboutOne /\ "delete override" \in HasMaster
        /\ "delete override" \in HasOverride
    BY DEF AboutOne, HasMaster, HasOverride
  <2> QED  BY <1>1, <1>2, <2>1 DEF CallInv
<1>5. \A o \in overrides : o.id = call.row.id => o.of = call.of
  <2>1. call.row \in InHand
    <3>1. call.pc \in HasOverride  BY <1>1 DEF HasOverride
    <3> QED  BY <1>2, <3>1 DEF InHand
  <2>2. \A o, w \in overrides \cup InHand : o.id = w.id => o.of = w.of
    BY DEF CalendarInv, IdsInv
  <2> HIDE DEF call
  <2> QED  BY <1>4, <2>1, <2>2
<1> DEFINE c == [call EXCEPT !.pc = "exclude"]
<1>6. /\ c \in CallRecords /\ c.pc = "exclude" /\ c.held = call.held
      /\ c.of = call.of /\ c.row = call.row /\ c.id = call.id /\ c.alone = call.alone
  BY <1>2 DEF CallRecords
<1> HIDE DEF c
<1>7. calls' = [calls EXCEPT ![r] = c]  BY <1>2, <1>3 DEF c
<1>8. calls'[r] = c /\ InProgress' = InProgress
  <2>1. NoCall \notin CallRecords  BY DEF NoCall, CallRecords
  <2> QED  BY <1>2, <1>6, <1>7, <2>1 DEF InProgress
<1>9. placed \subseteq overrides'
  <2>1. placed \subseteq overrides  BY <1>2 DEF RowsInv
  <2> HIDE DEF call
  <2> QED  BY <1>3, <1>4, <1>5, <2>1
<1>10. RowsInv'
  <2>1. overrides' \subseteq overrides  BY <1>3
  <2> QED  BY <1>2, <1>3, <1>9, <2>1 DEF RowsInv
<1>11. left' = left /\ gone' = gone /\ placed' = placed  BY <1>3
<1>12. CallInv(r)'
  <2>1. c.alone => OverrideOf(calls[r].of)' = {}
    <3> SUFFICES ASSUME c.alone, NEW o \in overrides', o.of = calls'[r].of PROVE FALSE
      BY DEF OverrideOf
    <3>1. calls'[r].of = call.of  BY <1>6, <1>8
    <3>2. o \in OverrideOf(call.of) /\ o.id # call.row.id  BY <1>3, <3>1 DEF OverrideOf
    <3>3. o = call.row  BY <1>4, <1>6, <3>2
    <3> QED  BY <3>2, <3>3
  <2>2. "exclude" \notin HasOverride  BY DEF HasOverride
  <2>3. c.alone => InProgress' = {r}  BY <1>4, <1>6, <1>8
  <2> HIDE DEF call
  <2> QED  BY <1>4, <1>6, <1>8, <1>11, <2>1, <2>2, <2>3 DEF CallInv
<1>13. c # NoCall => /\ c.id = calls[r].id /\ c.alone = calls[r].alone
                     /\ c.pc # "overrides to edit" /\ CallInv(r)'
  BY <1>6, <1>12
<1>14. /\ overrides' \subseteq OverrideRows /\ IsFiniteSet(overrides')
       /\ master' \in EventRows \cup {Null} /\ gone' \subseteq Int /\ placed' \subseteq OverrideRows
  <2>1. overrides' \subseteq overrides  BY <1>3
  <2> QED  BY <1>2, <1>3, <2>1, FS_Subset
<1>15. ASSUME NEW o \in overrides' \cup {w \in {c.row} : c # NoCall /\ c.pc \in HasOverride}
       PROVE  \E w \in overrides \cup InHand : o.id = w.id /\ o.of = w.of
  <2>1. "exclude" \notin HasOverride  BY DEF HasOverride
  <2>2. o \in overrides  BY <1>3, <1>6, <2>1
  <2> QED  BY <1>2, <2>2
<1> HIDE DEF call
<1> QED  BY <1>2, <1>6, <1>7, <1>10, <1>13, <1>14, <1>15, <1>11, StepKeeps

LEMMA ExcludeKeeps ==
  ASSUME CalendarInv, NEW r \in EventRequests, Exclude(r)
  PROVE  CalendarInv'
<1> DEFINE call == calls[r]
<1>1. call.pc = "exclude"  BY DEF Exclude, Awaits
<1>2. /\ r \in InProgress /\ call \in CallRecords /\ CallInv(r) /\ RowsInv
      /\ overrides \subseteq OverrideRows /\ NoCall \in CallRecords \cup {NoCall}
      /\ IsFiniteSet(overrides) /\ gone \subseteq Int /\ placed \subseteq OverrideRows
      /\ \A o \in overrides : \E w \in overrides \cup InHand : o.id = w.id /\ o.of = w.of
  BY <1>1, Waiting
<1>3. /\ overrides' = overrides /\ left' = left /\ calls' = [calls EXCEPT ![r] = NoCall]
      /\ master' = Excluding(call.held, call.of)
      /\ Deleted(call)
  BY DEF Exclude, Ends
<1>4. /\ call.held # Null /\ gone \subseteq call.held.exdates
      /\ call.of # Null /\ call.of \notin gone /\ \A p \in placed : p.of # call.of
      /\ call.alone => OverrideOf(call.of) = {}
  <2>1. "exclude" \in AboutOne /\ "exclude" \in HasMaster
    BY DEF AboutOne, HasMaster
  <2> QED  BY <1>1, <1>2, <2>1 DEF CallInv
<1>5. call.held \in EventRows /\ call.of \in Int  BY <1>2, <1>4 DEF CallRecords
<1>6. master' \in EventRows /\ master'.exdates = call.held.exdates \cup {call.of}
  <2> HIDE DEF call
  <2> QED  BY <1>3, <1>5 DEF Excluding, EventRows
<1>7. /\ placed' = placed
      /\ gone' = gone \/ (call.alone /\ gone' = gone \cup {call.of})
  BY <1>3 DEF Deleted, history
<1>8. RowsInv'
  <2>1. /\ overrides # {} => master # Null
        /\ \A o, w \in overrides : o.of = w.of \/ o.id = w.id => o = w
        /\ \A o \in overrides : o.of \notin gone
        /\ placed \subseteq overrides
    BY <1>2 DEF RowsInv
  <2>2. master' # Null /\ gone' \subseteq master'.exdates
    BY <1>4, <1>6, <1>7, CalendarEventsAssumption
  <2>3. \A o \in overrides : o.of \notin gone'
    BY <1>4, <1>7, <2>1 DEF OverrideOf
  <2> HIDE DEF call
  <2> QED  BY <1>3, <1>7, <2>1, <2>2, <2>3 DEF RowsInv
<1>9. gone' \subseteq Int /\ placed' \subseteq OverrideRows
      /\ (call.alone \/ (gone' \subseteq gone /\ placed' \subseteq placed))
  BY <1>2, <1>5, <1>7
<1> QED  BY <1>2, <1>3, <1>6, <1>8, <1>9, StepKeeps

LEMMA SaveOverrideKeeps ==
  ASSUME CalendarInv, NEW r \in EventRequests, SaveOverride(r)
  PROVE  CalendarInv'
<1> DEFINE call == calls[r]
           row == calls[r].row
<1>1. call.pc = "save override"  BY DEF SaveOverride, Awaits
<1>2. /\ r \in InProgress /\ call \in CallRecords /\ CallInv(r) /\ RowsInv
      /\ master \in EventRows \cup {Null} /\ overrides \subseteq OverrideRows
      /\ NoCall \in CallRecords \cup {NoCall}
      /\ IsFiniteSet(overrides) /\ gone \subseteq Int /\ placed \subseteq OverrideRows
      /\ \A o \in overrides : \E w \in overrides \cup InHand : o.id = w.id /\ o.of = w.of
  BY <1>1, Waiting
<1>3. master' = master /\ left' = left /\ calls' = [calls EXCEPT ![r] = NoCall]
  BY DEF SaveOverride, Ends
<1>4. CASE ~MayWrite(row)
  <2>1. UNCHANGED <<rows, left, history>>  BY <1>3, <1>4 DEF SaveOverride, rows
  <2>2. Ends(r)  BY <1>3 DEF Ends
  <2> QED  BY <1>2, <2>1, <2>2, EndKeeps
<1>5. CASE MayWrite(row)
  <2>1. overrides' = {o \in overrides : o.id # row.id} \cup {row}
    BY <1>5 DEF SaveOverride, Upsert
  <2>2. /\ gone' = gone
        /\ placed' = placed \/ (call.alone /\ placed' = placed \cup {row})
    BY <1>5 DEF SaveOverride, Placed, history
  <2>3. /\ call.of \notin gone /\ \A p \in placed : p.of # call.of
        /\ row \in OverrideRows /\ row.of = call.of
    <3>1. "save override" \in AboutOne /\ "save override" \in HasOverride
      BY DEF AboutOne, HasOverride
    <3> QED  BY <1>1, <1>2, <3>1 DEF CallInv
  <2>4. master # Null /\ \A o \in overrides : o.of = row.of => o.id = row.id
    BY <1>5 DEF MayWrite
  <2>5. row \in InHand
    <3>1. call.pc \in HasOverride  BY <1>1 DEF HasOverride
    <3> QED  BY <1>2, <3>1 DEF InHand
  <2>6. \A o \in overrides : o.id = row.id => o.of = row.of
    <3>1. \A o, w \in overrides \cup InHand : o.id = w.id => o.of = w.of
      BY DEF CalendarInv, IdsInv
    <3> HIDE DEF row
    <3> QED  BY <2>5, <3>1
  <2>7. /\ overrides # {} => master # Null
        /\ \A o, w \in overrides : o.of = w.of \/ o.id = w.id => o = w
        /\ gone # {} => master # Null /\ gone \subseteq master.exdates
        /\ \A o \in overrides : o.of \notin gone
        /\ placed \subseteq overrides
    BY <1>2 DEF RowsInv
  <2>14. calls[r].alone \/ (gone' \subseteq gone /\ placed' \subseteq placed)
    <3>1. ~calls[r].alone => gone' = gone /\ placed' = placed
      BY <1>5 DEF SaveOverride, Placed, history
    <3>2. ~calls[r].alone => gone' \subseteq gone /\ placed' \subseteq placed  BY <3>1
    <3> QED  BY <3>2, Zenon
  <2> HIDE DEF row, call
  <2>8. \A o, w \in overrides' : o.of = w.of \/ o.id = w.id => o = w
    <3> SUFFICES ASSUME NEW o \in overrides', NEW w \in overrides', o.of = w.of \/ o.id = w.id
                 PROVE  o = w
      OBVIOUS
    <3>1. \A x \in overrides' : x = row \/ (x \in overrides /\ x.id # row.id /\ x.of # row.of)
      BY <2>1, <2>4
    <3> QED  BY <2>7, <3>1
  <2>9. placed' \subseteq overrides'
    <3>1. \A p \in placed : p \in overrides /\ p.of # row.of  BY <2>3, <2>7
    <3>2. placed \subseteq overrides' /\ row \in overrides'  BY <2>1, <2>6, <3>1
    <3> QED  BY <2>2, <3>2
  <2>10. \A o \in overrides' : o.of \notin gone  BY <2>1, <2>3, <2>7
  <2>11. RowsInv'  BY <1>3, <2>2, <2>4, <2>7, <2>8, <2>9, <2>10 DEF RowsInv
  <2>12. /\ overrides' \subseteq OverrideRows /\ IsFiniteSet(overrides')
         /\ placed' \subseteq OverrideRows
    <3>1. {o \in overrides : o.id # row.id} \subseteq overrides  OBVIOUS
    <3>2. IsFiniteSet({o \in overrides : o.id # row.id})  BY <1>2, <3>1, FS_Subset
    <3>3. IsFiniteSet(overrides')  BY <2>1, <3>2, FS_Singleton, FS_Union
    <3> QED  BY <1>2, <2>1, <2>2, <2>3, <3>3
  <2>13. ASSUME NEW o \in overrides'
         PROVE  \E w \in overrides \cup InHand : o.id = w.id /\ o.of = w.of
    BY <1>2, <2>1, <2>5
  <2>15. master' \in EventRows \cup {Null} /\ gone' \subseteq Int
    BY <1>2, <1>3, <2>2
  <2> QED  BY <1>2, <1>3, <2>11, <2>12, <2>13, <2>14, <2>15, StepKeeps
<1> QED  BY <1>4, <1>5

(* The invariant of one event and its requests, whatever the requests are  *)
(* and however they overlap: the rows stay a series with at most one       *)
(* override for an occurrence, what a quiet request deleted or placed      *)
(* stays deleted or placed, and every request under way has read an        *)
(* exclusion of all that was deleted.                                      *)
THEOREM CalendarInvariant == CalendarSpec => []CalendarInv
<1>1. CalendarInit => CalendarInv
  <2> SUFFICES ASSUME CalendarInit PROVE CalendarInv  OBVIOUS
  <2>1. PICK p \in Plans :
           /\ master = p.event /\ overrides = {}
           /\ calls = [r \in EventRequests |-> NoCall] /\ left = p.requests
           /\ gone = {} /\ placed = {}
    BY DEF CalendarInit
  <2>2. InProgress = {}  BY <2>1 DEF InProgress
  <2>3. InHand = {}  BY <2>2 DEF InHand
  <2>4. CalendarTypeOK  BY <2>1, CalendarEventsAssumption, FS_EmptySet DEF CalendarTypeOK
  <2>5. RowsInv  BY <2>1 DEF RowsInv
  <2>6. IdsInv  BY <2>1, <2>2, <2>3 DEF IdsInv
  <2> QED  BY <2>2, <2>4, <2>5, <2>6 DEF CalendarInv
<1>2. CalendarInv /\ [CalendarNext]_calendarVars => CalendarInv'
  <2> SUFFICES ASSUME CalendarInv, [CalendarNext]_calendarVars PROVE CalendarInv'
    OBVIOUS
  <2>1. CASE UNCHANGED calendarVars
    <3>1. /\ master' = master /\ overrides' = overrides /\ calls' = calls /\ left' = left
          /\ gone' = gone /\ placed' = placed
      BY <2>1 DEF calendarVars, history
    <3>2. InProgress' = InProgress  BY <3>1 DEF InProgress
    <3>3. InHand' = InHand  BY <3>1, <3>2 DEF InHand
    <3>4. CalendarTypeOK'  BY <3>1 DEF CalendarInv, CalendarTypeOK
    <3>5. RowsInv'  BY <3>1 DEF CalendarInv, RowsInv
    <3>6. IdsInv'  BY <3>1, <3>2, <3>3 DEF CalendarInv, IdsInv, Awaits
    <3>7. ASSUME NEW r \in InProgress  PROVE CallInv(r)'
      BY <3>1, <3>2 DEF CalendarInv, CallInv, OverrideOf
    <3> QED  BY <3>2, <3>4, <3>5, <3>6, <3>7 DEF CalendarInv
  <2>2. ASSUME NEW r \in EventRequests,
               \/ EditSeries(r) \/ EditSeriesOfOverride(r) \/ EditOccurrence(r) \/ EditOverride(r)
               \/ DeleteSeries(r) \/ DeleteSeriesOfOverride(r)
               \/ DeleteOccurrence(r) \/ DeleteOverride(r)
        PROVE  CalendarInv'
    BY <2>2, EditSeriesKeeps, EditOccurrenceKeeps, EditOverrideKeeps, DeleteSeriesKeeps,
       DeleteOccurrenceKeeps
  <2>3. ASSUME NEW r \in EventRequests,
               \/ ReadMaster(r) \/ SaveMaster(r) \/ DeleteMaster(r)
               \/ FindOverride(r) \/ SaveOverride(r)
               \/ ListOverrides(r) \/ DeleteRow(r) \/ Exclude(r)
               \/ Evict(r)
        PROVE  CalendarInv'
    BY <2>3, ReadMasterKeeps, SaveMasterKeeps, DeleteMasterKeeps, FindOverrideKeeps,
       SaveOverrideKeeps, ListOverridesKeeps, DeleteRowKeeps, ExcludeKeeps, EvictKeeps
  <2> QED  BY <2>1, <2>2, <2>3 DEF CalendarNext
<1> QED  BY <1>1, <1>2, PTL DEF CalendarSpec

(* Nothing that any requests did to its rows makes a range query of a      *)
(* quiet event add or lose an occurrence of the series, or show an         *)
(* override twice, in whatever calendar, zone and range.                   *)
THEOREM SeriesListed == CalendarSpec => []ListsTheSeries
<1>1. CalendarInv => ListsTheSeries
  <2> SUFFICES ASSUME CalendarInv, master # Null, SeedDay(master) \in Days,
                      \A e \in overrides \cup {master} : Dependable(e),
                      NEW range \in Ranges, NEW expand \in BOOLEAN, expand \/ master.rule = Null
               PROVE  LET listing == Listing(master, overrides, range, expand)
                          promised == Promised(range)
                      IN  /\ {<<v.of, v.start, v.end, v.from # "series">> : v \in listing.views}
                                = promised.views
                          /\ Cardinality(listing.views) = Cardinality(promised.views)
                          /\ listing.truncated = promised.truncated
    BY DEF ListsTheSeries
  <2>1. master \in EventRows /\ overrides \subseteq OverrideRows /\ IsFiniteSet(overrides)
    BY DEF CalendarInv, CalendarTypeOK
  <2>2. \A o, w \in overrides : o.of = w.of => o = w  BY DEF CalendarInv, RowsInv
  <2>3. InCalendar(range)  BY CalendarEventsAssumption DEF InCalendar
  <2>4. Dependable(master) /\ \A o \in overrides : Dependable(o)  OBVIOUS
  <2>5. LET listing == Listing(master, overrides, range, expand)
            promised == Promised(range)
        IN  /\ {Key(v) : v \in listing.views} = promised.views
            /\ Cardinality(listing.views) = Cardinality(promised.views)
            /\ listing.truncated = promised.truncated
    BY <2>1, <2>2, <2>3, <2>4, ListingFacts
  <2> QED  BY <2>5 DEF Key
<1> QED  BY <1>1, CalendarInvariant, PTL

(* In no range does a query show what a request deleted, or anything but   *)
(* its override in the place of what a request edited.                     *)
THEOREM EditsAreKept == CalendarSpec => []EditsStand
<1>1. CalendarInv => EditsStand
  <2> SUFFICES ASSUME CalendarInv, master # Null, NEW range \in Ranges \cup {Whole}
               PROVE  LET views == Listing(master, overrides, range, TRUE).views
                      IN  /\ \A v \in views : v.of \notin gone
                          /\ \A p \in placed : master.rule # Null =>
                                LET its == {v \in views : v.of = p.of}
                                IN  /\ p \in overrides
                                    /\ its \subseteq {OwnView(p, "in place"), OwnView(p, "moved in")}
                                    /\ Shows(range, p) => \E v \in views : its = {v}
    BY DEF EditsStand
  <2> DEFINE listed == Listed(master, range, MaxOccurrences)
             starts == {StartOn(master, d) : d \in listed.days}
             known == IF master.rule = Null THEN {} ELSE overrides
             sub == Substituted(starts, known)
             views == Views(master, starts, sub, overrides, range)
  <2>1. Listing(master, overrides, range, TRUE).views = views
    BY DEF Listing
  <2>2. /\ overrides \subseteq OverrideRows /\ placed \subseteq overrides
        /\ \A o, w \in overrides : o.of = w.of => o = w
        /\ \A o \in overrides : o.of \notin gone
        /\ gone # {} => gone \subseteq master.exdates
    BY DEF CalendarInv, CalendarTypeOK, RowsInv
  <2>3. \A s \in starts : s \notin master.exdates
    <3> DEFINE due == {d \in IF master.rule = Null THEN {SeedDay(master)} ELSE Walked(master, range) :
                         Visible(master, range, StartOn(master, d))}
    <3>1. \A d \in due : StartOn(master, d) \notin master.exdates  BY DEF Visible
    <3> HIDE DEF due
    <3>2. Cut(due, MaxOccurrences).days \subseteq due  BY DEF Cut, FirstFew
    <3>3. Expansion(master, range, MaxOccurrences).days \subseteq due
      BY <3>2 DEF Expansion, due
    <3>4. listed.days \subseteq due  BY <3>3 DEF Listed
    <3> QED  BY <3>1, <3>4
  <2>4. sub = {o \in known : o.of \in starts} /\ sub \subseteq overrides
    BY DEF Substituted
  <2>5. \A o, from : /\ OwnView(o, from).of = o.of
                     /\ InRange(OwnView(o, from), range)
                           <=> Overlaps(OwnStart(o), OwnStart(o) + o.length, range)
    BY DEF OwnView, View, InRange
  <2> HIDE DEF starts, sub
  <2>6. ASSUME NEW v \in views
        PROVE  \/ \E s \in starts : v.of = s /\ \A o \in sub : o.of # s
               \/ \E o \in sub : v = OwnView(o, "in place")
               \/ \E o \in overrides \ sub : v = OwnView(o, "moved in")
    <3>1. CASE v \in {View(s, s, master.length, "series") : s \in starts \ {o.of : o \in sub}}
      <4>1. PICK s \in starts \ {o.of : o \in sub} : v = View(s, s, master.length, "series")
        BY <3>1
      <4>2. v.of = s  BY <4>1 DEF View
      <4> QED  BY <4>2
    <3>2. CASE v \in {OwnView(o, "in place") : o \in sub}  BY <3>2
    <3>3. CASE v \in {OwnView(o, "moved in") : o \in overrides \ sub}  BY <3>3
    <3> QED  BY <3>1, <3>2, <3>3 DEF Views
  <2>7. \A o \in sub : InRange(OwnView(o, "in place"), range) => OwnView(o, "in place") \in views
    BY DEF Views
  <2>8. \A o \in overrides \ sub :
           IsCandidate(o, range) /\ Visible(o, range, OwnStart(o)) => OwnView(o, "moved in") \in views
    BY DEF Views
  <2> HIDE DEF views
  <2>9. ASSUME NEW v \in views  PROVE v.of \notin gone
    <3>1. CASE \E s \in starts : v.of = s  BY <2>2, <2>3, <3>1
    <3>2. CASE \E o \in overrides, from \in {"in place", "moved in"} : v = OwnView(o, from)
      <4>1. PICK o \in overrides, from \in {"in place", "moved in"} : v = OwnView(o, from)
        BY <3>2
      <4>2. v.of = o.of  BY <2>5, <4>1
      <4> QED  BY <2>2, <4>2
    <3> QED  BY <2>4, <2>6, <3>1, <3>2
  <2>10. ASSUME NEW p \in placed, master.rule # Null
         PROVE  LET its == {v \in views : v.of = p.of}
                IN  /\ p \in overrides
                    /\ its \subseteq {OwnView(p, "in place"), OwnView(p, "moved in")}
                    /\ Shows(range, p) => \E v \in views : its = {v}
    <3> DEFINE its == {v \in views : v.of = p.of}
    <3>1. p \in overrides /\ p \in OverrideRows  BY <2>2
    <3>2. p \in sub <=> p.of \in starts  BY <2>4, <2>10, <3>1
    <3>3. ASSUME NEW v \in its
          PROVE  IF p \in sub THEN v = OwnView(p, "in place") ELSE v = OwnView(p, "moved in")
      <4>1. v \in views /\ v.of = p.of  OBVIOUS
      <4>2. CASE \E s \in starts : v.of = s /\ \A o \in sub : o.of # s
        BY <3>2, <4>1, <4>2
      <4>3. CASE \E o \in sub : v = OwnView(o, "in place")
        <5>1. PICK o \in sub : v = OwnView(o, "in place")  BY <4>3
        <5>2. v.of = o.of  BY <2>5, <5>1
        <5>3. o = p  BY <2>2, <2>4, <3>1, <4>1, <5>2
        <5> QED  BY <5>1, <5>3
      <4>4. CASE \E o \in overrides \ sub : v = OwnView(o, "moved in")
        <5>1. PICK o \in overrides \ sub : v = OwnView(o, "moved in")  BY <4>4
        <5>2. v.of = o.of  BY <2>5, <5>1
        <5>3. o = p  BY <2>2, <3>1, <4>1, <5>2
        <5> QED  BY <5>1, <5>3
      <4> QED  BY <2>6, <4>1, <4>2, <4>3, <4>4
    <3>4. ASSUME Shows(range, p)  PROVE \E v \in views : its = {v}
      <4>1. IsCandidate(p, range) /\ Overlaps(OwnStart(p), OwnStart(p) + p.length, range)
        BY <2>5, <3>4 DEF Shows
      <4>2. CASE p \in sub
        <5>1. OwnView(p, "in place") \in views /\ OwnView(p, "in place").of = p.of
          BY <2>5, <2>7, <4>1, <4>2
        <5>2. its = {OwnView(p, "in place")}  BY <3>3, <4>2, <5>1
        <5> QED  BY <5>1, <5>2
      <4>3. CASE p \notin sub
        <5>1. p.exdates = {}  BY <3>1 DEF OverrideRows
        <5>2. OwnView(p, "moved in") \in views /\ OwnView(p, "moved in").of = p.of
          BY <2>5, <2>8, <3>1, <4>1, <4>3, <5>1 DEF Visible
        <5>3. its = {OwnView(p, "moved in")}  BY <3>3, <4>3, <5>2
        <5> QED  BY <5>2, <5>3
      <4> QED  BY <4>2, <4>3
    <3> HIDE DEF its
    <3>5. its \subseteq {OwnView(p, "in place"), OwnView(p, "moved in")}  BY <3>3
    <3> QED  BY <3>1, <3>4, <3>5 DEF its
  <2> QED  BY <2>1, <2>9, <2>10
<1> QED  BY <1>1, CalendarInvariant, PTL

---------------------------------------------------------------------------
(* The sync with a CalDAV server. *)

USE NoneAssumption, BoundsAssumption

Columns == local \in [Events -> Row \cup {None}] /\ state \in [Events -> EventState \cup {None}]
           /\ tomb \in [Events -> Nat \cup {None}]
Rest == /\ link \in [token : Nat \cup {None}, at : Nat \cup {None}]
        /\ remote \in [Events -> [body : Nat \cup {None}, rev : Nat]]
        /\ rev \in Nat /\ clock \in Nat /\ faults \in Nat
        /\ born \in [Events -> Nat]
        /\ req \in [Requests -> Change]
        /\ late \subseteq Events /\ torn \subseteq Events /\ cut \subseteq Events

(* A step that puts a context in place of a caller's keeps its type. *)
LEMMA TypeMoved ==
  ASSUME TypeOK, NEW s \in Syncs, NEW q \in Context, sync' = [sync EXCEPT ![s] = q],
         Columns', Rest'
  PROVE  TypeOK'
BY DEF TypeOK, Columns, Rest

LEMMA ContextType ==
  ASSUME TypeOK, NEW s \in Syncs
  PROVE  /\ sync[s] \in Context
         /\ Columns /\ Rest
BY DEF TypeOK, Columns, Rest

LEMMA TypeBegin == ASSUME TypeOK, NEW s \in Syncs, Begin(s) PROVE TypeOK'
<1> DEFINE q == [Idle EXCEPT !.pc = "list", !.now = clock, !.token = link.token, !.linkAt = link.at]
<1>1. Columns /\ Rest  BY ContextType
<1>2. q \in Context  BY <1>1 DEF Idle, Nothing, Context, SyncPcs, Rest
<1>3. Columns' /\ Rest'  BY <1>1 DEF Begin, Columns, Rest, table, server, InFlight
<1> QED  BY <1>2, <1>3, TypeMoved DEF Begin

LEMMA TypeList == ASSUME TypeOK, NEW s \in Syncs, List(s) PROVE TypeOK'
<1>1. /\ sync[s] \in Context /\ Columns /\ Rest  BY ContextType
<1>2. PICK taken \in SUBSET Events, token \in Nat \cup {None},
           removed \in SUBSET Events, present \in SUBSET Events, remaining \in SUBSET Events :
           sync' = [sync EXCEPT ![s] = [@ EXCEPT !.pc = "fetch", !.token = token, !.hrefs = taken,
                             !.gone = removed, !.rest = remaining, !.present = present]]
  <2>1. PICK report \in BOOLEAN : \E taken \in SUBSET Changed(IF report THEN sync[s].token ELSE None) :
          sync' = [sync EXCEPT ![s] = [@ EXCEPT
             !.pc = "fetch", !.token = IF report THEN rev ELSE None,
             !.hrefs = taken, !.gone = Removed(IF report THEN sync[s].token ELSE None),
             !.rest = Changed(IF report THEN sync[s].token ELSE None) \ taken,
             !.present = IF (IF report THEN sync[s].token ELSE None) = None /\ taken = Changed(IF report THEN sync[s].token ELSE None)
                         THEN Changed(IF report THEN sync[s].token ELSE None) ELSE Events]]
    BY DEF List
  <2>2. \A t : Changed(t) \in SUBSET Events /\ Removed(t) \in SUBSET Events  BY DEF Changed, Removed
  <2>3. (IF report THEN rev ELSE None) \in Nat \cup {None}  BY <1>1 DEF Rest
  <2> QED  BY <2>1, <2>2, <2>3
<1> DEFINE q == [sync[s] EXCEPT !.pc = "fetch", !.token = token, !.hrefs = taken,
                               !.gone = removed, !.rest = remaining, !.present = present]
<1>3. q \in Context  BY <1>1 DEF Context, SyncPcs
<1>4. Columns' /\ Rest'  BY <1>1 DEF List, Columns, Rest, table, server, world
<1> QED  BY <1>1, <1>2, <1>3, <1>4, TypeMoved

LEMMA TypeFetch == ASSUME TypeOK, NEW s \in Syncs, Fetch(s) PROVE TypeOK'
<1> DEFINE q == [sync[s] EXCEPT !.pc = "pull", !.hrefs = {}, !.objs = Fetched(sync[s].hrefs)]
<1>1. sync[s] \in Context /\ Columns /\ Rest  BY ContextType
<1>2. \A h : Fetched(h) \in [Events -> Object \cup {None}]
  BY <1>1 DEF Fetched, Rest, There, Object
<1>3. q \in Context  BY <1>1, <1>2 DEF Context, SyncPcs
<1>4. Columns' /\ Rest'  BY <1>1 DEF Fetch, Columns, Rest, table, server, world
<1> QED  BY <1>1, <1>3, <1>4, TypeMoved DEF Fetch

LEMMA TypeAdopt ==
  ASSUME TypeOK, NEW s \in Syncs, NEW u \in Events, sync[s].objs[u] # None,
         NEW pc \in {"pulled", "adopted"}, Adopt(s, u, pc)
  PROVE  TypeOK'
<1> DEFINE id == IF local[u] = None THEN born[u] + 1 ELSE local[u].id
<1> DEFINE object == sync[s].objs[u]
<1> DEFINE q == [sync[s] EXCEPT !.pc = pc, !.objs = [sync[s].objs EXCEPT ![u] = None],
                               !.event = u, !.id = id, !.etag = object.rev]
<1>1. sync[s] \in Context /\ Columns /\ Rest  BY ContextType
<1>2. object \in Object  BY <1>1 DEF Context
<1>3. id \in Nat  BY <1>1 DEF Columns, Rest, Row
<1>4. /\ local' = [local EXCEPT ![u] = [body |-> object.body, at |-> sync[s].now, id |-> id]]
      /\ born' = [born EXCEPT ![u] = IF local[u] = None THEN @ + 1 ELSE @]
      /\ sync' = [sync EXCEPT ![s] = q]
      /\ UNCHANGED <<state, tomb, link, server, world>>
  BY DEF Adopt
<1>5. [body |-> object.body, at |-> sync[s].now, id |-> id] \in Row
  BY <1>1, <1>2, <1>3 DEF Context, Object, Row
<1> HIDE DEF id, object
<1>6. q \in Context  BY <1>1, <1>2, <1>3 DEF Context, SyncPcs, Object
<1>7. Columns'  BY <1>1, <1>4, <1>5 DEF Columns
<1>8. Rest'  BY <1>1, <1>4 DEF Rest, server, world
<1> QED  BY <1>4, <1>6, <1>7, <1>8, TypeMoved

LEMMA TypeSaveState == ASSUME TypeOK, NEW s \in Syncs, SaveState(s) PROVE TypeOK'
<1> DEFINE u == sync[s].event
<1> DEFINE q == [sync[s] EXCEPT !.pc = After(s), !.id = 0, !.etag = 0, !.rest = sync[s].rest \ {u},
                               !.event = IF After(s) = "untomb" THEN u ELSE None]
<1>1. sync[s] \in Context /\ Columns /\ Rest  BY ContextType
<1>2. After(s) \in SyncPcs  BY DEF After, Conflicting, SyncPcs
<1>3. q \in Context  BY <1>1, <1>2 DEF Context
<1>4. [etag |-> sync[s].etag, at |-> sync[s].now] \in EventState  BY <1>1 DEF Context, EventState
<1>5. Columns' /\ Rest'
  BY <1>1, <1>4 DEF SaveState, SavedWith, Columns, Rest, table, server, world
<1>6. sync' = [sync EXCEPT ![s] = q]  BY DEF SaveState, SavedWith
<1> QED  BY <1>3, <1>5, <1>6, TypeMoved

LEMMA TypeRefuseState == ASSUME TypeOK, NEW s \in Syncs, RefuseState(s) PROVE TypeOK'
<1>1. Columns /\ Rest  BY ContextType
<1>2. Idle \in Context  BY DEF Idle, Nothing, Context, SyncPcs
<1>3. Columns' /\ Rest'  BY <1>1 DEF RefuseState, Columns, Rest, table, server, world
<1> QED  BY <1>2, <1>3, TypeMoved DEF RefuseState

LEMMA TypeAbsent == ASSUME TypeOK, NEW s \in Syncs, Absent(s) PROVE TypeOK'
<1> DEFINE q == [sync[s] EXCEPT !.pc = "drop", !.present = {},
                               !.gone = sync[s].gone \cup (Left(state) \ sync[s].present)]
<1>1. sync[s] \in Context /\ Columns /\ Rest  BY ContextType
<1>2. q \in Context  BY <1>1 DEF Context, SyncPcs, Left
<1>3. Columns' /\ Rest'  BY <1>1 DEF Absent, Columns, Rest, table, server, world
<1>4. sync' = [sync EXCEPT ![s] = q]  BY DEF Absent
<1> QED  BY <1>2, <1>3, <1>4, TypeMoved

LEMMA TypeDrop == ASSUME TypeOK, NEW s \in Syncs, Drop(s) PROVE TypeOK'
<1>1. sync[s] \in Context /\ Columns /\ Rest  BY ContextType
<1>2. PICK u \in sync[s].gone :
        /\ local' = IF state[u] = None THEN local ELSE [local EXCEPT ![u] = None]
        /\ state' = [state EXCEPT ![u] = None]
        /\ sync' = [sync EXCEPT ![s] = [sync[s] EXCEPT !.gone = sync[s].gone \ {u}]]
        /\ cut' = cut \ {u}
        /\ UNCHANGED <<tomb, link, born, server, clock, req, faults, late, torn>>
  BY DEF Drop
<1>3. [sync[s] EXCEPT !.gone = sync[s].gone \ {u}] \in Context  BY <1>1 DEF Context
<1>4. Columns'  BY <1>1, <1>2 DEF Columns
<1>5. Rest'  BY <1>1, <1>2 DEF Rest, server, world
<1> QED  BY <1>2, <1>3, <1>4, <1>5, TypeMoved

LEMMA TypeLoad == ASSUME TypeOK, NEW s \in Syncs, Load(s) PROVE TypeOK'
<1> DEFINE q == [sync[s] EXCEPT !.pc = "push", !.mine = local]
<1>1. sync[s] \in Context /\ Columns /\ Rest  BY ContextType
<1>2. q \in Context  BY <1>1 DEF Context, SyncPcs, Columns
<1>3. Columns' /\ Rest'  BY <1>1 DEF Load, Columns, Rest, table, server, world
<1> QED  BY <1>2, <1>3, TypeMoved DEF Load

LEMMA TypePushClean == ASSUME TypeOK, NEW s \in Syncs, PushClean(s) PROVE TypeOK'
<1>1. sync[s] \in Context /\ Columns /\ Rest  BY ContextType
<1>2. PICK u \in Events : sync' = [sync EXCEPT ![s] =
                              [sync[s] EXCEPT !.mine = [sync[s].mine EXCEPT ![u] = None]]]
  BY DEF PushClean, Left
<1>3. [sync[s] EXCEPT !.mine = [sync[s].mine EXCEPT ![u] = None]] \in Context  BY <1>1 DEF Context
<1>4. Columns' /\ Rest'  BY <1>1 DEF PushClean, Columns, Rest, table, server, world
<1> QED  BY <1>2, <1>3, <1>4, TypeMoved

LEMMA TypePut == ASSUME TypeOK, NEW s \in Syncs, Put(s) PROVE TypeOK'
<1>1. sync[s] \in Context /\ Columns /\ Rest  BY ContextType
<1>2. PICK u \in Events :
        /\ sync[s].mine[u] # None
        /\ remote' = [remote EXCEPT ![u] = [body |-> sync[s].mine[u].body, rev |-> rev + 1]]
        /\ rev' = rev + 1
        /\ sync' = [sync EXCEPT ![s] = [sync[s] EXCEPT
              !.pc = "pushed", !.mine = [sync[s].mine EXCEPT ![u] = None],
              !.event = u, !.id = sync[s].mine[u].id, !.etag = rev + 1]]
        /\ UNCHANGED <<table, world>>
  BY DEF Put, PutWith, ToPut, Left
<1>3. sync[s].mine[u] \in Row  BY <1>1, <1>2 DEF Context
<1> DEFINE q == [sync[s] EXCEPT !.pc = "pushed", !.mine = [sync[s].mine EXCEPT ![u] = None],
                               !.event = u, !.id = sync[s].mine[u].id, !.etag = rev + 1]
<1>4. rev + 1 \in Nat /\ sync[s].mine[u].id \in Nat /\ sync[s].mine[u].body \in Nat
  BY <1>1, <1>3 DEF Rest, Row
<1>5. q \in Context  BY <1>1, <1>4 DEF Context, SyncPcs
<1>6. Columns'  BY <1>1, <1>2 DEF Columns, table
<1>7. Rest'  BY <1>1, <1>2, <1>4 DEF Rest, table, world
<1> QED  BY <1>2, <1>5, <1>6, <1>7, TypeMoved

LEMMA TypePutConflict == ASSUME TypeOK, NEW s \in Syncs, PutConflict(s) PROVE TypeOK'
<1>1. sync[s] \in Context /\ Columns /\ Rest  BY ContextType
<1>2. PICK u \in Events : sync' = [sync EXCEPT ![s] = [sync[s] EXCEPT !.pc = "resolve",
                              !.event = u, !.mine = [sync[s].mine EXCEPT ![u] = None]]]
  BY DEF PutConflict, ToPut, Left
<1> DEFINE q == [sync[s] EXCEPT !.pc = "resolve", !.event = u,
                               !.mine = [sync[s].mine EXCEPT ![u] = None]]
<1>3. q \in Context  BY <1>1 DEF Context, SyncPcs
<1>4. Columns' /\ Rest'  BY <1>1 DEF PutConflict, Columns, Rest, table, server, world
<1> QED  BY <1>2, <1>3, <1>4, TypeMoved

LEMMA TypeResolve == ASSUME TypeOK, NEW s \in Syncs, Resolve(s) PROVE TypeOK'
<1> DEFINE u == sync[s].event
<1> DEFINE q == [sync[s] EXCEPT !.pc = "adopt", !.objs = Fetched({u})]
<1> DEFINE p == [sync[s] EXCEPT !.pc = Conflicting(s),
                               !.event = IF Conflicting(s) = "untomb" THEN u ELSE None]
<1>1. sync[s] \in Context /\ Columns /\ Rest  BY ContextType
<1>2. Fetched({u}) \in [Events -> Object \cup {None}]  BY <1>1 DEF Fetched, Rest, There, Object
<1>3. q \in Context  BY <1>1, <1>2 DEF Context, SyncPcs
<1>4. Conflicting(s) \in SyncPcs  BY DEF Conflicting, SyncPcs
<1>5. p \in Context  BY <1>1, <1>4 DEF Context
<1>6. Columns' /\ Rest'  BY <1>1 DEF Resolve, Columns, Rest, table, server, world
<1>7. sync' = [sync EXCEPT ![s] = IF There(u) THEN q ELSE p]  BY DEF Resolve
<1>8. (IF There(u) THEN q ELSE p) \in Context  BY <1>3, <1>5
<1> HIDE DEF q, p
<1> QED  BY <1>6, <1>7, <1>8, TypeMoved

LEMMA TypeListDeletions == ASSUME TypeOK, NEW s \in Syncs, ListDeletions(s) PROVE TypeOK'
<1> DEFINE q == [sync[s] EXCEPT !.pc = "tombs", !.tombs = tomb]
<1>1. sync[s] \in Context /\ Columns /\ Rest  BY ContextType
<1>2. q \in Context  BY <1>1 DEF Context, SyncPcs, Columns
<1>3. Columns' /\ Rest'  BY <1>1 DEF ListDeletions, Columns, Rest, table, server, world
<1> QED  BY <1>2, <1>3, TypeMoved DEF ListDeletions

LEMMA TypeDeleteRemote == ASSUME TypeOK, NEW s \in Syncs, DeleteRemote(s) PROVE TypeOK'
<1>1. sync[s] \in Context /\ Columns /\ Rest  BY ContextType
<1>2. PICK u \in Events :
        /\ remote' = IF There(u) THEN [remote EXCEPT ![u] = [body |-> None, rev |-> rev + 1]] ELSE remote
        /\ rev' = IF There(u) THEN rev + 1 ELSE rev
        /\ sync' = [sync EXCEPT ![s] = [sync[s] EXCEPT !.pc = "untomb", !.event = u]]
        /\ UNCHANGED <<table, world>>
  BY DEF DeleteRemote, Left
<1>3. [sync[s] EXCEPT !.pc = "untomb", !.event = u] \in Context  BY <1>1 DEF Context, SyncPcs
<1>4. Columns'  BY <1>1, <1>2 DEF Columns, table
<1>5. Rest'  BY <1>1, <1>2 DEF Rest, table, world
<1> QED  BY <1>2, <1>3, <1>4, <1>5, TypeMoved

LEMMA TypeDeleteConflict == ASSUME TypeOK, NEW s \in Syncs, DeleteConflict(s) PROVE TypeOK'
<1>1. sync[s] \in Context /\ Columns /\ Rest  BY ContextType
<1>2. PICK u \in Events : sync' = [sync EXCEPT ![s] = [sync[s] EXCEPT !.pc = "resolve", !.event = u]]
  BY DEF DeleteConflict, Left
<1>3. [sync[s] EXCEPT !.pc = "resolve", !.event = u] \in Context  BY <1>1 DEF Context, SyncPcs
<1>4. Columns' /\ Rest'  BY <1>1 DEF DeleteConflict, Columns, Rest, table, server, world
<1> QED  BY <1>2, <1>3, <1>4, TypeMoved

LEMMA TypeUntomb == ASSUME TypeOK, NEW s \in Syncs, Untomb(s) PROVE TypeOK'
<1> DEFINE u == sync[s].event
<1> DEFINE q == [sync[s] EXCEPT !.pc = "tombs", !.event = None,
                               !.tombs = [sync[s].tombs EXCEPT ![u] = None]]
<1>1. sync[s] \in Context /\ Columns /\ Rest  BY ContextType
<1>2. q \in Context  BY <1>1 DEF Context, SyncPcs
<1>3. Columns' /\ Rest'  BY <1>1 DEF Untomb, Columns, Rest, server, world
<1> QED  BY <1>2, <1>3, TypeMoved DEF Untomb

LEMMA TypeEnd == ASSUME TypeOK, NEW s \in Syncs, End(s) PROVE TypeOK'
<1>1. sync[s] \in Context /\ Columns /\ Rest  BY ContextType
<1>2. Idle \in Context  BY DEF Idle, Nothing, Context, SyncPcs
<1>3. link' = [token |-> sync[s].token, at |-> sync[s].now]  BY DEF End, EndWith
<1>4. Columns' /\ Rest'  BY <1>1, <1>3 DEF End, EndWith, Columns, Rest, Context, server, world
<1> QED  BY <1>2, <1>4, TypeMoved DEF End, EndWith

LEMMA TypeFail == ASSUME TypeOK, NEW s \in Syncs, Fail(s), Stages(s) PROVE TypeOK'
<1>1. sync[s] \in Context /\ Columns /\ Rest  BY ContextType
<1>2. Idle \in Context  BY DEF Idle, Nothing, Context, SyncPcs
<1>3. Columns' /\ Rest'  BY <1>1 DEF Fail, Stages, Columns, Rest, table, server
<1> QED  BY <1>2, <1>3, TypeMoved DEF Fail


(* The requests and the other clients leave the callers of sync alone. *)
LEMMA TypeRequests ==
  ASSUME TypeOK, sync' = sync, Columns', Rest'
  PROVE  TypeOK'
BY DEF TypeOK, Columns, Rest

LEMMA TypeRequest == ASSUME TypeOK, NEW r \in Requests, Request(r) PROVE TypeOK'
<1>1. Columns /\ Rest  BY DEF TypeOK, Columns, Rest
<1>2. CASE BeginCreate(r)
  <2>1. PICK u \in Events :
          req' = [req EXCEPT ![r] = [pc |-> "write", event |-> u, at |-> clock + 1, id |-> 1]]
    BY <1>2 DEF BeginCreate
  <2>2. [pc |-> "write", event |-> u, at |-> clock + 1, id |-> 1] \in Change  BY <1>1 DEF Change, Rest
  <2>3. Columns'  BY <1>1, <1>2 DEF BeginCreate, Columns
  <2>4. Rest'  BY <1>1, <1>2, <2>1, <2>2 DEF BeginCreate, Rest, server
  <2> QED  BY <1>2, <2>3, <2>4, TypeRequests DEF BeginCreate
<1>3. CASE BeginEdit(r)
  <2>1. PICK u \in Events :
          /\ local[u] # None
          /\ req' = [req EXCEPT ![r] = [pc |-> "write", event |-> u, at |-> clock + 1, id |-> local[u].id]]
          /\ torn' \subseteq torn \cup {u}
    BY <1>3 DEF BeginEdit
  <2>2. [pc |-> "write", event |-> u, at |-> clock + 1, id |-> local[u].id] \in Change
    BY <1>1, <2>1 DEF Change, Rest, Columns, Row
  <2>3. Columns' /\ Rest'  BY <1>1, <1>3, <2>1, <2>2 DEF BeginEdit, Columns, Rest, table, server
  <2> QED  BY <1>3, <2>3, TypeRequests DEF BeginEdit
<1>4. CASE Write(r)
  <2>1. Settled \in Change  BY DEF Settled, Change
  <2>2. req[r] \in Change  BY <1>1 DEF Rest
  <2>3. [body |-> req[r].at, at |-> req[r].at, id |-> req[r].id] \in Row  BY <2>2 DEF Change, Row
  <2>4. Columns'  BY <1>1, <1>4, <2>3 DEF Write, Columns
  <2>5. Rest'  BY <1>1, <1>4, <2>1 DEF Write, Rest, server
  <2> QED  BY <1>4, <2>4, <2>5, TypeRequests DEF Write
<1>5. CASE BeginDelete(r)
  <2>1. PICK u \in Events :
          /\ local[u] # None
          /\ req' = [req EXCEPT ![r] = [pc |-> "delete", event |-> u, at |-> 0, id |-> local[u].id]]
          /\ tomb' = IF state[u] = None THEN tomb ELSE [tomb EXCEPT ![u] = state[u].etag]
          /\ torn' \subseteq torn \cup {u}
          /\ UNCHANGED <<local, state, link, born, server, clock, sync, faults, late, cut>>
    BY <1>5 DEF BeginDelete
  <2>2. [pc |-> "delete", event |-> u, at |-> 0, id |-> local[u].id] \in Change
    BY <1>1, <2>1 DEF Change, Columns, Row
  <2>3. Columns'  BY <1>1, <2>1 DEF Columns, EventState
  <2>4. Rest'  BY <1>1, <2>1, <2>2 DEF Rest, server
  <2> QED  BY <2>1, <2>3, <2>4, TypeRequests
<1>6. CASE Delete(r)
  <2>1. Settled \in Change  BY DEF Settled, Change
  <2>2. Columns' /\ Rest'  BY <1>1, <1>6, <2>1 DEF Delete, Columns, Rest, server
  <2> QED  BY <1>6, <2>2, TypeRequests DEF Delete
<1> QED  BY <1>2, <1>3, <1>4, <1>5, <1>6 DEF Request

LEMMA TypeRemote ==
  ASSUME TypeOK, NEW u \in Events, RemoteWrite(u) \/ RemoteRemove(u) PROVE TypeOK'
<1>1. Columns /\ Rest  BY DEF TypeOK, Columns, Rest
<1>2. Columns'  BY <1>1 DEF RemoteWrite, RemoteRemove, Columns, table
<1>3. Rest'  BY <1>1 DEF RemoteWrite, RemoteRemove, Rest, table
<1> QED  BY <1>2, <1>3, TypeRequests DEF RemoteWrite, RemoteRemove


-----------------------------------------------------------------------------
LEMMA Typed ==
  ASSUME TypeOK, NEW u \in Events
  PROVE  /\ local[u] # None => local[u].body \in Nat /\ local[u].at \in Nat
         /\ state[u] # None => state[u].etag \in Nat /\ state[u].at \in Nat
         /\ remote[u].rev \in Nat /\ rev \in Nat /\ clock \in Nat
BY DEF TypeOK, Row, EventState

LEMMA TypedSync ==
  ASSUME TypeOK, NEW s \in Syncs
  PROVE  /\ sync[s].now \in Nat /\ sync[s].etag \in Nat
         /\ \A u \in Events :
              /\ sync[s].objs[u] # None => sync[s].objs[u].rev \in Nat
              /\ sync[s].mine[u] # None => sync[s].mine[u].at \in Nat
<1>1. sync[s] \in Context  BY DEF TypeOK
<1> QED  BY <1>1 DEF Context, Object, Row

(* Time and revisions do not go back, a revision keeps its content. *)
Forward ==
  /\ clock <= clock' /\ late \subseteq late'
  /\ \A u \in Events :
       /\ remote[u].rev <= remote'[u].rev
       /\ remote'[u].rev = remote[u].rev => remote'[u] = remote[u]

(* What others do to an event leaves what a sync holds sound: they may     *)
(* remove the row or its state, or write an edit stamped after its start.  *)
LEMMA Kept ==
  ASSUME TypeOK, TypeOK', NEW t \in Syncs, SyncSound(t), sync'[t] = sync[t], Forward,
         \A u \in Events \ late' :
           /\ state'[u] # None => state'[u] = state[u]
           /\ local'[u] # None => local'[u] = local[u] \/ local'[u].at > sync[t].now
  PROVE  SyncSound(t)'
<1>1. Stages(t)'
  <2>1. sync[t].now \in Nat /\ clock \in Nat /\ clock' \in Nat  BY TypedSync DEF TypeOK
  <2> QED  BY <2>1 DEF SyncSound, Stages, Forward, Nothing
<1>2. FetchedSound(t)'
  <2> SUFFICES ASSUME NEW u \in Events, sync[t].objs[u] # None
               PROVE  /\ sync[t].objs[u].rev <= remote'[u].rev
                      /\ sync[t].objs[u].rev = remote'[u].rev => sync[t].objs[u].body = remote'[u].body
                      /\ sync[t].pc \in {"pull", "pulled", "adopt"} /\ state'[u] # None /\ u \notin late'
                           => state'[u].etag <= sync[t].objs[u].rev
    BY DEF FetchedSound
  <2>1. /\ sync[t].objs[u].rev <= remote[u].rev
        /\ sync[t].objs[u].rev = remote[u].rev => sync[t].objs[u].body = remote[u].body
        /\ sync[t].pc \in {"pull", "pulled", "adopt"} /\ state[u] # None /\ u \notin late
             => state[u].etag <= sync[t].objs[u].rev
    BY DEF SyncSound, FetchedSound
  <2>2. sync[t].objs[u].rev \in Nat /\ remote[u].rev \in Nat  BY Typed, TypedSync
  <2>3. remote'[u].rev \in Nat  BY DEF TypeOK
  <2>4. /\ remote[u].rev <= remote'[u].rev
        /\ remote'[u].rev = remote[u].rev => remote'[u] = remote[u]
    BY DEF Forward
  <2>5. u \notin late' => u \notin late  BY DEF Forward
  <2> QED  BY <2>1, <2>2, <2>3, <2>4, <2>5
<1>3. LoadedSound(t)'
  <2> SUFFICES ASSUME NEW u \in Events \ late', sync[t].mine[u] # None, local'[u] # None,
                      local'[u].at <= sync[t].now
               PROVE  local'[u].body = sync[t].mine[u].body
    BY DEF LoadedSound
  <2>1. u \notin late  BY DEF Forward
  <2>2. local'[u].at \in Nat /\ sync[t].now \in Nat  BY TypedSync DEF TypeOK, Row
  <2>3. local'[u] = local[u]  BY <2>2
  <2> QED  BY <2>1, <2>3 DEF SyncSound, LoadedSound
<1>4. HandSound(t)'
  <2> DEFINE u == sync[t].event
  <2> SUFFICES ASSUME sync[t].pc \in {"pulled", "pushed", "adopted"}
               PROVE  /\ sync[t].pc = "pulled" => sync[t].objs[u] = None
                      /\ sync[t].etag <= remote'[u].rev
                      /\ u \notin late' /\ local'[u] # None /\ local'[u].at <= sync[t].now
                         /\ sync[t].etag = remote'[u].rev
                         => local'[u].body = remote'[u].body
    BY DEF HandSound
  <2>1. u \in Events  BY DEF SyncSound, Stages
  <2>2. /\ sync[t].pc = "pulled" => sync[t].objs[u] = None
        /\ sync[t].etag <= remote[u].rev
        /\ u \notin late /\ local[u] # None /\ local[u].at <= sync[t].now
           /\ sync[t].etag = remote[u].rev
           => local[u].body = remote[u].body
    BY DEF SyncSound, HandSound
  <2> HIDE DEF u
  <2>3. sync[t].etag \in Nat /\ sync[t].now \in Nat /\ remote[u].rev \in Nat /\ remote'[u].rev \in Nat
    BY <2>1, TypedSync DEF TypeOK
  <2>4. /\ remote[u].rev <= remote'[u].rev
        /\ remote'[u].rev = remote[u].rev => remote'[u] = remote[u]
        /\ u \notin late' => u \notin late
    BY <2>1 DEF Forward
  <2>5. local'[u] # None => local'[u].at \in Nat  BY <2>1 DEF TypeOK, Row
  <2>6. u \notin late' /\ local'[u] # None => local'[u] = local[u] \/ local'[u].at > sync[t].now
    BY <2>1
  <2> QED  BY <2>2, <2>3, <2>4, <2>5, <2>6
<1> QED  BY <1>1, <1>2, <1>3, <1>4 DEF SyncSound

(* A sync's own step: what the others hold stays sound, since a second one *)
(* makes every event late.                                                 *)
LEMMA OwnStep ==
  ASSUME IInv, TypeOK', NEW s \in Active, NEW q, sync' = [sync EXCEPT ![s] = q],
         Forward, late' = late, clock' = clock, req' = req,
         q.pc = "idle" \/ (q.now = sync[s].now /\ SyncSound(s)'),
         CleanIsSynced', Bounded',
         \A u \in Events \ late : state'[u] # None => state'[u] = state[u] \/ state'[u].at = sync[s].now
  PROVE  IInv'
<1>1. s \in Syncs /\ TypeOK  BY DEF Active, IInv
<1>2. \A t \in Active' : t \in Active /\ sync'[t].now = sync[t].now
  BY <1>1 DEF Active, At, TypeOK
<1>3. OneAtATime'  BY <1>2 DEF IInv, OneAtATime
<1>4. Stamped'
  <2> SUFFICES ASSUME NEW r \in Requests, req[r].pc = "write"
               PROVE  /\ req[r].event \in Events
                      /\ req[r].event \notin late =>
                           /\ \A t \in Active' : sync'[t].now < req[r].at
                           /\ state'[req[r].event] # None => state'[req[r].event].at < req[r].at
    BY DEF Stamped
  <2>1. /\ req[r].event \in Events
        /\ req[r].event \notin late =>
             /\ \A t \in Active : sync[t].now < req[r].at
             /\ state[req[r].event] # None => state[req[r].event].at < req[r].at
    BY DEF IInv, Stamped
  <2> QED  BY <1>2, <2>1
<1>5. ASSUME NEW t \in Active' PROVE SyncSound(t)'
  <2>1. CASE t = s
    <3>1. sync'[s] = q  BY <1>1 DEF TypeOK
    <3>2. q.pc # "idle"  BY <2>1, <3>1 DEF Active, At
    <3> QED  BY <2>1, <3>2
  <2>2. CASE t # s
    <3>1. late' = Events  BY <1>2, <2>2 DEF IInv, OneAtATime
    <3>2. t \in Syncs /\ sync'[t] = sync[t]  BY <1>1, <1>2, <2>2 DEF Active, TypeOK
    <3>3. SyncSound(t)  BY <1>2 DEF IInv
    <3> QED  BY <1>1, <3>1, <3>2, <3>3, Kept
  <2> QED  BY <2>1, <2>2
<1> QED  BY <1>3, <1>4, <1>5 DEF IInv


(* What a sync holds after its own step: what it fetched or loaded before, *)
(* or what is there now; and what it still holds of an event it wrote.     *)
ObjsOf(s, q) ==
  \A u \in Events : q.objs[u] # None =>
  \/ q.objs[u] = remote[u] /\ remote' = remote
  \/ /\ q.objs[u] = sync[s].objs[u]
     /\ q.pc \in {"pull", "pulled", "adopt"} => sync[s].pc \in {"pull", "pulled", "adopt"}
MineOf(s, q) ==
  \A u \in Events : q.mine[u] # None =>
  q.mine[u] = sync[s].mine[u] \/ (q.mine[u] = local[u] /\ local' = local)
RowsOf(s, q) ==
  \A u \in Events \ late :
  /\ state'[u] # None => state'[u] = state[u] \/ q.objs[u] = None \/ q.pc \notin {"pull", "pulled", "adopt"}
  /\ local'[u] # None => local'[u] = local[u] \/ q.mine[u] = None

LEMMA SoundAfter ==
  ASSUME IInv, TypeOK', NEW s \in Active, NEW q, sync' = [sync EXCEPT ![s] = q],
         Forward, late' = late, q.now = sync[s].now,
         ObjsOf(s, q), MineOf(s, q), RowsOf(s, q), Stages(s)', HandSound(s)'
  PROVE  SyncSound(s)'
<1>1. s \in Syncs /\ TypeOK /\ SyncSound(s)  BY DEF Active, IInv
<1>2. sync'[s] = q  BY <1>1 DEF TypeOK
<1>3. FetchedSound(s)'
  <2> SUFFICES ASSUME NEW u \in Events, q.objs[u] # None
               PROVE  /\ q.objs[u].rev <= remote'[u].rev
                      /\ q.objs[u].rev = remote'[u].rev => q.objs[u].body = remote'[u].body
                      /\ q.pc \in {"pull", "pulled", "adopt"} /\ state'[u] # None /\ u \notin late'
                           => state'[u].etag <= q.objs[u].rev
    BY <1>2 DEF FetchedSound
  <2>1. /\ remote[u].rev \in Nat /\ remote'[u].rev \in Nat
        /\ state[u] # None => state[u].etag \in Nat
    BY <1>1, Typed DEF TypeOK
  <2>2. state[u] # None => state[u].etag <= remote[u].rev  BY DEF IInv, Bounded
  <2>3. u \notin late' /\ state'[u] # None =>
          state'[u] = state[u] \/ q.pc \notin {"pull", "pulled", "adopt"}
    BY DEF Forward, RowsOf
  <2>4. CASE q.objs[u] = remote[u] /\ remote' = remote  BY <2>1, <2>2, <2>3, <2>4
  <2>5. CASE /\ q.objs[u] = sync[s].objs[u]
             /\ q.pc \in {"pull", "pulled", "adopt"} => sync[s].pc \in {"pull", "pulled", "adopt"}
    <3>1. /\ sync[s].objs[u].rev <= remote[u].rev
          /\ sync[s].objs[u].rev = remote[u].rev => sync[s].objs[u].body = remote[u].body
          /\ sync[s].pc \in {"pull", "pulled", "adopt"} /\ state[u] # None /\ u \notin late
               => state[u].etag <= sync[s].objs[u].rev
      BY <1>1, <2>5 DEF SyncSound, FetchedSound
    <3>2. sync[s].objs[u].rev \in Nat  BY <1>1, <2>5, TypedSync
    <3>3. /\ remote[u].rev <= remote'[u].rev
          /\ remote'[u].rev = remote[u].rev => remote'[u] = remote[u]
      BY DEF Forward
    <3> QED  BY <2>1, <2>3, <2>5, <3>1, <3>2, <3>3
  <2> QED  BY <2>4, <2>5 DEF ObjsOf
<1>4. LoadedSound(s)'
  <2> SUFFICES ASSUME NEW u \in Events \ late, q.mine[u] # None, local'[u] # None,
                      local'[u].at <= sync[s].now
               PROVE  local'[u].body = q.mine[u].body
    BY <1>2 DEF LoadedSound
  <2>1. local'[u] = local[u]  BY DEF RowsOf
  <2>2. CASE q.mine[u] = local[u] /\ local' = local  BY <2>2
  <2>3. CASE q.mine[u] = sync[s].mine[u]  BY <1>1, <2>1, <2>3 DEF SyncSound, LoadedSound
  <2> QED  BY <2>2, <2>3 DEF MineOf
<1> QED  BY <1>3, <1>4 DEF SyncSound

(* Nothing a step leaves of a row and its state makes it look cleaner. *)
LEMMA CleanKept ==
  ASSUME IInv, TypeOK', Forward,
         \A u \in Events :
           /\ remote'[u].rev <= rev'
           /\ state'[u] # None => state'[u] = state[u]
           /\ u \notin late' /\ local'[u] # None =>
                \/ local'[u] = local[u]
                \/ state'[u] # None => local'[u].at > state'[u].at
  PROVE  CleanIsSynced' /\ Bounded'
<1>1. TypeOK  BY DEF IInv
<1>2. ASSUME NEW u \in Events
      PROVE  /\ remote[u].rev \in Nat /\ remote'[u].rev \in Nat
             /\ clock \in Nat /\ clock' \in Nat
             /\ state[u] # None => state[u].etag \in Nat /\ state[u].at \in Nat
             /\ state'[u] # None => state'[u].at \in Nat
             /\ local'[u] # None => local'[u].at \in Nat
             /\ state'[u] # None => state'[u] = state[u]
             /\ state[u] # None => state[u].etag <= remote[u].rev /\ state[u].at <= clock
             /\ remote[u].rev <= remote'[u].rev
             /\ remote'[u].rev = remote[u].rev => remote'[u] = remote[u]
             /\ clock <= clock' /\ (u \notin late' => u \notin late)
  <2>1. /\ state[u] # None => state[u].etag <= remote[u].rev /\ state[u].at <= clock
        /\ remote[u].rev <= remote'[u].rev
        /\ remote'[u].rev = remote[u].rev => remote'[u] = remote[u]
        /\ clock <= clock' /\ (u \notin late' => u \notin late)
    BY DEF IInv, Bounded, Forward
  <2>2. /\ remote'[u].rev \in Nat /\ clock' \in Nat
        /\ state'[u] # None => state'[u].at \in Nat
        /\ local'[u] # None => local'[u].at \in Nat
    BY DEF TypeOK, Row, EventState
  <2> QED  BY <1>1, <2>1, <2>2, Typed
<1>3. Bounded'  BY <1>2 DEF Bounded
<1>4. CleanIsSynced'
  <2> SUFFICES ASSUME NEW u \in Events \ late', local'[u] # None, state'[u] # None,
                      local'[u].at <= state'[u].at, state'[u].etag = remote'[u].rev
               PROVE  remote'[u].body = local'[u].body
    BY DEF CleanIsSynced
  <2>1. state'[u] = state[u] /\ local'[u] = local[u] /\ u \notin late  BY <1>2
  <2>2. remote'[u] = remote[u]  BY <1>2, <2>1
  <2> QED  BY <2>1, <2>2 DEF IInv, CleanIsSynced
<1> QED  BY <1>3, <1>4


(* A step that only changes what the sync holds. *)
LEMMA QuietStep ==
  ASSUME IInv, TypeOK', NEW s \in Active, NEW q, sync' = [sync EXCEPT ![s] = q],
         UNCHANGED <<local, state, remote, rev, clock, req, late>>,
         \/ q.pc = "idle"
         \/ /\ q.now = sync[s].now /\ q.pc \notin {"pulled", "pushed", "adopted"}
            /\ \A u \in Events : q.objs[u] # None =>
                 \/ q.objs[u] = remote[u]
                 \/ /\ q.objs[u] = sync[s].objs[u]
                    /\ q.pc \in {"pull", "pulled", "adopt"} => sync[s].pc \in {"pull", "pulled", "adopt"}
            /\ \A u \in Events : q.mine[u] # None => q.mine[u] \in {sync[s].mine[u], local[u]}
            /\ Stages(s)'
  PROVE  IInv'
<1>1. s \in Syncs /\ TypeOK  BY DEF Active, IInv
<1>2. Forward  BY <1>1, Typed DEF Forward, TypeOK
<1>3. \A u \in Events : remote'[u].rev <= rev'  BY DEF IInv, Bounded
<1>4. CleanIsSynced' /\ Bounded'  BY <1>2, <1>3, CleanKept
<1>5. q.pc = "idle" \/ (q.now = sync[s].now /\ SyncSound(s)')
  <2> SUFFICES ASSUME q.pc # "idle" PROVE q.now = sync[s].now /\ SyncSound(s)'  OBVIOUS
  <2>1. sync'[s] = q  BY <1>1 DEF TypeOK
  <2>2. HandSound(s)'  BY <2>1 DEF HandSound
  <2>3. ObjsOf(s, q)  BY DEF ObjsOf
  <2>4. MineOf(s, q) /\ RowsOf(s, q)  BY DEF MineOf, RowsOf
  <2> QED  BY <1>2, <2>2, <2>3, <2>4, SoundAfter
<1> QED  BY <1>2, <1>4, <1>5, OwnStep

LEMMA QuietList ==
  ASSUME IInv, TypeOK', NEW s \in Syncs, List(s)
  PROVE  IInv'
<1>1. TypeOK /\ sync[s] \in Context  BY DEF IInv, TypeOK
<1>2. s \in Active /\ At(s, "list")  BY DEF List, Active, At
<1>3. Stages(s)  BY <1>2 DEF IInv, SyncSound
<1>0. PICK token, taken, removed, remaining, present :
        sync' = [sync EXCEPT ![s] = [sync[s] EXCEPT !.pc = "fetch", !.token = token,
                   !.hrefs = taken, !.gone = removed, !.rest = remaining, !.present = present]]
  BY DEF List
<1> DEFINE q == [sync[s] EXCEPT !.pc = "fetch", !.token = token, !.hrefs = taken,
                               !.gone = removed, !.rest = remaining, !.present = present]
<1>4. sync' = [sync EXCEPT ![s] = q]  BY <1>0
<1>5. /\ q.pc = "fetch" /\ q.now = sync[s].now
      /\ q.objs = sync[s].objs /\ q.mine = sync[s].mine /\ q.tombs = sync[s].tombs
  BY <1>1, <1>0 DEF Context
<1> HIDE DEF q
<1>6. sync'[s] = q  BY <1>1, <1>4 DEF TypeOK
<1>7. Stages(s)'
  BY <1>2, <1>3, <1>5, <1>6 DEF Stages, At, List, world, Nothing
<1>8. UNCHANGED <<local, state, remote, rev, clock, req, late>>  BY DEF List, table, server, world
<1> QED  BY <1>2, <1>4, <1>5, <1>7, <1>8, QuietStep

LEMMA QuietFetch ==
  ASSUME IInv, TypeOK', NEW s \in Syncs, Fetch(s)
  PROVE  IInv'
<1>1. TypeOK /\ sync[s] \in Context  BY DEF IInv, TypeOK
<1>2. s \in Active /\ At(s, "fetch")  BY DEF Fetch, Active, At
<1>3. Stages(s)  BY <1>2 DEF IInv, SyncSound
<1> DEFINE q == [sync[s] EXCEPT !.pc = "pull", !.hrefs = {}, !.objs = Fetched(sync[s].hrefs)]
<1>4. sync' = [sync EXCEPT ![s] = q]  BY DEF Fetch
<1>5. /\ q.pc = "pull" /\ q.now = sync[s].now /\ q.mine = sync[s].mine /\ q.tombs = sync[s].tombs
      /\ \A u \in Events : q.objs[u] \in {None, remote[u]}
  BY <1>1 DEF Context, Fetched
<1> HIDE DEF q
<1>6. sync'[s] = q  BY <1>1, <1>4 DEF TypeOK
<1>7. Stages(s)'
  BY <1>2, <1>3, <1>5, <1>6 DEF Stages, At, Fetch, world, Nothing
<1>8. UNCHANGED <<local, state, remote, rev, clock, req, late>>  BY DEF Fetch, table, server, world
<1> QED  BY <1>2, <1>4, <1>5, <1>7, <1>8, QuietStep

LEMMA QuietAbsent ==
  ASSUME IInv, TypeOK', NEW s \in Syncs, Absent(s)
  PROVE  IInv'
<1>1. TypeOK /\ sync[s] \in Context  BY DEF IInv, TypeOK
<1>2. s \in Active /\ At(s, "pull")  BY DEF Absent, Active, At
<1>3. Stages(s)  BY <1>2 DEF IInv, SyncSound
<1> DEFINE q == [sync[s] EXCEPT !.pc = "drop", !.present = {},
                               !.gone = sync[s].gone \cup (Left(state) \ sync[s].present)]
<1>4. sync' = [sync EXCEPT ![s] = q]  BY DEF Absent
<1>5. /\ q.pc = "drop" /\ q.now = sync[s].now
      /\ q.objs = sync[s].objs /\ q.mine = sync[s].mine /\ q.tombs = sync[s].tombs
  BY <1>1 DEF Context
<1> HIDE DEF q
<1>6. sync'[s] = q  BY <1>1, <1>4 DEF TypeOK
<1>7. Stages(s)'
  BY <1>2, <1>3, <1>5, <1>6 DEF Stages, At, Absent, world, Nothing
<1>8. UNCHANGED <<local, state, remote, rev, clock, req, late>>  BY DEF Absent, table, server, world
<1> QED  BY <1>2, <1>4, <1>5, <1>7, <1>8, QuietStep

LEMMA QuietLoad ==
  ASSUME IInv, TypeOK', NEW s \in Syncs, Load(s)
  PROVE  IInv'
<1>1. TypeOK /\ sync[s] \in Context  BY DEF IInv, TypeOK
<1>2. s \in Active /\ At(s, "drop")  BY DEF Load, Active, At
<1>3. Stages(s)  BY <1>2 DEF IInv, SyncSound
<1> DEFINE q == [sync[s] EXCEPT !.pc = "push", !.mine = local]
<1>4. sync' = [sync EXCEPT ![s] = q]  BY DEF Load
<1>5. /\ q.pc = "push" /\ q.now = sync[s].now
      /\ q.objs = sync[s].objs /\ q.mine = local /\ q.tombs = sync[s].tombs
  BY <1>1 DEF Context
<1> HIDE DEF q
<1>6. sync'[s] = q  BY <1>1, <1>4 DEF TypeOK
<1>7. Stages(s)'
  BY <1>2, <1>3, <1>5, <1>6 DEF Stages, At, Load, world, Nothing
<1>8. UNCHANGED <<local, state, remote, rev, clock, req, late>>  BY DEF Load, table, server, world
<1> QED  BY <1>2, <1>4, <1>5, <1>7, <1>8, QuietStep

LEMMA QuietPushClean ==
  ASSUME IInv, TypeOK', NEW s \in Syncs, PushClean(s)
  PROVE  IInv'
<1>1. TypeOK /\ sync[s] \in Context  BY DEF IInv, TypeOK
<1>2. s \in Active /\ At(s, "push")  BY DEF PushClean, Active, At
<1>3. Stages(s)  BY <1>2 DEF IInv, SyncSound
<1>0. PICK u \in Events : sync[s].mine[u] # None /\
        sync' = [sync EXCEPT ![s] = [sync[s] EXCEPT !.mine = [sync[s].mine EXCEPT ![u] = None]]]
  BY DEF PushClean, Left
<1> DEFINE q == [sync[s] EXCEPT !.mine = [sync[s].mine EXCEPT ![u] = None]]
<1>4. sync' = [sync EXCEPT ![s] = q]  BY <1>0
<1>5. /\ q.pc = "push" /\ q.now = sync[s].now /\ sync[s].mine # Nothing
      /\ q.objs = sync[s].objs /\ q.tombs = sync[s].tombs
      /\ \A v \in Events : q.mine[v] \in {None, sync[s].mine[v]}
  BY <1>1, <1>2, <1>0 DEF Context, Nothing, At
<1> HIDE DEF q
<1>6. sync'[s] = q  BY <1>1, <1>4 DEF TypeOK
<1>7. Stages(s)'
  BY <1>2, <1>3, <1>5, <1>6 DEF Stages, At, PushClean, world, Nothing
<1>8. UNCHANGED <<local, state, remote, rev, clock, req, late>>  BY DEF PushClean, table, server, world
<1> QED  BY <1>2, <1>4, <1>5, <1>7, <1>8, QuietStep

LEMMA QuietPutConflict ==
  ASSUME IInv, TypeOK', NEW s \in Syncs, PutConflict(s)
  PROVE  IInv'
<1>1. TypeOK /\ sync[s] \in Context  BY DEF IInv, TypeOK
<1>2. s \in Active /\ At(s, "push")  BY DEF PutConflict, Active, At
<1>3. Stages(s)  BY <1>2 DEF IInv, SyncSound
<1>0. PICK u \in Events : sync[s].mine[u] # None /\
        sync' = [sync EXCEPT ![s] = [sync[s] EXCEPT !.pc = "resolve", !.event = u,
                                    !.mine = [sync[s].mine EXCEPT ![u] = None]]]
  BY DEF PutConflict, ToPut, Left
<1> DEFINE q == [sync[s] EXCEPT !.pc = "resolve", !.event = u,
                               !.mine = [sync[s].mine EXCEPT ![u] = None]]
<1>4. sync' = [sync EXCEPT ![s] = q]  BY <1>0
<1>5. /\ q.pc = "resolve" /\ q.now = sync[s].now /\ sync[s].mine # Nothing
      /\ q.objs = sync[s].objs /\ q.tombs = sync[s].tombs /\ q.event = u /\ q.mine[u] = None
      /\ \A v \in Events : q.mine[v] \in {None, sync[s].mine[v]}
  BY <1>1, <1>0 DEF Context, Nothing
<1> HIDE DEF q
<1>6. sync'[s] = q  BY <1>1, <1>4 DEF TypeOK
<1>7. Stages(s)'
  BY <1>2, <1>3, <1>5, <1>6 DEF Stages, At, PutConflict, world, Nothing
<1>8. UNCHANGED <<local, state, remote, rev, clock, req, late>>  BY DEF PutConflict, table, server, world
<1> QED  BY <1>2, <1>4, <1>5, <1>7, <1>8, QuietStep

LEMMA QuietListDeletions ==
  ASSUME IInv, TypeOK', NEW s \in Syncs, ListDeletions(s)
  PROVE  IInv'
<1>1. TypeOK /\ sync[s] \in Context  BY DEF IInv, TypeOK
<1>2. s \in Active /\ At(s, "push")  BY DEF ListDeletions, Active, At
<1>3. Stages(s)  BY <1>2 DEF IInv, SyncSound
<1> DEFINE q == [sync[s] EXCEPT !.pc = "tombs", !.tombs = tomb]
<1>4. sync' = [sync EXCEPT ![s] = q]  BY DEF ListDeletions
<1>5. /\ q.pc = "tombs" /\ q.now = sync[s].now
      /\ q.objs = sync[s].objs /\ q.mine = sync[s].mine
  BY <1>1 DEF Context
<1> HIDE DEF q
<1>6. sync'[s] = q  BY <1>1, <1>4 DEF TypeOK
<1>7. Stages(s)'
  BY <1>2, <1>3, <1>5, <1>6 DEF Stages, At, ListDeletions, world, Nothing
<1>8. UNCHANGED <<local, state, remote, rev, clock, req, late>>  BY DEF ListDeletions, table, server, world
<1> QED  BY <1>2, <1>4, <1>5, <1>7, <1>8, QuietStep

LEMMA QuietDeleteConflict ==
  ASSUME IInv, TypeOK', NEW s \in Syncs, DeleteConflict(s)
  PROVE  IInv'
<1>1. TypeOK /\ sync[s] \in Context  BY DEF IInv, TypeOK
<1>2. s \in Active /\ At(s, "tombs")  BY DEF DeleteConflict, Active, At
<1>3. Stages(s)  BY <1>2 DEF IInv, SyncSound
<1>0. PICK u \in Events : sync[s].tombs[u] # None /\
        sync' = [sync EXCEPT ![s] = [sync[s] EXCEPT !.pc = "resolve", !.event = u]]
  BY DEF DeleteConflict, Left
<1> DEFINE q == [sync[s] EXCEPT !.pc = "resolve", !.event = u]
<1>4. sync' = [sync EXCEPT ![s] = q]  BY <1>0
<1>5. /\ q.pc = "resolve" /\ q.now = sync[s].now /\ sync[s].tombs # Nothing
      /\ q.objs = sync[s].objs /\ q.tombs = sync[s].tombs /\ q.event = u /\ q.mine = sync[s].mine
      /\ sync[s].mine[u] = None
  BY <1>1, <1>3, <1>0 DEF Context, Nothing, Stages
<1> HIDE DEF q
<1>6. sync'[s] = q  BY <1>1, <1>4 DEF TypeOK
<1>7. Stages(s)'
  BY <1>2, <1>3, <1>5, <1>6 DEF Stages, At, DeleteConflict, world, Nothing
<1>8. UNCHANGED <<local, state, remote, rev, clock, req, late>>  BY DEF DeleteConflict, table, server, world
<1> QED  BY <1>2, <1>4, <1>5, <1>7, <1>8, QuietStep

LEMMA QuietUntomb ==
  ASSUME IInv, TypeOK', NEW s \in Syncs, Untomb(s)
  PROVE  IInv'
<1>1. TypeOK /\ sync[s] \in Context  BY DEF IInv, TypeOK
<1>2. s \in Active /\ At(s, "untomb")  BY DEF Untomb, Active, At
<1>3. Stages(s)  BY <1>2 DEF IInv, SyncSound
<1> DEFINE q == [sync[s] EXCEPT !.pc = "tombs", !.event = None,
                               !.tombs = [sync[s].tombs EXCEPT ![sync[s].event] = None]]
<1>4. sync' = [sync EXCEPT ![s] = q]  BY DEF Untomb
<1>5. /\ q.pc = "tombs" /\ q.now = sync[s].now
      /\ q.objs = sync[s].objs /\ q.mine = sync[s].mine
      /\ sync[s].tombs = Nothing => q.tombs = Nothing
  BY <1>1 DEF Context, Nothing
<1> HIDE DEF q
<1>6. sync'[s] = q  BY <1>1, <1>4 DEF TypeOK
<1>7. Stages(s)'
  BY <1>2, <1>3, <1>5, <1>6 DEF Stages, At, Untomb, world, Nothing
<1>8. UNCHANGED <<local, state, remote, rev, clock, req, late>>  BY DEF Untomb, table, server, world
<1> QED  BY <1>2, <1>4, <1>5, <1>7, <1>8, QuietStep

LEMMA QuietResolve ==
  ASSUME IInv, TypeOK', NEW s \in Syncs, Resolve(s)
  PROVE  IInv'
<1>1. TypeOK /\ sync[s] \in Context  BY DEF IInv, TypeOK
<1>2. s \in Active /\ At(s, "resolve")  BY DEF Resolve, Active, At
<1>3. Stages(s)  BY <1>2 DEF IInv, SyncSound
<1>4. UNCHANGED <<local, state, remote, rev, clock, req, late>>
  BY DEF Resolve, table, server, world
<1> DEFINE u == sync[s].event
<1>5. u \in Events  BY <1>2, <1>3 DEF Stages, At
<1>6. CASE There(u)
  <2> DEFINE q == [sync[s] EXCEPT !.pc = "adopt", !.objs = Fetched({u})]
  <2>1. sync' = [sync EXCEPT ![s] = q]  BY <1>6 DEF Resolve
  <2>2. /\ q.pc = "adopt" /\ q.now = sync[s].now /\ q.mine = sync[s].mine
        /\ q.tombs = sync[s].tombs /\ q.event = u
        /\ \A v \in Events : q.objs[v] \in {None, remote[v]}
    BY <1>1 DEF Context, Fetched
  <2>3. q.objs[u] # None
    <3>1. remote[u] # None
      BY <1>1, <1>5, <1>6 DEF TypeOK, There
    <3>2. Fetched({u})[u] = remote[u]  BY <1>5, <1>6 DEF Fetched
    <3> QED  BY <1>1, <3>1, <3>2 DEF Context
  <2> HIDE DEF q
  <2>4. sync'[s] = q  BY <1>1, <2>1 DEF TypeOK
  <2>5. Stages(s)'
    BY <1>2, <1>3, <1>4, <1>5, <2>2, <2>3, <2>4 DEF Stages, At
  <2> QED  BY <1>2, <1>4, <2>1, <2>2, <2>5, QuietStep
<1>7. CASE ~There(u)
  <2> DEFINE q == [sync[s] EXCEPT !.pc = Conflicting(s),
                                 !.event = IF Conflicting(s) = "untomb" THEN u ELSE None]
  <2>1. sync' = [sync EXCEPT ![s] = q]  BY <1>7 DEF Resolve
  <2>2. /\ q.pc \in {"push", "untomb"} /\ q.now = sync[s].now /\ q.mine = sync[s].mine
        /\ q.tombs = sync[s].tombs /\ q.objs = sync[s].objs
        /\ q.pc = "untomb" => q.event = u
    BY <1>1 DEF Context, Conflicting
  <2> HIDE DEF q
  <2>4. sync'[s] = q  BY <1>1, <2>1 DEF TypeOK
  <2>5. Stages(s)'
    BY <1>2, <1>3, <1>4, <1>5, <2>2, <2>4 DEF Stages, At
  <2> QED  BY <1>2, <1>4, <2>1, <2>2, <2>5, QuietStep
<1> QED  BY <1>6, <1>7

LEMMA QuietIdle ==
  ASSUME IInv, TypeOK', NEW s \in Syncs, End(s) \/ RefuseState(s) \/ Fail(s)
  PROVE  IInv'
<1>1. s \in Active  BY DEF End, EndWith, RefuseState, Fail, Active, At
<1>2. sync' = [sync EXCEPT ![s] = Idle]  BY DEF End, EndWith, RefuseState, Fail
<1>3. UNCHANGED <<local, state, remote, rev, clock, req, late>>
  BY DEF End, EndWith, RefuseState, Fail, table, server, world
<1>4. Idle.pc = "idle"  BY DEF Idle
<1> QED  BY <1>1, <1>2, <1>3, <1>4, QuietStep

-----------------------------------------------------------------------------
(* The steps that write. *)
LEMMA DropStep == ASSUME IInv, TypeOK', NEW s \in Syncs, Drop(s) PROVE IInv'
<1>1. TypeOK /\ sync[s] \in Context  BY DEF IInv, TypeOK
<1>2. s \in Active /\ At(s, "drop")  BY DEF Drop, Active, At
<1>3. Stages(s)  BY <1>2 DEF IInv, SyncSound
<1>4. PICK v \in sync[s].gone :
        /\ local' = IF state[v] = None THEN local ELSE [local EXCEPT ![v] = None]
        /\ state' = [state EXCEPT ![v] = None]
        /\ sync' = [sync EXCEPT ![s] = [sync[s] EXCEPT !.gone = sync[s].gone \ {v}]]
        /\ cut' = cut \ {v}
        /\ UNCHANGED <<tomb, link, born, server, clock, req, faults, late, torn>>
  BY DEF Drop
<1> DEFINE q == [sync[s] EXCEPT !.gone = sync[s].gone \ {v}]
<1>5. /\ q.pc = "drop" /\ q.now = sync[s].now /\ q.event = sync[s].event
      /\ q.objs = sync[s].objs /\ q.mine = sync[s].mine /\ q.tombs = sync[s].tombs
  BY <1>1, <1>2 DEF Context, At
<1>6. sync' = [sync EXCEPT ![s] = q]  BY <1>4
<1> HIDE DEF q
<1>7. sync'[s] = q  BY <1>1, <1>6 DEF TypeOK
<1>8. UNCHANGED <<remote, rev, clock, req, late>>  BY <1>4 DEF server, world
<1>9. Forward  BY <1>1, <1>8, Typed DEF Forward, TypeOK
<1>10. \A u \in Events : /\ local'[u] # None => local'[u] = local[u]
                         /\ state'[u] # None => state'[u] = state[u]
  BY <1>1, <1>4 DEF TypeOK
<1>11. CleanIsSynced' /\ Bounded'
  <2>1. \A u \in Events : remote'[u].rev <= rev'  BY <1>8 DEF IInv, Bounded
  <2> QED  BY <1>9, <1>10, <2>1, CleanKept
<1>12. Stages(s)' /\ HandSound(s)'
  <2>1. sync[s].mine = Nothing /\ sync[s].tombs = Nothing /\ sync[s].now <= clock
    BY <1>2, <1>3 DEF Stages, At
  <2> QED  BY <1>5, <1>7, <1>8, <2>1 DEF Stages, HandSound
<1>13. SyncSound(s)'
  <2>1. ObjsOf(s, q) /\ MineOf(s, q)  BY <1>5 DEF ObjsOf, MineOf
  <2>2. RowsOf(s, q)  BY <1>10 DEF RowsOf
  <2> QED  BY <1>2, <1>5, <1>6, <1>8, <1>9, <1>12, <2>1, <2>2, SoundAfter
<1> QED  BY <1>2, <1>5, <1>6, <1>8, <1>9, <1>10, <1>11, <1>13, OwnStep

LEMMA DeleteRemoteStep == ASSUME IInv, TypeOK', NEW s \in Syncs, DeleteRemote(s) PROVE IInv'
<1>1. TypeOK /\ sync[s] \in Context  BY DEF IInv, TypeOK
<1>2. s \in Active /\ At(s, "tombs")  BY DEF DeleteRemote, Active, At
<1>3. Stages(s)  BY <1>2 DEF IInv, SyncSound
<1>4. PICK v \in Events :
        /\ remote' = IF There(v) THEN [remote EXCEPT ![v] = [body |-> None, rev |-> rev + 1]] ELSE remote
        /\ rev' = IF There(v) THEN rev + 1 ELSE rev
        /\ sync' = [sync EXCEPT ![s] = [sync[s] EXCEPT !.pc = "untomb", !.event = v]]
        /\ UNCHANGED <<table, world>>
  BY DEF DeleteRemote, Left
<1> DEFINE q == [sync[s] EXCEPT !.pc = "untomb", !.event = v]
<1>5. /\ q.pc = "untomb" /\ q.now = sync[s].now /\ q.event = v
      /\ q.objs = sync[s].objs /\ q.mine = sync[s].mine /\ q.tombs = sync[s].tombs
  BY <1>1 DEF Context
<1>6. sync' = [sync EXCEPT ![s] = q]  BY <1>4
<1> HIDE DEF q
<1>7. sync'[s] = q  BY <1>1, <1>6 DEF TypeOK
<1>8. UNCHANGED <<local, state, clock, req, late>>  BY <1>4 DEF table, world
<1>9. \A u \in Events : remote[u].rev \in Nat /\ rev \in Nat /\ clock \in Nat /\ remote[u].rev <= rev
  BY <1>1, Typed DEF IInv, Bounded
<1>10. \A u \in Events : remote'[u].rev <= rev' /\ (remote'[u] = remote[u] \/ remote'[u].rev > rev)
  BY <1>1, <1>4, <1>9 DEF TypeOK
<1>11. Forward
  <2>1. clock <= clock'  BY <1>1, <1>8 DEF TypeOK
  <2>2. \A u \in Events : remote'[u].rev \in Nat  BY DEF TypeOK
  <2>3. ASSUME NEW u \in Events
        PROVE  /\ remote[u].rev <= remote'[u].rev
               /\ remote'[u].rev = remote[u].rev => remote'[u] = remote[u]
    <3>1. CASE remote'[u] = remote[u]  BY <1>9, <3>1
    <3>2. CASE remote'[u].rev > rev  BY <1>9, <2>2, <3>2
    <3> QED  BY <1>10, <3>1, <3>2
  <2> QED  BY <1>8, <2>1, <2>3 DEF Forward
<1>12. CleanIsSynced' /\ Bounded'  BY <1>8, <1>10, <1>11, CleanKept
<1>13. Stages(s)' /\ HandSound(s)'
  BY <1>2, <1>3, <1>5, <1>7, <1>8 DEF Stages, HandSound, At
<1>14. SyncSound(s)'
  <2>1. ObjsOf(s, q) /\ MineOf(s, q)  BY <1>5 DEF ObjsOf, MineOf
  <2>2. RowsOf(s, q)  BY <1>8 DEF RowsOf
  <2> QED  BY <1>2, <1>5, <1>6, <1>8, <1>11, <1>13, <2>1, <2>2, SoundAfter
<1> QED  BY <1>2, <1>5, <1>6, <1>8, <1>11, <1>12, <1>14, OwnStep

LEMMA PutStep == ASSUME IInv, TypeOK', NEW s \in Syncs, Put(s) PROVE IInv'
<1>1. TypeOK /\ sync[s] \in Context  BY DEF IInv, TypeOK
<1>2. s \in Active /\ At(s, "push")  BY DEF Put, PutWith, Active, At
<1>3. Stages(s) /\ LoadedSound(s)  BY <1>2 DEF IInv, SyncSound
<1>4. PICK v \in Events :
        /\ sync[s].mine[v] # None
        /\ remote' = [remote EXCEPT ![v] = [body |-> sync[s].mine[v].body, rev |-> rev + 1]]
        /\ rev' = rev + 1
        /\ sync' = [sync EXCEPT ![s] = [sync[s] EXCEPT
              !.pc = "pushed", !.mine = [sync[s].mine EXCEPT ![v] = None],
              !.event = v, !.id = sync[s].mine[v].id, !.etag = rev + 1]]
        /\ UNCHANGED <<table, world>>
  BY DEF Put, PutWith, ToPut, Left
<1> DEFINE q == [sync[s] EXCEPT !.pc = "pushed", !.mine = [sync[s].mine EXCEPT ![v] = None],
                               !.event = v, !.id = sync[s].mine[v].id, !.etag = rev + 1]
<1>5. /\ q.pc = "pushed" /\ q.now = sync[s].now /\ q.event = v /\ q.etag = rev + 1
      /\ q.objs = sync[s].objs /\ q.tombs = sync[s].tombs /\ sync[s].mine # Nothing
      /\ \A u \in Events : q.mine[u] \in {None, sync[s].mine[u]}
  BY <1>1, <1>4 DEF Context, Nothing
<1>6. sync' = [sync EXCEPT ![s] = q]  BY <1>4
<1> HIDE DEF q
<1>7. sync'[s] = q  BY <1>1, <1>6 DEF TypeOK
<1>8. UNCHANGED <<local, state, clock, req, late>>  BY <1>4 DEF table, world
<1>9. \A u \in Events : remote[u].rev \in Nat /\ rev \in Nat /\ clock \in Nat /\ remote[u].rev <= rev
  BY <1>1, Typed DEF IInv, Bounded
<1>10. \A u \in Events : remote'[u].rev <= rev' /\ (remote'[u] = remote[u] \/ remote'[u].rev > rev)
  BY <1>1, <1>4, <1>9 DEF TypeOK
<1>11. Forward
  <2>1. clock <= clock'  BY <1>1, <1>8 DEF TypeOK
  <2>2. \A u \in Events : remote'[u].rev \in Nat  BY DEF TypeOK
  <2>3. ASSUME NEW u \in Events
        PROVE  /\ remote[u].rev <= remote'[u].rev
               /\ remote'[u].rev = remote[u].rev => remote'[u] = remote[u]
    <3>1. CASE remote'[u] = remote[u]  BY <1>9, <3>1
    <3>2. CASE remote'[u].rev > rev  BY <1>9, <2>2, <3>2
    <3> QED  BY <1>10, <3>1, <3>2
  <2> QED  BY <1>8, <2>1, <2>3 DEF Forward
<1>12. CleanIsSynced' /\ Bounded'  BY <1>8, <1>10, <1>11, CleanKept
<1>13. Stages(s)'
  BY <1>2, <1>3, <1>5, <1>7, <1>8 DEF Stages, At
<1>14. HandSound(s)'
  <2>1. remote'[v] = [body |-> sync[s].mine[v].body, rev |-> rev + 1]  BY <1>1, <1>4 DEF TypeOK
  <2>2. v \notin late /\ local[v] # None /\ local[v].at <= sync[s].now => local[v].body = sync[s].mine[v].body
    BY <1>3, <1>4 DEF LoadedSound
  <2>3. rev \in Nat  BY <1>1 DEF TypeOK
  <2> QED  BY <1>5, <1>7, <1>8, <2>1, <2>2, <2>3 DEF HandSound
<1>15. SyncSound(s)'
  <2>1. ObjsOf(s, q)  BY <1>5 DEF ObjsOf
  <2>2. MineOf(s, q)  BY <1>5 DEF MineOf
  <2>3. RowsOf(s, q)  BY <1>8 DEF RowsOf
  <2> QED  BY <1>2, <1>5, <1>6, <1>8, <1>11, <1>13, <1>14, <2>1, <2>2, <2>3, SoundAfter
<1> QED  BY <1>2, <1>5, <1>6, <1>8, <1>11, <1>12, <1>15, OwnStep

LEMMA AdoptStep ==
  ASSUME IInv, TypeOK', NEW s \in Syncs, sync[s].pc \in {"pull", "adopt"},
         NEW v \in Events, sync[s].objs[v] # None, sync[s].mine[v] = None,
         NEW pc \in {"pulled", "adopted"}, pc = "pulled" => sync[s].pc = "pull", Adopt(s, v, pc)
  PROVE  IInv'
<1>1. TypeOK /\ sync[s] \in Context  BY DEF IInv, TypeOK
<1>2. s \in Active  BY DEF Active, At
<1>3. Stages(s) /\ FetchedSound(s)  BY <1>2 DEF IInv, SyncSound
<1> DEFINE object == sync[s].objs[v]
<1> DEFINE id == IF local[v] = None THEN born[v] + 1 ELSE local[v].id
<1> DEFINE q == [sync[s] EXCEPT !.pc = pc, !.objs = [sync[s].objs EXCEPT ![v] = None],
                               !.event = v, !.id = id, !.etag = object.rev]
<1>4. /\ local' = [local EXCEPT ![v] = [body |-> object.body, at |-> sync[s].now, id |-> id]]
      /\ sync' = [sync EXCEPT ![s] = q]
      /\ UNCHANGED <<state, remote, rev, clock, req, late>>
  BY DEF Adopt, server, world
<1> HIDE DEF id
<1>5. /\ q.pc = pc /\ q.now = sync[s].now /\ q.event = v /\ q.etag = object.rev
      /\ q.mine = sync[s].mine /\ q.tombs = sync[s].tombs /\ q.objs[v] = None
      /\ \A u \in Events : q.objs[u] \in {None, sync[s].objs[u]}
  BY <1>1 DEF Context
<1> HIDE DEF q, object
<1>6. sync'[s] = q  BY <1>1, <1>4 DEF TypeOK
<1>7. local'[v] = [body |-> object.body, at |-> sync[s].now, id |-> id]
      /\ \A u \in Events : u # v => local'[u] = local[u]
  BY <1>1, <1>4 DEF TypeOK
<1>8. /\ object.rev <= remote[v].rev
      /\ object.rev = remote[v].rev => object.body = remote[v].body
      /\ state[v] # None /\ v \notin late => state[v].etag <= object.rev
  BY <1>3 DEF FetchedSound, object
<1>9. Forward  BY <1>1, <1>4, Typed DEF Forward, TypeOK
<1>10. Bounded'  BY <1>4 DEF IInv, Bounded
<1>11. CleanIsSynced'
  <2> SUFFICES ASSUME NEW u \in Events \ late, local'[u] # None, state[u] # None,
                      local'[u].at <= state[u].at, state[u].etag = remote[u].rev
               PROVE  remote[u].body = local'[u].body
    BY <1>4 DEF CleanIsSynced
  <2>1. CASE u # v  BY <1>7, <2>1 DEF IInv, CleanIsSynced
  <2>2. CASE u = v
    <3>1. object.rev \in Nat /\ remote[v].rev \in Nat /\ state[v].etag \in Nat
      BY <1>1, <2>2, Typed, TypedSync DEF object
    <3> QED  BY <1>7, <1>8, <2>2, <3>1
  <2> QED  BY <2>1, <2>2
<1>12. Stages(s)'
  BY <1>3, <1>4, <1>5, <1>6 DEF Stages
<1>13. HandSound(s)'  BY <1>4, <1>5, <1>6, <1>7, <1>8 DEF HandSound
<1>14. SyncSound(s)'
  <2>1. q.pc \in {"pull", "pulled", "adopt"} => sync[s].pc \in {"pull", "pulled", "adopt"}  BY <1>5
  <2>2. \A u \in Events : u # v \/ q.mine[u] = None  BY <1>5
  <2>3. ObjsOf(s, q)  BY <1>5, <2>1 DEF ObjsOf
  <2>4. MineOf(s, q)  BY <1>5 DEF MineOf
  <2>5. RowsOf(s, q)  BY <1>4, <1>7, <2>2 DEF RowsOf
  <2>6. late' = late /\ q.now = sync[s].now /\ sync' = [sync EXCEPT ![s] = q]  BY <1>4, <1>5
  <2> QED  BY <1>2, <1>9, <1>12, <1>13, <2>3, <2>4, <2>5, <2>6, SoundAfter
<1> QED  BY <1>2, <1>4, <1>5, <1>9, <1>10, <1>11, <1>14, OwnStep

LEMMA PullEventStep == ASSUME IInv, TypeOK', NEW s \in Syncs, PullEvent(s) PROVE IInv'
<1>1. At(s, "pull") /\ s \in Active  BY DEF PullEvent, Active, At
<1>2. sync[s].mine = Nothing  BY <1>1 DEF IInv, SyncSound, Stages, At
<1>3. PICK u \in Events : sync[s].objs[u] # None /\ Adopt(s, u, "pulled")  BY DEF PullEvent, Left
<1>4. sync[s].mine[u] = None  BY <1>2 DEF Nothing
<1> QED  BY <1>1, <1>3, <1>4, AdoptStep DEF At

LEMMA AdoptEventStep == ASSUME IInv, TypeOK', NEW s \in Syncs, AdoptEvent(s) PROVE IInv'
<1>1. At(s, "adopt") /\ s \in Active  BY DEF AdoptEvent, Active, At
<1>2. /\ sync[s].event \in Events /\ sync[s].mine[sync[s].event] = None
      /\ sync[s].objs[sync[s].event] # None
  BY <1>1 DEF IInv, SyncSound, Stages, At
<1>3. Adopt(s, sync[s].event, "adopted")  BY DEF AdoptEvent
<1> QED  BY <1>1, <1>2, <1>3, AdoptStep DEF At

LEMMA SaveStateStep == ASSUME IInv, TypeOK', NEW s \in Syncs, SaveState(s) PROVE IInv'
<1> DEFINE v == sync[s].event
<1> DEFINE q == [sync[s] EXCEPT !.pc = After(s), !.id = 0, !.etag = 0, !.rest = sync[s].rest \ {v},
                               !.event = IF After(s) = "untomb" THEN v ELSE None]
<1>1. TypeOK /\ sync[s] \in Context  BY DEF IInv, TypeOK
<1>2. /\ sync[s].pc \in {"pulled", "pushed", "adopted"} /\ Has(v, sync[s].id)
      /\ state' = [state EXCEPT ![v] = [etag |-> sync[s].etag, at |-> sync[s].now]]
      /\ sync' = [sync EXCEPT ![s] = q]
      /\ UNCHANGED <<local, remote, rev, clock, req, late>>
  BY DEF SaveState, SavedWith, server, world
<1>3. s \in Active  BY <1>2 DEF Active, At
<1>4. Stages(s) /\ HandSound(s)  BY <1>3 DEF IInv, SyncSound
<1>5. v \in Events  BY <1>2, <1>4 DEF Stages
<1>6. /\ q.pc \in {"pull", "push", "untomb"} /\ (q.pc = "pull" => sync[s].pc = "pulled")
      /\ q.now = sync[s].now /\ q.objs = sync[s].objs /\ q.mine = sync[s].mine
      /\ q.tombs = sync[s].tombs /\ (q.pc = "untomb" => q.event = v)
  BY <1>1, <1>2 DEF Context, After, Conflicting, At
<1> HIDE DEF q
<1>7. sync'[s] = q  BY <1>1, <1>2 DEF TypeOK
<1>8. /\ state'[v] = [etag |-> sync[s].etag, at |-> sync[s].now]
      /\ \A u \in Events : u # v => state'[u] = state[u]
  BY <1>1, <1>2, <1>5 DEF TypeOK
<1>9. /\ sync[s].pc = "pulled" => sync[s].objs[v] = None
      /\ sync[s].etag <= remote[v].rev
      /\ v \notin late /\ local[v] # None /\ local[v].at <= sync[s].now
         /\ sync[s].etag = remote[v].rev
         => local[v].body = remote[v].body
  BY <1>2, <1>4 DEF HandSound
<1>10. Forward  BY <1>1, <1>2, Typed DEF Forward, TypeOK
<1>11. Bounded'
  <2>1. sync[s].now <= clock  BY <1>4 DEF Stages
  <2> SUFFICES ASSUME NEW u \in Events
               PROVE  /\ remote[u].rev <= rev
                      /\ state'[u] # None => state'[u].etag <= remote[u].rev /\ state'[u].at <= clock
    BY <1>2 DEF Bounded
  <2> QED  BY <1>8, <1>9, <2>1 DEF IInv, Bounded
<1>12. CleanIsSynced'
  <2> SUFFICES ASSUME NEW u \in Events \ late, local[u] # None, state'[u] # None,
                      local[u].at <= state'[u].at, state'[u].etag = remote[u].rev
               PROVE  remote[u].body = local[u].body
    BY <1>2 DEF CleanIsSynced
  <2>1. CASE u # v  BY <1>8, <2>1 DEF IInv, CleanIsSynced
  <2>2. CASE u = v  BY <1>8, <1>9, <2>2
  <2> QED  BY <2>1, <2>2
<1>13. Stages(s)' /\ HandSound(s)'
  <2>1. sync[s].pc = "pulled" => sync[s].mine = Nothing /\ sync[s].tombs = Nothing  BY <1>4 DEF Stages
  <2>2. Stages(s)'  BY <1>2, <1>4, <1>5, <1>6, <1>7, <2>1 DEF Stages
  <2> QED  BY <1>6, <1>7, <2>2 DEF HandSound
<1>14. SyncSound(s)'
  <2>1. q.pc \in {"pull", "pulled", "adopt"} => sync[s].pc \in {"pull", "pulled", "adopt"} BY <1>6
  <2>2. q.objs[v] = None \/ q.pc \notin {"pull", "pulled", "adopt"}  BY <1>6, <1>9
  <2>3. ObjsOf(s, q)  BY <1>6, <2>1 DEF ObjsOf
  <2>4. MineOf(s, q)  BY <1>6 DEF MineOf
  <2>5. RowsOf(s, q)  BY <1>2, <1>8, <2>2 DEF RowsOf
  <2>6. late' = late /\ q.now = sync[s].now /\ sync' = [sync EXCEPT ![s] = q]  BY <1>2, <1>6
  <2> QED  BY <1>3, <1>10, <1>13, <2>3, <2>4, <2>5, <2>6, SoundAfter
<1>15. \A u \in Events : state'[u] = state[u] \/ state'[u].at = sync[s].now  BY <1>8
<1>16. late' = late /\ clock' = clock /\ req' = req  BY <1>2
<1>17. sync' = [sync EXCEPT ![s] = q]  BY <1>2
<1> QED  BY <1>3, <1>6, <1>10, <1>11, <1>12, <1>14, <1>15, <1>16, <1>17, OwnStep

-----------------------------------------------------------------------------
(* A sync that begins finds no edit of an event that is not late in flight. *)
LEMMA BeginStep == ASSUME IInv, TypeOK', NEW s \in Syncs, Begin(s) PROVE IInv'
<1> DEFINE q == [Idle EXCEPT !.pc = "list", !.now = clock, !.token = link.token, !.linkAt = link.at]
<1>1. TypeOK /\ s \notin Active  BY DEF IInv, Begin, Active, At
<1>2. /\ sync' = [sync EXCEPT ![s] = q]
      /\ late' = IF Active # {} THEN Events ELSE late \cup InFlight("write")
      /\ UNCHANGED <<local, state, remote, rev, clock, req>>
  BY DEF Begin, table, server
<1>3. /\ q.pc = "list" /\ q.now = clock /\ q.mine = Nothing /\ q.tombs = Nothing /\ q.objs = Nothing
  BY DEF Idle
<1> HIDE DEF q
<1>4. sync'[s] = q /\ \A t \in Syncs : t # s => sync'[t] = sync[t]  BY <1>1, <1>2 DEF TypeOK
<1>5. Active' = Active \cup {s}  BY <1>3, <1>4 DEF Active, At
<1>6. Forward  BY <1>1, <1>2, Typed DEF Forward, TypeOK
<1>7. CleanIsSynced' /\ Bounded'
  <2>1. \A u \in Events : remote'[u].rev <= rev'  BY <1>2 DEF IInv, Bounded
  <2> QED  BY <1>2, <1>6, <2>1, CleanKept
<1>8. OneAtATime'  BY <1>2, <1>5 DEF OneAtATime
<1>9. Stamped'
  <2> SUFFICES ASSUME NEW r \in Requests, req[r].pc = "write"
               PROVE  /\ req[r].event \in Events
                      /\ req[r].event \notin late' =>
                           /\ \A t \in Active' : sync'[t].now < req[r].at
                           /\ state[req[r].event] # None => state[req[r].event].at < req[r].at
    BY <1>2 DEF Stamped
  <2>1. req[r].event \in Events  BY DEF IInv, Stamped
  <2>2. req[r].event \in late'  BY <1>2, <2>1 DEF InFlight
  <2> QED  BY <2>1, <2>2
<1>10. SyncSound(s)'
  BY <1>1, <1>2, <1>3, <1>4 DEF SyncSound, Stages, FetchedSound, LoadedSound, HandSound, Nothing, TypeOK
<1>11. ASSUME NEW t \in Active PROVE SyncSound(t)'
  <2>1. t \in Syncs /\ t # s /\ SyncSound(t)  BY <1>1 DEF Active, IInv
  <2> QED  BY <1>1, <1>2, <1>4, <1>6, <2>1, Kept
<1> QED  BY <1>5, <1>7, <1>8, <1>9, <1>10, <1>11 DEF IInv

(* What requests and other clients do. *)
LEMMA OutsideStep ==
  ASSUME IInv, TypeOK', sync' = sync, late' = late, Forward,
         \A u \in Events : remote'[u].rev <= rev',
         \A u \in Events :
           /\ state'[u] # None => state'[u] = state[u]
           /\ u \notin late /\ local'[u] # None =>
                \/ local'[u] = local[u]
                \/ /\ \A s \in Active : local'[u].at > sync[s].now
                   /\ state'[u] # None => local'[u].at > state'[u].at,
         Stamped'
  PROVE  IInv'
<1>1. CleanIsSynced' /\ Bounded'  BY CleanKept
<1>2. Active' = Active  BY DEF Active, At
<1>3. OneAtATime'  BY <1>2 DEF IInv, OneAtATime
<1>4. ASSUME NEW t \in Active PROVE SyncSound(t)'
  <2>1. t \in Syncs /\ SyncSound(t) /\ TypeOK  BY DEF Active, IInv
  <2> QED  BY <2>1, Kept
<1> QED  BY <1>1, <1>2, <1>3, <1>4 DEF IInv

LEMMA RequestStep == ASSUME IInv, TypeOK', NEW r \in Requests, Request(r) PROVE IInv'
<1>1. TypeOK  BY DEF IInv
<1>2. sync' = sync /\ late' = late /\ remote' = remote /\ rev' = rev /\ clock <= clock'
  BY <1>1 DEF Request, BeginCreate, BeginEdit, Write, BeginDelete, Delete, table, server, TypeOK
<1>3. Forward  BY <1>1, <1>2, Typed DEF Forward
<1>4. \A u \in Events : remote'[u].rev <= rev'  BY <1>2 DEF IInv, Bounded
<1>5. CASE BeginCreate(r) \/ BeginEdit(r)
  <2>0. PICK u \in Events : \E id : req' = [req EXCEPT ![r] =
          [pc |-> "write", event |-> u, at |-> clock + 1, id |-> id]]
    BY <1>5 DEF BeginCreate, BeginEdit
  <2>1. PICK id : req' = [req EXCEPT ![r] =
          [pc |-> "write", event |-> u, at |-> clock + 1, id |-> id]]
    BY <2>0
  <2>2. local' = local /\ state' = state  BY <1>5 DEF BeginCreate, BeginEdit, table
  <2>3. Stamped'
    <3> SUFFICES ASSUME NEW p \in Requests, req'[p].pc = "write"
                 PROVE  /\ req'[p].event \in Events
                        /\ req'[p].event \notin late =>
                             /\ \A t \in Active : sync[t].now < req'[p].at
                             /\ state[req'[p].event] # None => state[req'[p].event].at < req'[p].at
      BY <1>2, <2>2 DEF Stamped, Active, At
    <3>1. CASE p # r
      <4>1. req'[p] = req[p]  BY <1>1, <2>1, <3>1 DEF TypeOK
      <4> QED  BY <4>1 DEF IInv, Stamped
    <3>2. CASE p = r
      <4>1. req'[p].event = u /\ req'[p].at = clock + 1  BY <1>1, <2>1, <3>2 DEF TypeOK
      <4>2. \A t \in Active : sync[t].now \in Nat /\ sync[t].now <= clock
        BY <1>1, TypedSync DEF IInv, SyncSound, Stages, Active
      <4>3. state[u] # None => state[u].at \in Nat /\ state[u].at <= clock
        BY <1>1, Typed DEF IInv, Bounded
      <4>4. clock \in Nat  BY <1>1 DEF TypeOK
      <4> QED  BY <4>1, <4>2, <4>3, <4>4
    <3> QED  BY <3>1, <3>2
  <2> QED  BY <1>2, <1>3, <1>4, <2>2, <2>3, OutsideStep
<1>6. CASE Write(r) \/ BeginDelete(r) \/ Delete(r)
  <2>1. /\ \A p \in Requests : req'[p].pc = "write" => req'[p] = req[p]
        /\ \A u \in Events : state'[u] # None => state'[u] = state[u]
    <3>1. CASE Write(r)  BY <1>1, <3>1 DEF Write, Settled, TypeOK
    <3>2. CASE BeginDelete(r)  BY <1>1, <3>2 DEF BeginDelete, TypeOK
    <3>3. CASE Delete(r)
      <4>1. state' = state \/ state' = [state EXCEPT ![req[r].event] = None]  BY <3>3 DEF Delete
      <4>2. req' = [req EXCEPT ![r] = Settled]  BY <3>3 DEF Delete
      <4> QED  BY <1>1, <4>1, <4>2 DEF TypeOK, Settled
    <3> QED  BY <1>6, <3>1, <3>2, <3>3
  <2>2. Stamped'  BY <1>2, <2>1 DEF IInv, Stamped, Active, At
  <2>3. ASSUME NEW u \in Events, u \notin late, local'[u] # None, local'[u] # local[u]
        PROVE  /\ \A s \in Active : local'[u].at > sync[s].now
               /\ state'[u] # None => local'[u].at > state'[u].at
    <3>1. CASE Write(r)
      <4>1. /\ req[r].pc = "write" /\ state' = state
            /\ local' = local \/ local' = [local EXCEPT ![req[r].event] =
                   [body |-> req[r].at, at |-> req[r].at, id |-> req[r].id]]
        BY <3>1 DEF Write
      <4>2. u = req[r].event /\ local'[u].at = req[r].at  BY <1>1, <2>3, <4>1 DEF TypeOK
      <4>3. /\ \A s \in Active : sync[s].now < req[r].at
            /\ state[u] # None => state[u].at < req[r].at
        BY <2>3, <4>1, <4>2 DEF IInv, Stamped
      <4>4. /\ req[r].at \in Nat /\ \A s \in Active : sync[s].now \in Nat
            /\ state[u] # None => state[u].at \in Nat
        BY <1>1, Typed, TypedSync DEF TypeOK, Change, Active
      <4> QED  BY <4>1, <4>2, <4>3, <4>4
    <3>2. CASE BeginDelete(r)  BY <2>3, <3>2 DEF BeginDelete
    <3>3. CASE Delete(r)
      <4>1. local' = local \/ local' = [local EXCEPT ![req[r].event] = None]  BY <3>3 DEF Delete
      <4> QED  BY <1>1, <2>3, <4>1 DEF TypeOK
    <3> QED  BY <1>6, <3>1, <3>2, <3>3
  <2> QED  BY <1>2, <1>3, <1>4, <2>1, <2>2, <2>3, OutsideStep
<1> QED  BY <1>5, <1>6 DEF Request

LEMMA RemoteStep ==
  ASSUME IInv, TypeOK', NEW v \in Events, RemoteWrite(v) \/ RemoteRemove(v)
  PROVE  IInv'
<1>1. TypeOK  BY DEF IInv
<1>2. /\ UNCHANGED <<local, state, sync, req, late>> /\ clock' = clock + 1 /\ rev' = rev + 1
      /\ \E body : remote' = [remote EXCEPT ![v] = [body |-> body, rev |-> rev + 1]]
  BY DEF RemoteWrite, RemoteRemove, table
<1>3. ASSUME NEW u \in Events
      PROVE  /\ remote[u].rev <= remote'[u].rev /\ remote'[u].rev <= rev'
             /\ remote'[u].rev = remote[u].rev => remote'[u] = remote[u]
  <2>1. remote[u].rev \in Nat /\ rev \in Nat /\ remote[u].rev <= rev  BY <1>1, Typed DEF IInv, Bounded
  <2>2. CASE u = v
    <3>1. remote'[u].rev = rev + 1  BY <1>1, <1>2, <2>2 DEF TypeOK
    <3> QED  BY <1>2, <2>1, <3>1
  <2>3. CASE u # v
    <3>1. remote'[u] = remote[u]  BY <1>1, <1>2, <2>3 DEF TypeOK
    <3> QED  BY <1>2, <2>1, <3>1
  <2> QED  BY <2>2, <2>3
<1>4. Forward  BY <1>1, <1>2, <1>3 DEF Forward, TypeOK
<1>5. Stamped'  BY <1>2 DEF IInv, Stamped, Active, At
<1> QED  BY <1>2, <1>3, <1>4, <1>5, OutsideStep

-----------------------------------------------------------------------------
LEMMA TypeNext == ASSUME IInv, [Next]_vars PROVE TypeOK'
<1>1. TypeOK  BY DEF IInv
<1>2. ASSUME NEW s \in Syncs, Sync(s) \/ Fail(s) PROVE TypeOK'
  <2>1. CASE PullEvent(s)
    <3>1. PICK u \in Events : sync[s].objs[u] # None /\ Adopt(s, u, "pulled")
      BY <2>1 DEF PullEvent, Left
    <3> QED  BY <1>1, <3>1, TypeAdopt
  <2>2. CASE AdoptEvent(s)
    <3>1. At(s, "adopt") /\ s \in Active /\ Adopt(s, sync[s].event, "adopted")
      BY <2>2 DEF AdoptEvent, Active, At
    <3>2. sync[s].event \in Events /\ sync[s].objs[sync[s].event] # None
      BY <3>1 DEF IInv, SyncSound, Stages, At
    <3> QED  BY <1>1, <3>1, <3>2, TypeAdopt
  <2>3. CASE Fail(s)
    <3>1. Stages(s)  BY <2>3 DEF IInv, SyncSound, Fail, Active
    <3> QED  BY <1>1, <2>3, <3>1, TypeFail
  <2> QED
    BY <1>1, <1>2, <2>1, <2>2, <2>3, TypeBegin, TypeList, TypeFetch, TypeAbsent, TypeDrop,
       TypeLoad, TypePushClean, TypePut, TypePutConflict, TypeResolve, TypeListDeletions,
       TypeDeleteRemote, TypeDeleteConflict, TypeUntomb, TypeEnd, TypeSaveState, TypeRefuseState
    DEF Sync, Pull, Push, PushDeletions
<1>3. ASSUME UNCHANGED vars PROVE TypeOK'
  BY <1>1, <1>3 DEF TypeOK, vars, table, server, world
<1> QED  BY <1>1, <1>2, <1>3, TypeRequest, TypeRemote DEF Next

LEMMA InitIInv == Init => IInv
<1> SUFFICES ASSUME Init PROVE IInv  OBVIOUS
<1>1. TypeOK
  <2>1. Idle \in Context  BY DEF Idle, Nothing, Context, SyncPcs
  <2>2. [Settled EXCEPT !.pc = "idle"] \in Change  BY DEF Settled, Change
  <2> QED  BY <2>1, <2>2 DEF Init, TypeOK, Nothing
<1>2. Active = {}  BY DEF Init, Active, At, Idle
<1>3. CleanIsSynced /\ Bounded  BY DEF Init, CleanIsSynced, Bounded, Nothing
<1>4. Stamped  BY DEF Init, Stamped, Settled
<1> QED  BY <1>1, <1>2, <1>3, <1>4 DEF IInv, OneAtATime

LEMMA NextIInv == IInv /\ [Next]_vars => IInv'
<1> SUFFICES ASSUME IInv, [Next]_vars PROVE IInv'  OBVIOUS
<1>1. TypeOK'  BY TypeNext
<1>2. ASSUME NEW s \in Syncs, Sync(s) \/ Fail(s) PROVE IInv'
  BY <1>1, <1>2, BeginStep, QuietList, QuietFetch, PullEventStep, QuietAbsent, DropStep, QuietLoad,
     QuietPushClean, PutStep, QuietPutConflict, QuietListDeletions, DeleteRemoteStep,
     QuietDeleteConflict, QuietUntomb, QuietIdle, QuietResolve, AdoptEventStep, SaveStateStep
  DEF Sync, Pull, Push, PushDeletions
<1>3. ASSUME UNCHANGED vars PROVE IInv'
  <2>1. UNCHANGED <<local, state, remote, rev, clock, sync, req, late>>
    BY <1>3 DEF vars, table, server, world
  <2> QED  BY <1>1, <2>1 DEF IInv, CleanIsSynced, Bounded, OneAtATime, Stamped, Active, At,
                             SyncSound, Stages, FetchedSound, LoadedSound, HandSound
<1> QED  BY <1>1, <1>2, <1>3, RequestStep, RemoteStep DEF Next

(* What a sync holds in memory, and the stamps it compares, stay sound at  *)
(* every await (syncCalendar beside the event requests and other clients). *)
THEOREM CaldavInvariant == Spec => []IInv
<1> QED  BY InitIInv, NextIInv, PTL DEF Spec

(* An event isDirty takes for clean has the content its etag names.        *)
THEOREM CleanEventsAreSynced == Spec => []CleanIsSynced
<1>1. IInv => CleanIsSynced  BY DEF IInv
<1> QED  BY <1>1, CaldavInvariant, PTL
=============================================================================
