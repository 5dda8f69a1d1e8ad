-------------------------- MODULE PackagingProofs --------------------------
(* Theorems of Packaging: what the checks of the disk space policy promise  *)
(* each other, for every size, number of files and amount of free space;    *)
(* and what packaging leaves on the disk when it succeeds, and when it      *)
(* fails or is cancelled, for any number of files: the ZIPs, and the        *)
(* safety reserve of the volume, by an account of what every step charges.  *)
EXTENDS Packaging, FiniteSetTheorems, TLAPS

-----------------------------------------------------------------------------
(* The disk space policy *)

LEMMA ReserveType ==
  ASSUME NEW selected \in Nat
  PROVE  /\ ComputeSafetyReserve(selected) \in Nat
         /\ ComputeSafetyReserve(selected) >= ReserveFloor
  BY PolicyAssumption DEF ComputeSafetyReserve, Larger, Share

LEMMA EstimateType ==
  ASSUME NEW selected \in Nat, NEW count \in Nat
  PROVE  /\ EstimateZipBytes(selected, count) \in Nat
         /\ EstimateZipBytes(selected, count) >= selected
<1>1. count * ZipPerFile \in Nat
  BY PolicyAssumption
<1> QED
  BY <1>1, PolicyAssumption DEF EstimateZipBytes

LEMMA BlockedIsNegative ==
  ASSUME NEW headroom \in Int, NEW required \in Nat
  PROVE  ClassifyStatus(headroom, required) # "blocked" <=> headroom >= 0
  BY DEF ClassifyStatus

LEMMA KnownPreflight ==
  ASSUME NEW room \in Nat, NEW selected \in Nat, NEW count \in Nat, NEW zip \in BOOLEAN,
         PreflightOk(room, selected, count, zip)
  PROVE  EvaluatePreflight(room, selected, count, zip) # "blocked"
  BY DEF PreflightOk, Unknown

\* A download that the preflight let start finds room for its ZIP when nothing
\* else has taken space meanwhile: evaluatePackagingStart asks for no more than
\* what evaluatePreflight set aside (spacePolicy.ts:80 and :130).
THEOREM PreflightCoversPackaging ==
  ASSUME NEW room \in Nat, NEW selected \in Nat, NEW count \in Nat \ {0},
         PreflightOk(room, selected, count, TRUE)
  PROVE  PackagingAllowed(room - selected, selected, count)
<1> DEFINE zip == EstimateZipBytes(selected, count)
           reserve == ComputeSafetyReserve(selected)
           required == RequiredPeakBytes(selected, count, TRUE)
<1>1. zip \in Nat /\ reserve \in Nat
  BY ReserveType, EstimateType
<1>2. required = selected + zip + reserve
  BY DEF RequiredPeakBytes, ZipBytes
<1>3. RequiredAdditionalBytes(selected, count) = zip + reserve
  BY DEF RequiredAdditionalBytes
<1>4. ClassifyStatus(room - required, required) # "blocked"
  BY KnownPreflight DEF EvaluatePreflight
<1> HIDE DEF zip, reserve, required
<1>5. room - (selected + zip + reserve) >= 0
  BY <1>1, <1>2, <1>4, BlockedIsNegative
<1> QED
  BY <1>1, <1>3, <1>5 DEF PackagingAllowed

\* While the download goes on, the live headroom of a job that its preflight let
\* start never turns critical by the job's own bytes (computeLiveHeadroom counts
\* down what is on the disk by now), so #runDownload does not stop it for them.
THEOREM LiveHeadroomKeepsPreflight ==
  ASSUME NEW room \in Nat, NEW selected \in Nat, NEW count \in Nat \ {0},
         NEW downloaded \in 0..selected, NEW zip \in BOOLEAN,
         PreflightOk(room, selected, count, zip)
  PROVE  LiveWarning(room - downloaded, selected, downloaded, count, zip) \in {"none", "low"}
<1> DEFINE bytes == ZipBytes(selected, count, zip)
           reserve == ComputeSafetyReserve(selected)
<1>1. bytes \in Nat /\ reserve \in Nat
  BY ReserveType, EstimateType DEF ZipBytes
<1>2. /\ RequiredPeakBytes(selected, count, zip) = selected + bytes + reserve
      /\ RequiredFutureBytes(selected, downloaded, count, zip)
           = (selected - downloaded) + bytes + reserve
  BY DEF RequiredPeakBytes, RequiredFutureBytes
<1> HIDE DEF bytes, reserve
<1>3. room - (selected + bytes + reserve) >= 0
  <2>1. ClassifyStatus(room - (selected + bytes + reserve), selected + bytes + reserve) # "blocked"
    BY <1>2, KnownPreflight DEF EvaluatePreflight
  <2> QED
    BY <1>1, <2>1, BlockedIsNegative
<1>4. (selected - downloaded) + bytes + reserve \in Nat
  BY <1>1
<1>5. (room - downloaded) - ((selected - downloaded) + bytes + reserve) >= 0
  BY <1>1, <1>3
<1> QED
  <2>1. ComputeLiveHeadroom(room - downloaded, selected, downloaded, count, zip) # "blocked"
    BY <1>1, <1>2, <1>4, <1>5, BlockedIsNegative DEF ComputeLiveHeadroom
  <2>2. ComputeLiveHeadroom(room - downloaded, selected, downloaded, count, zip) \in {"ok", "warning"}
    BY <2>1 DEF ComputeLiveHeadroom, ClassifyStatus
  <2>3. room - downloaded # Unknown
    BY <1>1, <1>3 DEF Unknown
  <2> QED
    BY <2>2, <2>3, Zenon DEF LiveWarning

\* A ZIP that was allowed, and is no larger than its estimate, leaves the safety
\* reserve of the volume free; and the reserve is never below its floor.
THEOREM ReserveSurvivesPackaging ==
  ASSUME NEW room \in Nat, NEW selected \in Nat, NEW count \in Nat \ {0},
         NEW written \in Nat,
         PackagingAllowed(room, selected, count),
         written <= EstimateZipBytes(selected, count)
  PROVE  /\ room - written >= ComputeSafetyReserve(selected)
         /\ room - written >= ReserveFloor
<1> DEFINE zip == EstimateZipBytes(selected, count)
           reserve == ComputeSafetyReserve(selected)
<1>1. zip \in Nat /\ reserve \in Nat /\ reserve >= ReserveFloor
  BY ReserveType, EstimateType
<1>2. room - (zip + reserve) >= 0
  BY DEF PackagingAllowed, RequiredAdditionalBytes
<1>3. written <= zip
  OBVIOUS
<1> HIDE DEF zip, reserve
<1>4. room - written >= reserve /\ room - written >= ReserveFloor
  BY <1>1, <1>2, <1>3, PolicyAssumption
<1> QED
  BY <1>4 DEF reserve

\* The deficit a blocked packaging reports is exact: the retry of the storage
\* check passes once that much is freed, and no sooner.
THEOREM DeficitIsExact ==
  ASSUME NEW room \in Nat, NEW selected \in Nat, NEW count \in Nat \ {0}, NEW freed \in Nat,
         ~PackagingAllowed(room, selected, count)
  PROVE  PackagingAllowed(room + freed, selected, count)
           <=> freed >= DeficitBytes(room, RequiredAdditionalBytes(selected, count))
<1> DEFINE required == RequiredAdditionalBytes(selected, count)
<1>1. required \in Nat
  <2>1. required = EstimateZipBytes(selected, count) + ComputeSafetyReserve(selected)
    BY DEF RequiredAdditionalBytes
  <2>2. EstimateZipBytes(selected, count) \in Nat /\ ComputeSafetyReserve(selected) \in Nat
    BY ReserveType, EstimateType
  <2> QED
    BY <2>1, <2>2
<1>2. ~(room - required >= 0)
  BY DEF PackagingAllowed
<1>3. PackagingAllowed(room + freed, selected, count) <=> (room + freed) - required >= 0
  BY DEF PackagingAllowed
<1>4. DeficitBytes(room, required) = IF 0 >= required - room THEN 0 ELSE required - room
  BY DEF DeficitBytes, Larger
<1> HIDE DEF required
<1>5. freed >= DeficitBytes(room, required) <=> (room + freed) - required >= 0
  BY <1>1, <1>2, <1>4
<1> QED
  BY <1>3, <1>5 DEF required

-----------------------------------------------------------------------------
(* Sums over files *)

\* Induction, without a predicate as a parameter: a set of finite sets has a least one.
LEMMA LeastSubset ==
  ASSUME NEW S, IsFiniteSet(S), NEW T \in SUBSET (SUBSET S), T # {}
  PROVE  \E U \in T : \A V \in T : V \subseteq U => V = U
<1>1. T \subseteq FiniteSubsetsOf(S)
  BY FS_FiniteSubsetsOfFinite
<1>2. PICK U \in T : \A V \in T : ~ (<<V, U>> \in StrictSubsetOrdering(S))
  BY <1>1, WFMin, FS_StrictSubsetOrderingWellFounded, Zenon
<1>3. \A V \in T : V \subseteq U => V = U
  BY <1>2 DEF StrictSubsetOrdering
<1> QED BY <1>3

First(s) == CHOOSE x \in s : TRUE

\* What MapThenFoldSet makes of a function on the subsets of U, and its fixed point.
Adds(w, U, g) == [s \in SUBSET U |-> IF s = {} THEN 0 ELSE w[First(s)] + g[s \ {First(s)}]]

Sums(w, U) == CHOOSE g : g = Adds(w, U, g)

LEMMA FirstIn ==
  ASSUME NEW s, s # {}
  PROVE  First(s) \in s
BY DEF First

LEMMA TotalIs ==
  ASSUME NEW w, NEW U
  PROVE  Total(w, U) = Sums(w, U)[U]
BY DEF Total, MapThenSumSet, MapThenFoldSet, Sums, Adds, First

\* Two fixed points agree where both are defined.
LEMMA Agree ==
  ASSUME NEW w, NEW U, IsFiniteSet(U), NEW V \in SUBSET U,
         NEW g, g = Adds(w, U, g), NEW h, h = Adds(w, V, h), NEW X \in SUBSET V
  PROVE  g[X] = h[X]
<1> DEFINE T == {s \in SUBSET V : g[s] # h[s]}
<1>1. SUFFICES T = {}
  OBVIOUS
<1>2. SUFFICES ASSUME T # {} PROVE FALSE
  OBVIOUS
<1>3. IsFiniteSet(V) /\ T \in SUBSET (SUBSET V)
  BY FS_Subset
<1>4. PICK s \in T : \A r \in T : r \subseteq s => r = s
  <2> HIDE DEF T
  <2> QED BY <1>2, <1>3, LeastSubset
<1>5. s \in SUBSET V /\ s \in SUBSET U /\ g[s] # h[s]
  OBVIOUS
<1>6. /\ g[s] = IF s = {} THEN 0 ELSE w[First(s)] + g[s \ {First(s)}]
      /\ h[s] = IF s = {} THEN 0 ELSE w[First(s)] + h[s \ {First(s)}]
  <2>1. g[s] = Adds(w, U, g)[s] /\ h[s] = Adds(w, V, h)[s]
    OBVIOUS
  <2> QED BY <1>5, <2>1 DEF Adds
<1>7. s # {}
  BY <1>5, <1>6
<1>8. s \ {First(s)} \in SUBSET V /\ s \ {First(s)} # s
  BY <1>5, <1>7, FirstIn
<1>9. g[s \ {First(s)}] = h[s \ {First(s)}]
  BY <1>4, <1>8
<1> QED BY <1>5, <1>6, <1>9

LEMMA Fixed ==
  ASSUME NEW w, NEW S, IsFiniteSet(S)
  PROVE  \A U \in SUBSET S : Sums(w, U) = Adds(w, U, Sums(w, U))
<1> DEFINE T == {U \in SUBSET S : Sums(w, U) # Adds(w, U, Sums(w, U))}
<1>1. SUFFICES ASSUME T # {} PROVE FALSE
  OBVIOUS
<1>2. PICK U \in T : \A V \in T : V \subseteq U => V = U
  <2>1. T \in SUBSET (SUBSET S)
    OBVIOUS
  <2> HIDE DEF T
  <2> QED BY <1>1, <2>1, LeastSubset
<1>3. /\ U \in SUBSET S /\ Sums(w, U) # Adds(w, U, Sums(w, U))
      /\ \A V \in SUBSET U : V # U => Sums(w, V) = Adds(w, V, Sums(w, V))
  BY <1>2
<1> HIDE DEF T
<1> DEFINE G == [s \in SUBSET U |-> IF s = {} THEN 0
                                    ELSE w[First(s)] + Sums(w, s \ {First(s)})[s \ {First(s)}]]
<1>4. ASSUME NEW V \in SUBSET U, V # U
      PROVE  G[V] = Sums(w, V)[V]
  <2>1. Sums(w, V) = Adds(w, V, Sums(w, V))
    BY <1>3, <1>4
  <2>2. Sums(w, V)[V] = IF V = {} THEN 0 ELSE w[First(V)] + Sums(w, V)[V \ {First(V)}]
    <3>1. Sums(w, V)[V] = Adds(w, V, Sums(w, V))[V]
      BY <2>1
    <3> QED BY <3>1 DEF Adds
  <2>3. ASSUME V # {}
        PROVE  Sums(w, V)[V \ {First(V)}] = Sums(w, V \ {First(V)})[V \ {First(V)}]
    <3> DEFINE X == V \ {First(V)}
    <3>1. X \in SUBSET V /\ X \in SUBSET U /\ X # U
      BY <2>3, FirstIn
    <3>2. Sums(w, X) = Adds(w, X, Sums(w, X)) /\ IsFiniteSet(V)
      BY <1>3, <3>1, FS_Subset
    <3> HIDE DEF X
    <3>3. Sums(w, V)[X] = Sums(w, X)[X]
      <4>1. PICK g : g = Sums(w, V)
        OBVIOUS
      <4>2. PICK h : h = Sums(w, X)
        OBVIOUS
      <4>3. g = Adds(w, V, g) /\ h = Adds(w, X, h)
        BY <2>1, <3>2, <4>1, <4>2
      <4>4. g[X] = h[X]
        BY <3>1, <3>2, <4>3, Agree
      <4> QED BY <4>1, <4>2, <4>4
    <3> QED BY <3>3 DEF X
  <2> QED BY <2>2, <2>3
<1>5. G = Adds(w, U, G)
  <2>1. ASSUME NEW s \in SUBSET U, s # {}
        PROVE  G[s \ {First(s)}] = Sums(w, s \ {First(s)})[s \ {First(s)}]
    <3>1. s \ {First(s)} \in SUBSET U /\ s \ {First(s)} # U
      BY <2>1, FirstIn
    <3> HIDE DEF G
    <3> QED BY <3>1, <1>4
  <2>2. ASSUME NEW s \in SUBSET U
        PROVE  G[s] = IF s = {} THEN 0 ELSE w[First(s)] + G[s \ {First(s)}]
    <3>1. G[s] = IF s = {} THEN 0 ELSE w[First(s)] + Sums(w, s \ {First(s)})[s \ {First(s)}]
      OBVIOUS
    <3> HIDE DEF G
    <3> QED BY <3>1, <2>1
  <2>3. DOMAIN G = SUBSET U /\ G = [s \in SUBSET U |-> G[s]]
    OBVIOUS
  <2> HIDE DEF G
  <2> QED BY <2>2, <2>3 DEF Adds
<1> HIDE DEF G
<1>6. Sums(w, U) = Adds(w, U, Sums(w, U))
  BY <1>5 DEF Sums
<1> QED BY <1>3, <1>6

\* A total, file by file.
LEMMA TotalFirst ==
  ASSUME NEW w, NEW U, IsFiniteSet(U)
  PROVE  Total(w, U) = IF U = {} THEN 0 ELSE w[First(U)] + Total(w, U \ {First(U)})
<1>1. \A V \in SUBSET U : Sums(w, V) = Adds(w, V, Sums(w, V))
  BY Fixed
<1>2. Sums(w, U)[U] = IF U = {} THEN 0 ELSE w[First(U)] + Sums(w, U)[U \ {First(U)}]
  <2>1. Sums(w, U)[U] = Adds(w, U, Sums(w, U))[U]
    BY <1>1
  <2> QED BY <2>1 DEF Adds
<1>3. Sums(w, U)[U \ {First(U)}] = Sums(w, U \ {First(U)})[U \ {First(U)}]
  <2>1. PICK X \in SUBSET U : X = U \ {First(U)}
    OBVIOUS
  <2>2. PICK g : g = Sums(w, U)
    OBVIOUS
  <2>3. PICK h : h = Sums(w, X)
    OBVIOUS
  <2>4. g = Adds(w, U, g) /\ h = Adds(w, X, h)
    BY <1>1, <2>2, <2>3
  <2>5. g[X] = h[X]
    BY <2>4, Agree
  <2> QED BY <2>1, <2>2, <2>3, <2>5
<1> QED BY <1>2, <1>3, TotalIs

LEMMA TotalNat ==
  ASSUME NEW w \in [Files -> Nat], NEW U \in SUBSET Files
  PROVE  Total(w, U) \in Nat
<1> DEFINE T == {V \in SUBSET Files : Total(w, V) \notin Nat}
<1>1. SUFFICES ASSUME T # {} PROVE FALSE
  OBVIOUS
<1>2. PICK V \in T : \A X \in T : X \subseteq V => X = V
  <2>1. T \in SUBSET (SUBSET Files)
    OBVIOUS
  <2> HIDE DEF T
  <2> QED BY <1>1, <2>1, LeastSubset, PackagingAssumption
<1>3. V \in SUBSET Files /\ Total(w, V) \notin Nat /\ IsFiniteSet(V)
  BY <1>2, FS_Subset, PackagingAssumption
<1>4. V # {} /\ Total(w, V) = w[First(V)] + Total(w, V \ {First(V)})
  BY <1>3, TotalFirst
<1>5. First(V) \in V
  BY <1>4, FirstIn
<1>6. Total(w, V \ {First(V)}) \in Nat
  BY <1>2, <1>3, <1>5
<1> QED BY <1>3, <1>4, <1>5, <1>6

LEMMA TotalSplit ==
  ASSUME NEW w \in [Files -> Nat], NEW U \in SUBSET Files, NEW f \in U
  PROVE  Total(w, U) = w[f] + Total(w, U \ {f})
<1> DEFINE T == {V \in SUBSET Files : \E g \in V : Total(w, V) # w[g] + Total(w, V \ {g})}
<1>1. SUFFICES ASSUME T # {} PROVE FALSE
  OBVIOUS
<1>2. PICK V \in T : \A X \in T : X \subseteq V => X = V
  <2>1. T \in SUBSET (SUBSET Files)
    OBVIOUS
  <2> HIDE DEF T
  <2> QED BY <1>1, <2>1, LeastSubset, PackagingAssumption
<1>3. PICK g \in V : Total(w, V) # w[g] + Total(w, V \ {g})
  BY <1>2
<1>4. /\ V \in SUBSET Files /\ IsFiniteSet(V)
      /\ \A X \in SUBSET V : X # V => \A y \in X : Total(w, X) = w[y] + Total(w, X \ {y})
  BY <1>2, FS_Subset, PackagingAssumption
<1> HIDE DEF T
<1> PICK x : x = First(V)
  OBVIOUS
<1>5. x \in V /\ Total(w, V) = w[x] + Total(w, V \ {x})
  BY <1>3, <1>4, FirstIn, TotalFirst
<1>6. x # g
  BY <1>3, <1>5
<1>7. Total(w, V \ {x}) = w[g] + Total(w, (V \ {x}) \ {g})
  BY <1>4, <1>5, <1>6
<1>8. Total(w, V \ {g}) = w[x] + Total(w, (V \ {g}) \ {x})
  BY <1>4, <1>5, <1>6
<1>9. (V \ {x}) \ {g} = (V \ {g}) \ {x}
  OBVIOUS
<1>10. w[x] \in Nat /\ w[g] \in Nat /\ Total(w, (V \ {x}) \ {g}) \in Nat
  BY <1>4, <1>5, TotalNat
<1> QED BY <1>3, <1>5, <1>7, <1>8, <1>9, <1>10

LEMMA EntryType == Entry \in [Files -> Nat]
<1>1. \A f \in Files : Size[f] + ZipPerFile \in Nat
  BY PackagingAssumption, PolicyAssumption
<1> QED BY <1>1 DEF Entry

\* What the policy estimates without the fixed part is what the entries take.
LEMMA EntriesEstimated ==
  Total(Entry, Files) = Selected + Cardinality(Files) * ZipPerFile
<1> DEFINE T == {V \in SUBSET Files :
                   Total(Entry, V) # Total(Size, V) + Cardinality(V) * ZipPerFile}
<1>1. SUFFICES T = {}
  BY DEF Selected
<1>2. SUFFICES ASSUME T # {} PROVE FALSE
  OBVIOUS
<1>3. PICK V \in T : \A X \in T : X \subseteq V => X = V
  <2>1. T \in SUBSET (SUBSET Files)
    OBVIOUS
  <2> HIDE DEF T
  <2> QED BY <1>2, <2>1, LeastSubset, PackagingAssumption
<1>4. /\ V \in SUBSET Files /\ IsFiniteSet(V)
      /\ Total(Entry, V) # Total(Size, V) + Cardinality(V) * ZipPerFile
      /\ \A X \in SUBSET V : X # V =>
           Total(Entry, X) = Total(Size, X) + Cardinality(X) * ZipPerFile
  BY <1>3, FS_Subset, PackagingAssumption
<1> HIDE DEF T
<1>5. V # {}
  <2>1. Total(Entry, {}) = 0 /\ Total(Size, {}) = 0 /\ Cardinality({}) = 0
    BY TotalFirst, FS_EmptySet
  <2>2. 0 = 0 + 0 * ZipPerFile
    BY PolicyAssumption
  <2> QED BY <1>4, <2>1, <2>2
<1> PICK x \in V : TRUE
  BY <1>5
<1> PICK X : X = V \ {x}
  OBVIOUS
<1>6. X \in SUBSET V /\ X # V
  OBVIOUS
<1>7. /\ Total(Entry, V) = Entry[x] + Total(Entry, X)
      /\ Total(Size, V) = Size[x] + Total(Size, X)
  BY <1>4, <1>6, TotalSplit, EntryType, PackagingAssumption
<1>8. Total(Entry, X) = Total(Size, X) + Cardinality(X) * ZipPerFile
  BY <1>4, <1>6
<1>9. Cardinality(V) = Cardinality(X) + 1 /\ Cardinality(X) \in Nat
  <2>1. Cardinality(X) = Cardinality(V) - 1 /\ Cardinality(V) \in Nat
    BY <1>4, FS_RemoveElement, FS_CardinalityType
  <2>2. IsFiniteSet(X) /\ Cardinality(X) \in Nat
    BY <1>4, <1>6, FS_Subset, FS_CardinalityType
  <2> QED BY <2>1, <2>2
<1>10. /\ (Cardinality(X) + 1) * ZipPerFile = Cardinality(X) * ZipPerFile + ZipPerFile
       /\ Cardinality(X) * ZipPerFile \in Nat
  BY <1>9, PolicyAssumption
<1>11. Entry[x] = Size[x] + ZipPerFile /\ Size[x] \in Nat /\ ZipPerFile \in Nat
  BY <1>4, PackagingAssumption, PolicyAssumption DEF Entry
<1>12. Total(Size, X) \in Nat
  BY <1>4, <1>6, TotalNat, PackagingAssumption
<1> QED BY <1>4, <1>7, <1>8, <1>9, <1>10, <1>11, <1>12

-----------------------------------------------------------------------------
(* Nothing survives a failure *)

\* Outside of the writer's steps a partial file is one that escaped or got stuck.
PartialInv ==
  partial.there => escaped \/ stuck \/ pc \in {"write", "wrote", "publish", "clean"}

\* The final ZIP of a packaging that ended badly has another name, or got stuck.
FinalInv == pc \in {"failed", "cancelled"} => (final.there => renamed \/ stuck)

RemainsInv == PartialInv /\ FinalInv

LEMMA RemainsInit == Init => RemainsInv
BY DEF Init, RemainsInv, PartialInv, FinalInv, Absent

\* A step that makes no file keeps the invariant where it leads.
LEMMA MakesNone ==
  ASSUME RemainsInv, partial' = partial, final' = final, escaped => escaped', stuck => stuck',
         renamed' = renamed,
         pc' = pc \/ pc' \in {"write", "clean"}
           \/ (pc' = "wrote" /\ pc = "write") \/ (pc' = "publish" /\ pc = "wrote")
           \/ (/\ pc' \notin {"failed", "cancelled"}
               /\ pc \notin {"write", "wrote", "publish", "clean"} \/ escaped')
  PROVE  RemainsInv'
BY DEF RemainsInv, PartialInv, FinalInv

LEMMA RemainsStep == RemainsInv /\ [Next]_vars => RemainsInv'
<1> SUFFICES ASSUME RemainsInv, [Next]_vars PROVE RemainsInv'
  OBVIOUS
<1> USE DEF NoFault, Fault
<1>1. CASE Gate
  BY <1>1, MakesNone DEF Gate, BeginZip, disk_vars
<1>2. CASE RetryStorageCheck \/ RetryPackaging \/ Cancel
  BY <1>2, MakesNone DEF RetryStorageCheck, RetryPackaging, Cancel, BeginZip, disk_vars, ghosts
<1>3. CASE EndZip
  <2>1. /\ pc \in {"returned", "thrown"} /\ pc' = Ended /\ partial' = partial
        /\ escaped' = escaped /\ renamed' = renamed /\ (stuck => stuck')
    BY <1>3 DEF EndZip
  <2>2. PartialInv' BY <2>1 DEF RemainsInv, PartialInv
  <2>3. pc' = "packed" \/ final' = Removed \/ stuck' BY <1>3 DEF EndZip
  <2>4. FinalInv' BY <2>1, <2>3 DEF RemainsInv, FinalInv, Removed, Absent
  <2> QED BY <2>2, <2>4 DEF RemainsInv
<1>4. CASE \E f \in Files : Validate(f)
  <2>1. pc = "validate" /\ pc' \in {"validate", "thrown", "probe"}
    BY <1>4 DEF Validate
  <2> QED BY <1>4, <2>1, MakesNone DEF Validate, disk_vars, ghosts
<1>5. CASE Probe
  BY <1>5, MakesNone DEF Probe, disk_vars
<1>6. CASE OutputOpens
  <2>1. pc' = pc /\ final' = final /\ stuck' = stuck /\ renamed' = renamed
    BY <1>6 DEF OutputOpens, job_vars
  <2>2. \/ partial' = partial /\ escaped' = escaped
        \/ escaped' = (escaped \/ pc \notin {"write", "clean"})
    BY <1>6 DEF OutputOpens
  <2> QED BY <2>1, <2>2 DEF RemainsInv, PartialInv, FinalInv
<1>7. CASE \E f \in Files : SourceOpens(f) \/ Damage(f)
  BY <1>7, MakesNone DEF SourceOpens, Damage, job_vars, disk_vars, ghosts
<1>8. CASE (\E f \in Files : Append(f)) \/ OutputCloses
  <2>1. pc = "write" /\ pc' = pc BY <1>8 DEF Append, OutputCloses, Writing, job_vars
  <2> QED BY <2>1 DEF RemainsInv, PartialInv, FinalInv
<1>9. CASE StreamFails \/ Elsewhere
  BY <1>9, MakesNone DEF StreamFails, Elsewhere, job_vars, disk_vars, ghosts
<1>10. CASE WriterEnds
  BY <1>10, MakesNone DEF WriterEnds, disk_vars, ghosts
<1>11. CASE LookAgain
  BY <1>11, MakesNone DEF LookAgain, disk_vars
<1>12. CASE Publish
  BY <1>12 DEF Publish, RemainsInv, PartialInv, FinalInv, Absent, ghosts
<1>13. CASE Clean
  BY <1>13 DEF Clean, RemainsInv, PartialInv, FinalInv, Absent
<1>14. CASE UNCHANGED vars
  BY <1>14, MakesNone DEF vars, job_vars, disk_vars, ghosts
<1> QED
  BY <1>1, <1>2, <1>3, <1>4, <1>5, <1>6, <1>7, <1>8, <1>9, <1>10, <1>11, <1>12, <1>13, <1>14 DEF Next, Packager

\* However an abort, failing streams, a full disk and the end of the output race, a failed or
\* cancelled packaging of any number of files leaves neither ZIP, but for the named gaps.
THEOREM NothingLeft == Spec => []NothingSurvives
<1>1. RemainsInv => NothingSurvives
  BY DEF RemainsInv, PartialInv, FinalInv, NothingSurvives
<1> QED BY <1>1, RemainsInit, RemainsStep, PTL DEF Spec

-----------------------------------------------------------------------------
(* A ZIP that is reported is whole *)

Zips == [there : BOOLEAN, ended : BOOLEAN, has : [Files -> {"none", "short", "whole"}]]

Shapes ==
  /\ partial \in Zips /\ checked \subseteq Files
  /\ src \in [Files -> {"whole", "short", "gone"}]
  /\ streams \in [Files -> {"none", "opening", "open", "done"}]

\* Once all are found whole, a source is whole unless it was cut after that.
CheckedInv ==
  /\ \A f \in checked : src[f] = "whole" \/ f \in cut
  /\ pc \in {"probe", "write", "wrote", "publish"} => checked = Files

\* While the output is open, the file has what the finished streams put there.
Filling ==
  /\ partial.there
  /\ \A f \in Files : /\ partial.has[f] \in {"none", "whole"} \/ f \in cut
                      /\ streams[f] = "done" => partial.has[f] # "none"

WriteInv ==
  pc = "write" =>
    /\ out = "open" \/ settled = "ok" => Filling
    /\ out = "opening" => \A f \in Files : streams[f] # "done"
    /\ settled = "ok" => out = "closed" /\ \A f \in Files : streams[f] = "done"

Whole(zip) == zip.there /\ \A f \in Files : zip.has[f] = "whole" \/ f \in cut

ZipInv ==
  /\ pc \in {"wrote", "publish"} => out = "closed" /\ Whole(partial)
  /\ pc \in {"returned", "packed"} => Whole(final)

WholeInv == Shapes /\ CheckedInv /\ WriteInv /\ ZipInv

LEMMA WholeInit == Init => WholeInv
BY DEF Init, WholeInv, Shapes, CheckedInv, WriteInv, ZipInv, Zips, Absent

\* A step of the pipeline that neither writes nor publishes, and loses no mark
\* of a file that stays checked.
LEMMA WholeStays ==
  ASSUME WholeInv, Shapes', src' = src, checked' = checked, cut' = cut,
         out' = out, streams' = streams, settled' = settled \/ pc' # "write" \/ settled' = "error",
         partial' = partial, final' = final,
         pc' = pc \/ pc' \notin {"probe", "write", "wrote", "publish", "returned", "packed"}
  PROVE  WholeInv'
BY DEF WholeInv, CheckedInv, WriteInv, ZipInv, Whole, Filling

LEMMA WholeStep == WholeInv /\ [Next]_vars => WholeInv'
<1> SUFFICES ASSUME WholeInv, [Next]_vars PROVE WholeInv'
  OBVIOUS
<1> USE DEF NoFault, Fault
<1>1. CASE Gate
  <2>1. Shapes' BY <1>1 DEF Gate, BeginZip, disk_vars, stream_vars, WholeInv, Shapes
  <2>2. CheckedInv' BY <1>1 DEF Gate, BeginZip, disk_vars, WholeInv, CheckedInv
  <2>3. WriteInv' /\ ZipInv' BY <1>1 DEF Gate, BeginZip, WriteInv, ZipInv
  <2> QED BY <2>1, <2>2, <2>3 DEF WholeInv
<1>2. CASE RetryStorageCheck
  BY <1>2, WholeStays DEF RetryStorageCheck, disk_vars, stream_vars, ghosts, WholeInv, Shapes
<1>3. CASE RetryPackaging
  BY <1>3 DEF RetryPackaging, BeginZip, disk_vars, stream_vars, WholeInv, Shapes, CheckedInv,
       WriteInv, ZipInv
<1>4. CASE Cancel
  <2>1. Shapes' /\ CheckedInv'
    BY <1>4 DEF Cancel, disk_vars, ghosts, WholeInv, Shapes, CheckedInv
  <2>2. WriteInv' BY <1>4 DEF Cancel, disk_vars, ghosts, WholeInv, WriteInv, Filling
  <2>3. ZipInv' BY <1>4 DEF Cancel, disk_vars, ghosts, WholeInv, ZipInv, Whole
  <2> QED BY <2>1, <2>2, <2>3 DEF WholeInv
<1>5. CASE EndZip
  <2>1. pc' = Ended /\ pc \in {"returned", "thrown"} BY <1>5 DEF EndZip
  <2>2. pc' \in {"cancelled", "failed"} \/ (pc' = "packed" /\ pc = "returned" /\ final' = final)
    BY <1>5, <2>1, Zenon DEF EndZip, Ended
  <2>3. UNCHANGED <<checked, src, streams, partial, cut>>
    BY <1>5 DEF EndZip, stream_vars
  <2>4. Shapes' /\ CheckedInv' BY <2>2, <2>3 DEF WholeInv, Shapes, CheckedInv
  <2>5. WriteInv' /\ ZipInv' BY <2>2, <2>3 DEF WholeInv, WriteInv, ZipInv, Whole
  <2> QED BY <2>4, <2>5 DEF WholeInv
<1>6. CASE \E f \in Files : Validate(f)
  <2>1. PICK f \in Files : Validate(f) BY <1>6
  <2>2. UNCHANGED <<src, streams, partial, cut, out>> BY <2>1 DEF Validate, disk_vars, stream_vars, ghosts
  <2>3. /\ checked' = checked \/ (checked' = checked \union {f} /\ src[f] = "whole")
        /\ pc' \in {"validate", "thrown"} \/ (pc' = "probe" /\ checked' = Files)
    <3>1. CASE src[f] = "whole"
      <4>1. checked' = checked \union {f} BY <2>1, <3>1 DEF Validate
      <4>2. pc' = CASE checked' # Files -> "validate"
                     [] checked' = Files /\ aborted -> "thrown"
                     [] OTHER -> "probe"
        BY <2>1, <3>1 DEF Validate
      <4> QED BY <3>1, <4>1, <4>2, Zenon
    <3>2. CASE src[f] # "whole" BY <2>1, <3>2 DEF Validate
    <3> QED BY <3>1, <3>2
  <2>4. Shapes' /\ CheckedInv' BY <2>2, <2>3 DEF WholeInv, Shapes, CheckedInv
  <2>5. WriteInv' /\ ZipInv' BY <2>3 DEF WriteInv, ZipInv
  <2> QED BY <2>4, <2>5 DEF WholeInv
<1>7. CASE Probe
  <2>1. pc = "probe" /\ UNCHANGED <<checked, src, partial, cut>> BY <1>7 DEF Probe, disk_vars
  <2>2. \/ /\ pc' = "write" /\ out' = "opening" /\ settled' = "no"
           /\ streams' = [f \in Files |-> "opening"]
        \/ pc' = "thrown" /\ streams' = streams
    BY <1>7 DEF Probe, stream_vars
  <2>3. Shapes' BY <2>1, <2>2 DEF WholeInv, Shapes
  <2>4. CheckedInv' BY <2>1, <2>2 DEF WholeInv, CheckedInv
  <2>5. WriteInv' BY <2>2 DEF WriteInv
  <2>6. ZipInv' BY <2>2 DEF ZipInv
  <2> QED BY <2>3, <2>4, <2>5, <2>6 DEF WholeInv
<1>8. CASE OutputOpens
  <2>1. /\ out = "opening" /\ UNCHANGED <<pc, checked, streams, src, final, cut>>
        /\ partial' = partial \/ partial' = Empty
        /\ out' = "closed" \/ (out' = "open" /\ partial' = Empty)
    BY <1>8 DEF OutputOpens, job_vars
  <2>2. settled' = settled \/ settled' = "error" BY <1>8 DEF OutputOpens, SettleWith
  <2>3. Empty \in Zips /\ Empty.there /\ \A f \in Files : Empty.has[f] = "none"
    BY DEF Empty, Absent, Zips
  <2>4. Shapes' /\ CheckedInv' BY <2>1, <2>3 DEF WholeInv, Shapes, CheckedInv
  <2>5. WriteInv' BY <2>1, <2>2, <2>3 DEF WholeInv, WriteInv, Filling
  <2>6. ZipInv' BY <2>1 DEF WholeInv, ZipInv, Whole
  <2> QED BY <2>4, <2>5, <2>6 DEF WholeInv
<1>9. CASE \E f \in Files : SourceOpens(f)
  <2>1. PICK f \in Files : SourceOpens(f) BY <1>9
  <2>2. /\ UNCHANGED <<pc, checked, out, src, partial, final, cut>> /\ pc = "write" /\ settled = "no"
        /\ settled' \in {"no", "error"}
    BY <2>1 DEF SourceOpens, SettleWith, Writing, job_vars, disk_vars, ghosts
  <2>3. streams' = streams \/ streams' = [streams EXCEPT ![f] = "open"]
    BY <2>1 DEF SourceOpens
  <2>4. Shapes' /\ CheckedInv' BY <2>2, <2>3 DEF WholeInv, Shapes, CheckedInv
  <2>5. \A g \in Files : streams'[g] = "done" => streams[g] = "done"
    BY <2>3 DEF WholeInv, Shapes
  <2>6. WriteInv' BY <2>2, <2>5 DEF WholeInv, WriteInv, Filling
  <2>7. ZipInv' BY <2>2 DEF ZipInv
  <2> QED BY <2>4, <2>6, <2>7 DEF WholeInv
<1>10. CASE \E f \in Files : Append(f)
  <2>1. PICK f \in Files : Append(f) BY <1>10
  <2>2. /\ UNCHANGED <<pc, checked, out, src, final, cut>> /\ pc = "write" /\ settled = "no"
        /\ out = "open" /\ settled' \in {"no", "error"}
    BY <2>1 DEF Append, SettleWith, Writing, job_vars, ghosts
  <2>3. CASE UNCHANGED <<partial, streams>>
    BY <2>2, <2>3 DEF WholeInv, Shapes, CheckedInv, WriteInv, Filling, ZipInv
  <2>4. CASE /\ partial' = [partial EXCEPT !.has[f] = IF src[f] = "short" THEN "short" ELSE "whole"]
             /\ streams' = [streams EXCEPT ![f] = "done"]
    <3>1. /\ partial' \in Zips /\ partial'.there = partial.there
          /\ partial'.has = [partial.has EXCEPT ![f] = IF src[f] = "short" THEN "short" ELSE "whole"]
      BY <2>4 DEF WholeInv, Shapes, Zips
    <3>2. partial.has \in [Files -> {"none", "short", "whole"}] BY DEF WholeInv, Shapes, Zips
    <3>3. src[f] = "short" => f \in cut BY <2>2 DEF WholeInv, CheckedInv
    <3>4. Shapes' /\ CheckedInv' BY <2>2, <2>4, <3>1 DEF WholeInv, Shapes, CheckedInv
    <3>5. Filling'
      <4>1. Filling BY <2>2 DEF WholeInv, WriteInv
      <4>2. streams \in [Files -> {"none", "opening", "open", "done"}] BY DEF WholeInv, Shapes
      <4> QED BY <2>2, <2>4, <3>1, <3>2, <3>3, <4>1, <4>2 DEF Filling
    <3>6. WriteInv' BY <2>2, <3>5 DEF WriteInv
    <3>7. ZipInv' BY <2>2 DEF ZipInv
    <3> QED BY <3>4, <3>6, <3>7 DEF WholeInv
  <2> QED BY <2>1, <2>3, <2>4 DEF Append
<1>11. CASE StreamFails
  BY <1>11 DEF StreamFails, SettleWith, Writing, job_vars, disk_vars, ghosts, WholeInv, Shapes,
       CheckedInv, WriteInv, Filling, ZipInv
<1>12. CASE OutputCloses
  <2>1. /\ UNCHANGED <<pc, checked, streams, src, final, cut>> /\ pc = "write"
        /\ out = "open" /\ \A f \in Files : streams[f] = "done"
        /\ \/ settled' = "ok" /\ out' = "closed" /\ partial' = [partial EXCEPT !.ended = TRUE]
           \/ settled' = "error" /\ out' = out /\ partial' = partial
    BY <1>12 DEF OutputCloses, SettleWith, Writing, job_vars, ghosts
  <2>2. partial' \in Zips /\ partial'.there = partial.there /\ partial'.has = partial.has
    BY <2>1 DEF WholeInv, Shapes, Zips
  <2>3. Shapes' /\ CheckedInv' BY <2>1, <2>2 DEF WholeInv, Shapes, CheckedInv
  <2>4. WriteInv' BY <2>1, <2>2 DEF WholeInv, WriteInv, Filling
  <2>5. ZipInv' BY <2>1 DEF ZipInv
  <2> QED BY <2>3, <2>4, <2>5 DEF WholeInv
<1>13. CASE WriterEnds
  <2>1. /\ UNCHANGED <<checked, streams, src, partial, final, cut>> /\ pc = "write"
        /\ (settled = "ok" /\ pc' = "wrote") \/ pc' = "clean"
        /\ out' = IF out = "open" THEN "closed" ELSE out
    BY <1>13 DEF WriterEnds, disk_vars, ghosts
  <2>2. Shapes' /\ CheckedInv' BY <2>1 DEF WholeInv, Shapes, CheckedInv
  <2>3. WriteInv' BY <2>1 DEF WriteInv
  <2>4. ASSUME pc' = "wrote" PROVE out' = "closed" /\ Whole(partial)'
    <3>1. Filling /\ out = "closed" /\ \A f \in Files : streams[f] = "done"
      BY <2>1, <2>4 DEF WholeInv, WriteInv
    <3> QED BY <2>1, <3>1 DEF Filling, Whole
  <2>5. ZipInv' BY <2>1, <2>4 DEF ZipInv
  <2> QED BY <2>2, <2>3, <2>5 DEF WholeInv
<1>14. CASE LookAgain
  BY <1>14 DEF LookAgain, stream_vars, disk_vars, WholeInv, Shapes, CheckedInv, WriteInv, ZipInv, Whole
<1>15. CASE Publish
  <2>1. Absent \in Zips BY DEF Absent, Zips
  <2>2. /\ UNCHANGED <<checked, streams, src, cut>> /\ pc = "publish"
        /\ \/ final' = partial /\ partial' = Absent /\ pc' = "returned"
           \/ pc' = "clean" /\ partial' = partial
    BY <1>15 DEF Publish, stream_vars, ghosts
  <2>3. Shapes' /\ CheckedInv' BY <2>1, <2>2 DEF WholeInv, Shapes, CheckedInv
  <2>4. WriteInv' BY <2>2 DEF WriteInv
  <2>5. ZipInv' BY <2>2 DEF WholeInv, ZipInv, Whole
  <2> QED BY <2>3, <2>4, <2>5 DEF WholeInv
<1>16. CASE Clean
  <2>1. Absent \in Zips BY DEF Absent, Zips
  <2>2. UNCHANGED <<checked, streams, src, cut>> /\ pc' = "thrown" /\ partial' \in {Absent, partial}
    BY <1>16 DEF Clean, stream_vars
  <2> QED BY <2>1, <2>2 DEF WholeInv, Shapes, CheckedInv, WriteInv, ZipInv
<1>17. CASE \E f \in Files : Damage(f)
  <2>1. PICK f \in Files : Damage(f) BY <1>17
  <2>2. UNCHANGED <<pc, checked, out, streams, settled, partial, final>>
    BY <2>1 DEF Damage, job_vars, stream_vars
  <2>3. PICK s \in {"short", "gone"} : src' = [src EXCEPT ![f] = s] BY <2>1 DEF Damage
  <2>4. cut' = IF f \in checked THEN cut \union {f} ELSE cut BY <2>1 DEF Damage
  <2>5. Shapes' BY <2>2, <2>3 DEF WholeInv, Shapes
  <2>6. CheckedInv' BY <2>2, <2>3, <2>4 DEF WholeInv, Shapes, CheckedInv
  <2>7. WriteInv' BY <2>2, <2>4 DEF WholeInv, WriteInv, Filling
  <2>8. ZipInv' BY <2>2, <2>4 DEF WholeInv, ZipInv, Whole
  <2> QED BY <2>5, <2>6, <2>7, <2>8 DEF WholeInv
<1>18. CASE Elsewhere
  BY <1>18, WholeStays DEF Elsewhere, job_vars, stream_vars, WholeInv, Shapes
<1>19. CASE UNCHANGED vars
  BY <1>19, WholeStays DEF vars, job_vars, stream_vars, disk_vars, ghosts, WholeInv, Shapes
<1> QED
  BY <1>1, <1>2, <1>3, <1>4, <1>5, <1>6, <1>7, <1>8, <1>9, <1>10, <1>11, <1>12, <1>13, <1>14,
     <1>15, <1>16, <1>17, <1>18, <1>19 DEF Next, Packager

\* A ZIP of any number of files that is reported holds each of them as it was validated, except
\* one that another program cut after that, and no partial file stays beside it but for the named gaps.
THEOREM ReportedWhole == Spec => []PackedWhole
<1>1. RemainsInv /\ WholeInv => PackedWhole
  BY DEF RemainsInv, PartialInv, WholeInv, ZipInv, Whole, PackedWhole
<1> QED BY <1>1, RemainsInit, RemainsStep, WholeInit, WholeStep, PTL DEF Spec

-----------------------------------------------------------------------------
(* The volume *)

LEMMA TakenType ==
  ASSUME NEW zip
  PROVE  Taken(zip) \in Nat
<1>1. PICK U \in SUBSET Files : U = {f \in Files : zip.has[f] # "none"}
  OBVIOUS
<1>2. Total(Entry, U) \in Nat
  BY TotalNat, EntryType
<1> QED BY <1>1, <1>2, PolicyAssumption DEF Taken

LEMMA TakenNothing == Taken(Absent) = 0 /\ Taken(Empty) = 0
<1>1. {f \in Files : Empty.has[f] # "none"} = {} /\ ~Absent.there /\ Empty.there /\ ~Empty.ended
  BY DEF Empty, Absent
<1>2. Total(Entry, {}) = 0
  BY TotalFirst, FS_EmptySet
<1> QED BY <1>1, <1>2 DEF Taken

\* An entry, and the directory at the end, add what they are charged.
LEMMA TakenEntry ==
  ASSUME NEW zip \in Zips, zip.there, NEW f \in Files, zip.has[f] = "none",
         NEW k \in {"short", "whole"}
  PROVE  Taken([zip EXCEPT !.has[f] = k]) = Taken(zip) + Entry[f]
<1> PICK U \in SUBSET Files : U = {g \in Files : zip.has[g] # "none"}
  OBVIOUS
<1> PICK z : z = [zip EXCEPT !.has[f] = k]
  OBVIOUS
<1>1. /\ z.there /\ z.ended = zip.ended
      /\ z.has = [zip.has EXCEPT ![f] = k] /\ zip.has \in [Files -> {"none", "short", "whole"}]
  BY DEF Zips
<1> PICK W \in SUBSET Files : W = {g \in Files : z.has[g] # "none"}
  OBVIOUS
<1>2. f \in W /\ W \ {f} = U
  BY <1>1
<1>3. Total(Entry, W) = Entry[f] + Total(Entry, U)
  BY <1>2, TotalSplit, EntryType
<1>4. Entry[f] \in Nat /\ Total(Entry, U) \in Nat
  BY TotalNat, EntryType
<1>5. Taken(zip) = Total(Entry, U) + (IF zip.ended THEN ZipFixed ELSE 0)
  BY DEF Taken
<1>6. Taken(z) = Total(Entry, W) + (IF zip.ended THEN ZipFixed ELSE 0)
  BY <1>1 DEF Taken
<1> QED BY <1>3, <1>4, <1>5, <1>6, PolicyAssumption

LEMMA TakenEnd ==
  ASSUME NEW zip \in Zips, zip.there, ~zip.ended
  PROVE  Taken([zip EXCEPT !.ended = TRUE]) = Taken(zip) + ZipFixed
<1> PICK U \in SUBSET Files : U = {g \in Files : zip.has[g] # "none"}
  OBVIOUS
<1> PICK z : z = [zip EXCEPT !.ended = TRUE]
  OBVIOUS
<1>1. z.there /\ z.ended /\ z.has = zip.has
  BY DEF Zips
<1>2. Total(Entry, U) \in Nat
  BY TotalNat, EntryType
<1>3. Taken(zip) = Total(Entry, U) + 0 /\ Taken(z) = Total(Entry, U) + ZipFixed
  BY <1>1 DEF Taken
<1> QED BY <1>2, <1>3, PolicyAssumption

\* The space of the volume is not used twice, and while the output is open it has
\* the entries of the finished streams and no more.
Conserved ==
  /\ final \in Zips /\ free \in Nat
  /\ free + Taken(partial) + Taken(final) <= Capacity

Filled ==
  pc = "write" /\ settled = "no" /\ out = "open" =>
    /\ partial.there /\ ~partial.ended
    /\ \A f \in Files : partial.has[f] # "none" => streams[f] = "done"

VolumeInv == Conserved /\ Filled

\* A step that leaves the disk alone, and reopens no stream.
LEMMA VolumeStays ==
  ASSUME VolumeInv, partial' = partial, final' = final, free' = free,
         \/ pc' # "write" \/ settled' # "no" \/ out' # "open"
         \/ /\ pc' = pc /\ settled' = settled /\ out' = out
            /\ \A f \in Files : streams[f] = "done" => streams'[f] = "done"
  PROVE  VolumeInv'
BY DEF VolumeInv, Conserved, Filled

LEMMA VolumeInit == Init => VolumeInv
<1> SUFFICES ASSUME Init PROVE VolumeInv
  OBVIOUS
<1>1. Absent \in Zips
  BY DEF Absent, Zips
<1>2. partial = Absent /\ final = Absent /\ free \in 0..Capacity /\ pc = "downloaded"
  BY DEF Init
<1> QED BY <1>1, <1>2, TakenNothing, PackagingAssumption DEF VolumeInv, Conserved, Filled

LEMMA VolumeStep == WholeInv /\ VolumeInv /\ [Next]_vars => VolumeInv'
<1> SUFFICES ASSUME WholeInv, VolumeInv, [Next]_vars PROVE VolumeInv'
  OBVIOUS
<1> USE DEF NoFault, Fault
<1>0. /\ final \in Zips /\ partial \in Zips /\ free \in Nat /\ Capacity \in Nat /\ ZipFixed \in Nat
      /\ free + Taken(partial) + Taken(final) <= Capacity
      /\ Taken(partial) \in Nat /\ Taken(final) \in Nat
      /\ Absent \in Zips /\ Taken(Absent) = 0 /\ Taken(Empty) = 0
  <2>1. Absent \in Zips
    BY DEF Absent, Zips
  <2> QED BY <2>1, TakenType, TakenNothing, PackagingAssumption, PolicyAssumption
             DEF WholeInv, Shapes, VolumeInv, Conserved
<1>1. CASE Gate \/ RetryStorageCheck \/ RetryPackaging
  <2>1. UNCHANGED <<partial, final, free>> /\ pc' # "write"
    BY <1>1 DEF Gate, RetryStorageCheck, RetryPackaging, BeginZip, disk_vars
  <2> QED BY <2>1, VolumeStays
<1>2. CASE Cancel \/ StreamFails
  <2>1. UNCHANGED <<partial, final, free, pc, out, streams>> /\ settled' \in {settled, "error"}
    BY <1>2 DEF Cancel, StreamFails, SettleWith, disk_vars, job_vars
  <2> QED BY <2>1, VolumeStays
<1>3. CASE EndZip
  <2>1. pc' = Ended /\ partial' = partial
    BY <1>3 DEF EndZip
  <2>2. Ended # "write"
    BY Zenon DEF Ended
  <2>3. \/ final' = final /\ free' = free
        \/ final' = Removed /\ free' = free + Taken(final) - Taken(Removed)
    BY <1>3 DEF EndZip
  <2>4. Removed \in {final, Absent}
    BY DEF Removed
  <2>5. Conserved'
    <3>1. CASE final' = final /\ free' = free
      BY <1>0, <2>1, <3>1 DEF Conserved
    <3>2. CASE final' = Removed /\ free' = free + Taken(final) - Taken(Removed)
      BY <1>0, <2>1, <2>4, <3>2 DEF Conserved
    <3> QED BY <2>3, <3>1, <3>2
  <2> QED BY <2>1, <2>2, <2>5 DEF VolumeInv, Filled
<1>4. CASE \E f \in Files : Validate(f)
  <2>1. UNCHANGED <<partial, final, free>> /\ pc' \in {"validate", "thrown", "probe"}
    BY <1>4 DEF Validate, disk_vars
  <2> QED BY <2>1, VolumeStays
<1>5. CASE Probe
  <2>1. UNCHANGED <<partial, final, free>> /\ (pc' = "thrown" \/ out' = "opening")
    BY <1>5 DEF Probe, disk_vars
  <2> QED BY <2>1, VolumeStays
<1>6. CASE OutputOpens
  <2>1. CASE UNCHANGED <<partial, free>> /\ out' = "closed"
    <3>1. final' = final
      BY <1>6 DEF OutputOpens
    <3> QED BY <2>1, <3>1, VolumeStays
  <2>2. CASE partial' = Empty /\ free' = free + Taken(partial)
    <3>1. final' = final
      BY <1>6 DEF OutputOpens
    <3>2. Conserved'
      BY <1>0, <2>2, <3>1 DEF Conserved
    <3>3. Filled'
      BY <2>2 DEF Filled, Empty, Absent
    <3> QED BY <3>2, <3>3 DEF VolumeInv
  <2> QED BY <1>6, <2>1, <2>2 DEF OutputOpens
<1>7. CASE \E f \in Files : SourceOpens(f)
  <2>1. PICK f \in Files : SourceOpens(f)
    BY <1>7
  <2>2. /\ UNCHANGED <<partial, final, free, pc, out>> /\ settled = "no" /\ streams[f] = "opening"
        /\ settled' = "error" \/ (settled' = settled /\ streams' = [streams EXCEPT ![f] = "open"])
    BY <2>1 DEF SourceOpens, SettleWith, Writing, job_vars, disk_vars
  <2>3. streams \in [Files -> {"none", "opening", "open", "done"}]
    BY DEF WholeInv, Shapes
  <2> QED BY <2>2, <2>3, VolumeStays
<1>8. CASE \E f \in Files : Append(f)
  <2>1. PICK f \in Files : Append(f)
    BY <1>8
  <2>2. /\ UNCHANGED <<pc, out, final>> /\ pc = "write" /\ settled = "no" /\ out = "open"
        /\ streams[f] = "open"
    BY <2>1 DEF Append, Writing, job_vars
  <2>3. CASE settled' = "error" /\ UNCHANGED <<partial, free>>
    BY <2>2, <2>3, VolumeStays
  <2>4. CASE /\ partial' = [partial EXCEPT !.has[f] = IF src[f] = "short" THEN "short" ELSE "whole"]
             /\ free >= Entry[f] /\ free' = free - Entry[f]
             /\ streams' = [streams EXCEPT ![f] = "done"]
    <3>1. PICK k \in {"short", "whole"} : k = IF src[f] = "short" THEN "short" ELSE "whole"
      OBVIOUS
    <3>2. partial' = [partial EXCEPT !.has[f] = k]
      BY <2>4, <3>1
    <3>3. partial.there /\ ~partial.ended /\ \A g \in Files : partial.has[g] # "none" => streams[g] = "done"
      BY <2>2 DEF VolumeInv, Filled
    <3>4. Taken(partial') = Taken(partial) + Entry[f]
      BY <1>0, <2>2, <3>2, <3>3, TakenEntry
    <3>5. Entry[f] \in Nat
      BY EntryType
    <3>6. Conserved'
      BY <1>0, <2>2, <2>4, <3>4, <3>5 DEF Conserved
    <3>7. /\ partial'.there /\ ~partial'.ended /\ partial'.has = [partial.has EXCEPT ![f] = k]
          /\ partial.has \in [Files -> {"none", "short", "whole"}]
      BY <1>0, <3>2, <3>3 DEF Zips
    <3>8. streams \in [Files -> {"none", "opening", "open", "done"}]
      BY DEF WholeInv, Shapes
    <3>9. \A g \in Files : partial'.has[g] # "none" => streams'[g] = "done"
      BY <2>4, <3>3, <3>7, <3>8
    <3>10. Filled'
      BY <3>7, <3>9 DEF Filled
    <3> QED BY <3>6, <3>10 DEF VolumeInv
  <2> QED BY <2>1, <2>3, <2>4 DEF Append, SettleWith
<1>9. CASE OutputCloses
  <2>1. /\ UNCHANGED <<pc, streams, final>> /\ pc = "write" /\ settled = "no" /\ out = "open"
        /\ settled' # "no"
        /\ \/ partial' = [partial EXCEPT !.ended = TRUE] /\ free >= ZipFixed /\ free' = free - ZipFixed
           \/ UNCHANGED <<partial, free>>
    BY <1>9 DEF OutputCloses, SettleWith, Writing, job_vars
  <2>2. partial.there /\ ~partial.ended
    BY <2>1 DEF VolumeInv, Filled
  <2>3. Taken([partial EXCEPT !.ended = TRUE]) = Taken(partial) + ZipFixed
    BY <1>0, <2>2, TakenEnd
  <2>4. Conserved'
    <3>1. CASE /\ partial' = [partial EXCEPT !.ended = TRUE]
               /\ free >= ZipFixed /\ free' = free - ZipFixed
      <4>1. Taken(partial') = Taken(partial) + ZipFixed
        BY <2>3, <3>1
      <4> QED BY <1>0, <2>1, <3>1, <4>1 DEF Conserved
    <3>2. CASE UNCHANGED <<partial, free>>
      BY <1>0, <2>1, <3>2 DEF Conserved
    <3> QED BY <2>1, <3>1, <3>2
  <2> QED BY <2>1, <2>4 DEF VolumeInv, Filled
<1>10. CASE WriterEnds
  <2>1. UNCHANGED <<partial, final, free>> /\ pc' # "write"
    BY <1>10 DEF WriterEnds, disk_vars
  <2> QED BY <2>1, VolumeStays
<1>11. CASE LookAgain
  <2>1. UNCHANGED <<partial, final, free>> /\ pc' # "write"
    BY <1>11 DEF LookAgain, disk_vars
  <2> QED BY <2>1, VolumeStays
<1>12. CASE Publish
  <2>1. /\ pc' # "write" /\ free' = free + Taken(final)
        /\ (final' = partial /\ partial' = Absent) \/ (final' = Absent /\ partial' = partial)
    BY <1>12 DEF Publish
  <2>2. Conserved'
    BY <1>0, <2>1 DEF Conserved
  <2> QED BY <2>1, <2>2 DEF VolumeInv, Filled
<1>13. CASE Clean
  <2>1. /\ pc' # "write" /\ final' = final
        /\ (partial' = Absent /\ free' = free + Taken(partial)) \/ UNCHANGED <<partial, free>>
    BY <1>13 DEF Clean
  <2>2. Conserved'
    BY <1>0, <2>1 DEF Conserved
  <2> QED BY <2>1, <2>2 DEF VolumeInv, Filled
<1>14. CASE \E f \in Files : Damage(f)
  <2>1. UNCHANGED <<partial, final, free, pc, out, streams, settled>>
    BY <1>14 DEF Damage, job_vars, stream_vars
  <2> QED BY <2>1, VolumeStays
<1>15. CASE Elsewhere
  <2>1. UNCHANGED <<partial, final, pc, out, streams, settled>>
    BY <1>15 DEF Elsewhere, job_vars, stream_vars
  <2>2. free' \in 0..(Capacity - Taken(partial) - Taken(final))
    BY <1>15 DEF Elsewhere
  <2>3. Conserved'
    BY <1>0, <2>1, <2>2 DEF Conserved
  <2> QED BY <2>1, <2>3 DEF VolumeInv, Filled
<1>16. CASE UNCHANGED vars
  <2>1. UNCHANGED <<partial, final, free, pc, out, streams, settled>>
    BY <1>16 DEF vars, job_vars, stream_vars, disk_vars
  <2> QED BY <2>1, VolumeStays
<1> QED
  BY <1>1, <1>2, <1>3, <1>4, <1>5, <1>6, <1>7, <1>8, <1>9, <1>10, <1>11, <1>12, <1>13, <1>14,
     <1>15, <1>16 DEF Next, Packager

\* The rest of what TypeOK says.
Kinds ==
  /\ pc \in Steps \union {"downloaded", "no_space", "packed", "failed", "cancelled"}
  /\ aborted \in BOOLEAN /\ cut \subseteq Files
  /\ out \in {"none", "opening", "open", "closed"}
  /\ settled \in {"no", "ok", "error"}

LEMMA KindsStep == WholeInv /\ Kinds /\ [Next]_vars => Kinds'
<1> SUFFICES ASSUME WholeInv, Kinds, [Next]_vars PROVE Kinds'
  OBVIOUS
<1> USE DEF NoFault, Fault, Steps
<1>1. CASE Gate \/ RetryStorageCheck \/ RetryPackaging
  BY <1>1 DEF Gate, RetryStorageCheck, RetryPackaging, BeginZip, stream_vars, ghosts, Kinds
<1>2. CASE Cancel \/ StreamFails
  BY <1>2 DEF Cancel, StreamFails, SettleWith, job_vars, ghosts, Kinds
<1>3. CASE EndZip
  <2>1. pc' = Ended /\ UNCHANGED <<aborted, cut, out, settled>>
    BY <1>3 DEF EndZip, stream_vars
  <2>2. Ended \in {"cancelled", "packed", "failed"}
    BY Zenon DEF Ended
  <2> QED BY <2>1, <2>2 DEF Kinds
<1>4. CASE \E f \in Files : Validate(f)
  <2>1. PICK f \in Files : Validate(f)
    BY <1>4
  <2>2. UNCHANGED <<aborted, cut, out, settled>>
    BY <2>1 DEF Validate, stream_vars, ghosts
  <2>3. pc' \in {"validate", "thrown", "probe"}
    BY <2>1 DEF Validate
  <2> QED BY <2>2, <2>3 DEF Kinds
<1>5. CASE Probe
  BY <1>5 DEF Probe, stream_vars, Kinds
<1>6. CASE OutputOpens
  BY <1>6 DEF OutputOpens, SettleWith, job_vars, Kinds
<1>7. CASE \E f \in Files : SourceOpens(f) \/ Append(f)
  BY <1>7 DEF SourceOpens, Append, SettleWith, job_vars, ghosts, Kinds
<1>8. CASE OutputCloses \/ WriterEnds
  BY <1>8 DEF OutputCloses, WriterEnds, SettleWith, job_vars, ghosts, Kinds
<1>9. CASE LookAgain \/ Publish \/ Clean
  BY <1>9 DEF LookAgain, Publish, Clean, stream_vars, ghosts, Kinds
<1>10. CASE \E f \in Files : Damage(f)
  <2>1. PICK f \in Files : Damage(f)
    BY <1>10
  <2>2. cut' = IF f \in checked THEN cut \union {f} ELSE cut
    BY <2>1 DEF Damage
  <2> QED BY <2>1, <2>2 DEF Damage, job_vars, stream_vars, Kinds
<1>11. CASE Elsewhere
  BY <1>11 DEF Elsewhere, job_vars, stream_vars, Kinds
<1>12. CASE UNCHANGED vars
  BY <1>12 DEF vars, job_vars, stream_vars, ghosts, Kinds
<1> QED
  BY <1>1, <1>2, <1>3, <1>4, <1>5, <1>6, <1>7, <1>8, <1>9, <1>10, <1>11, <1>12 DEF Next, Packager

\* The types of the state, of which one says that nothing overfills the volume:
\* every step charges what the ZIPs are charged, however entries, removals and
\* renames interleave with what others take and free.
THEOREM TypeCorrect == Spec => []TypeOK
<1>1. Init => Kinds
  BY DEF Init, Kinds
<1>2. WholeInv /\ VolumeInv /\ Kinds => TypeOK
  <2> SUFFICES ASSUME WholeInv, VolumeInv, Kinds PROVE TypeOK
    OBVIOUS
  <2>1. free \in 0..Capacity
    BY TakenType, PackagingAssumption DEF VolumeInv, Conserved
  <2> QED BY <2>1 DEF WholeInv, Shapes, Zips, VolumeInv, Conserved, Kinds, TypeOK
<1> QED
  BY <1>1, <1>2, WholeInit, WholeStep, VolumeInit, VolumeStep, KindsStep, PTL DEF Spec

-----------------------------------------------------------------------------
(* The reserve is left *)

Pending == {f \in Files : streams[f] # "done"}

Reserve == ComputeSafetyReserve(Selected)

\* Unless others took space since the fresh check, what is not written yet fits
\* beside the reserve.
RoomInv ==
  ~others =>
    /\ pc = "write" /\ settled = "no" => free >= Reserve + ZipFixed + Total(Entry, Pending)
    /\ (pc = "write" /\ settled = "ok") \/ pc \in {"wrote", "publish", "returned", "packed"}
         => free >= Reserve

LEMMA ReserveIs == Reserve \in Nat /\ Selected \in Nat
<1>1. Selected \in Nat
  BY TotalNat, PackagingAssumption DEF Selected
<1> QED BY <1>1, ReserveType DEF Reserve

\* The fresh check has room for all of it.
LEMMA AllowedIs ==
  ASSUME free \in Nat, PackagingAllowed(free, Selected, Cardinality(Files))
  PROVE  free >= Reserve + ZipFixed + Total(Entry, Files)
<1>1. RequiredAdditionalBytes(Selected, Cardinality(Files))
        = Selected + Cardinality(Files) * ZipPerFile + ZipFixed + Reserve
  BY DEF RequiredAdditionalBytes, EstimateZipBytes, Reserve
<1>2. free - RequiredAdditionalBytes(Selected, Cardinality(Files)) >= 0
  BY DEF PackagingAllowed
<1>3. Total(Entry, Files) \in Nat
  BY TotalNat, EntryType
<1>4. RequiredAdditionalBytes(Selected, Cardinality(Files)) = Total(Entry, Files) + ZipFixed + Reserve
  BY <1>1, EntriesEstimated
<1> QED BY <1>2, <1>3, <1>4, ReserveIs, PolicyAssumption

\* A step that takes no space, and goes no further.
LEMMA RoomStays ==
  ASSUME RoomInv, free \in Nat, free' \in Nat, free' >= free, others' = others,
         pc' \notin {"write", "wrote", "publish", "returned", "packed"}
           \/ (pc' = pc /\ settled' = "error" /\ pc = "write")
           \/ (pc' = pc /\ settled' = settled /\ Pending' = Pending)
           \/ (pc' = "wrote" /\ pc = "write" /\ settled = "ok")
           \/ (pc' \in {"publish", "returned", "packed"} /\ pc \in {"wrote", "publish", "returned"})
  PROVE  RoomInv'
<1>1. Reserve \in Nat /\ ZipFixed \in Nat /\ Total(Entry, Pending) \in Nat
  BY ReserveIs, PolicyAssumption, TotalNat, EntryType DEF Pending
<1>2. Reserve' = Reserve
  BY DEF Reserve, Selected
<1>3. Pending' = Pending => Total(Entry, Pending)' = Total(Entry, Pending)
  BY DEF Entry
<1> QED BY <1>1, <1>2, <1>3 DEF RoomInv

LEMMA RoomStep == WholeInv /\ VolumeInv /\ VolumeInv' /\ RoomInv /\ [Next]_vars => RoomInv'
<1> SUFFICES ASSUME WholeInv, VolumeInv, VolumeInv', RoomInv, [Next]_vars PROVE RoomInv'
  OBVIOUS
<1> USE DEF NoFault, Fault
<1>0. /\ free \in Nat /\ free' \in Nat /\ Taken(partial) \in Nat /\ Taken(final) \in Nat
      /\ streams \in [Files -> {"none", "opening", "open", "done"}]
      /\ Reserve \in Nat /\ Reserve' = Reserve /\ ZipFixed \in Nat
      /\ Total(Entry, Pending) \in Nat
  <2>1. Total(Entry, Pending) \in Nat
    BY TotalNat, EntryType DEF Pending
  <2>2. Reserve' = Reserve
    BY DEF Reserve, Selected
  <2> QED BY <2>1, <2>2, TakenType, ReserveIs, PolicyAssumption
             DEF WholeInv, Shapes, VolumeInv, Conserved
<1>1. CASE Gate \/ RetryStorageCheck \/ RetryPackaging
  BY <1>0, <1>1, RoomStays DEF Gate, RetryStorageCheck, RetryPackaging, BeginZip, disk_vars, ghosts
<1>2. CASE Cancel
  <2>1. /\ UNCHANGED <<pc, free, others, streams>>
        /\ IF pc = "write" /\ settled = "no" THEN settled' = "error" ELSE settled' = settled
    BY <1>2 DEF Cancel, disk_vars, ghosts
  <2>2. Pending' = Pending
    BY <2>1 DEF Pending
  <2> QED BY <1>0, <2>1, <2>2, RoomStays
<1>3. CASE EndZip
  <2>1. pc' = Ended /\ others' = others /\ pc \in {"returned", "thrown"}
    BY <1>3 DEF EndZip
  <2>2. Ended \in {"cancelled", "failed"} \/ (Ended = "packed" /\ pc = "returned")
    BY <2>1, Zenon DEF Ended
  <2>3. CASE Ended = "packed"
    <3>1. free' = free
      BY <1>3, <2>3 DEF EndZip
    <3> QED BY <1>0, <2>1, <2>2, <2>3, <3>1, RoomStays
  <2>4. CASE Ended # "packed"
    BY <2>1, <2>2, <2>4 DEF RoomInv
  <2> QED BY <2>3, <2>4
<1>4. CASE \E f \in Files : Validate(f)
  <2>1. others' = others /\ free' = free /\ pc' \in {"validate", "thrown", "probe"}
    BY <1>4 DEF Validate, disk_vars, ghosts
  <2> QED BY <1>0, <2>1, RoomStays
<1>5. CASE Probe
  <2>1. CASE pc' = "thrown"
    BY <2>1 DEF RoomInv
  <2>2. CASE /\ PackagingAllowed(free, Selected, Cardinality(Files)) /\ pc' = "write"
             /\ streams' = [f \in Files |-> "opening"] /\ settled' = "no"
    <3>1. Pending' = Files
      BY <2>2 DEF Pending
    <3>2. Total(Entry, Pending)' = Total(Entry, Files)
      BY <3>1 DEF Entry
    <3>3. free >= Reserve + ZipFixed + Total(Entry, Files)
      BY <1>0, <2>2, AllowedIs
    <3>4. free' = free
      BY <1>5 DEF Probe, disk_vars
    <3> QED BY <1>0, <2>2, <3>2, <3>3, <3>4 DEF RoomInv
  <2> QED BY <1>5, <2>1, <2>2 DEF Probe
<1>6. CASE OutputOpens
  <2>1. /\ UNCHANGED <<pc, streams, others>>
        /\ free' = free \/ free' = free + Taken(partial)
        /\ settled' = settled \/ (pc = "write" /\ settled' = "error")
    BY <1>6 DEF OutputOpens, SettleWith, Writing, job_vars
  <2>2. Pending' = Pending
    BY <2>1 DEF Pending
  <2>3. free' >= free
    BY <1>0, <2>1
  <2> QED BY <1>0, <2>1, <2>2, <2>3, RoomStays
<1>7. CASE \E f \in Files : SourceOpens(f)
  <2>1. PICK f \in Files : SourceOpens(f)
    BY <1>7
  <2>2. /\ UNCHANGED <<pc, free, others>> /\ pc = "write" /\ streams[f] = "opening"
        /\ settled' = "error" \/ (settled' = settled /\ streams' = [streams EXCEPT ![f] = "open"])
    BY <2>1 DEF SourceOpens, SettleWith, Writing, job_vars, disk_vars, ghosts
  <2>3. CASE settled' = "error"
    BY <1>0, <2>2, <2>3, RoomStays
  <2>4. CASE settled' = settled /\ streams' = [streams EXCEPT ![f] = "open"]
    <3>1. Pending' = Pending
      BY <1>0, <2>2, <2>4 DEF Pending
    <3> QED BY <1>0, <2>2, <2>4, <3>1, RoomStays
  <2> QED BY <2>2, <2>3, <2>4
<1>8. CASE \E f \in Files : Append(f)
  <2>1. PICK f \in Files : Append(f)
    BY <1>8
  <2>2. /\ UNCHANGED <<pc, others>> /\ pc = "write" /\ settled = "no" /\ streams[f] = "open"
        /\ \/ settled' = "error"
           \/ /\ settled' = settled /\ free' = free - Entry[f]
              /\ streams' = [streams EXCEPT ![f] = "done"]
    BY <2>1 DEF Append, SettleWith, Writing, job_vars, ghosts
  <2>3. CASE settled' = "error"
    BY <2>2, <2>3 DEF RoomInv
  <2>4. CASE /\ settled' = settled /\ free' = free - Entry[f]
             /\ streams' = [streams EXCEPT ![f] = "done"]
    <3>1. PICK U \in SUBSET Files : U = Pending
      BY DEF Pending
    <3>2. f \in U /\ Pending' = U \ {f}
      BY <1>0, <2>2, <2>4, <3>1 DEF Pending
    <3>3. Total(Entry, U) = Entry[f] + Total(Entry, U \ {f})
      BY <3>2, TotalSplit, EntryType
    <3>4. Total(Entry, Pending)' = Total(Entry, U \ {f})
      BY <3>2 DEF Entry
    <3>5. Entry[f] \in Nat /\ Total(Entry, U \ {f}) \in Nat
      BY TotalNat, EntryType
    <3>6. ~others => free >= Reserve + ZipFixed + Total(Entry, U)
      BY <2>2, <3>1 DEF RoomInv
    <3>7. ~others => free' >= Reserve + ZipFixed + Total(Entry, U \ {f})
      BY <1>0, <2>4, <3>3, <3>5, <3>6
    <3> QED BY <1>0, <2>2, <2>4, <3>4, <3>7 DEF RoomInv
  <2> QED BY <2>2, <2>3, <2>4
<1>9. CASE StreamFails
  <2>1. UNCHANGED <<pc, free, others>> /\ pc = "write" /\ settled' = "error"
    BY <1>9 DEF StreamFails, SettleWith, Writing, job_vars, disk_vars, ghosts
  <2> QED BY <1>0, <2>1, RoomStays
<1>10. CASE OutputCloses
  <2>1. /\ UNCHANGED <<pc, others>> /\ pc = "write" /\ settled = "no"
        /\ settled' = "error" \/ (settled' = "ok" /\ free' = free - ZipFixed)
    BY <1>10 DEF OutputCloses, SettleWith, Writing, job_vars, ghosts
  <2>2. ~others => free >= Reserve + ZipFixed + Total(Entry, Pending)
    BY <2>1 DEF RoomInv
  <2> QED BY <1>0, <2>1, <2>2 DEF RoomInv
<1>11. CASE WriterEnds
  <2>1. /\ UNCHANGED <<free, others>> /\ pc = "write"
        /\ pc' = "clean" \/ (pc' = "wrote" /\ settled = "ok")
    BY <1>11 DEF WriterEnds, disk_vars, ghosts
  <2> QED BY <1>0, <2>1, RoomStays
<1>12. CASE LookAgain
  <2>1. UNCHANGED <<free, others>> /\ pc = "wrote" /\ pc' \in {"thrown", "publish"}
    BY <1>12 DEF LookAgain, disk_vars
  <2> QED BY <1>0, <2>1, RoomStays
<1>13. CASE Publish
  <2>1. /\ others' = others /\ free' = free + Taken(final) /\ pc = "publish"
        /\ pc' \in {"returned", "clean"}
    BY <1>13 DEF Publish, ghosts
  <2>2. free' >= free
    BY <1>0, <2>1
  <2> QED BY <1>0, <2>1, <2>2, RoomStays
<1>14. CASE Clean
  BY <1>14 DEF Clean, RoomInv
<1>15. CASE \E f \in Files : Damage(f)
  <2>1. UNCHANGED <<pc, settled, streams, free, others>>
    BY <1>15 DEF Damage, job_vars, stream_vars
  <2>2. Pending' = Pending
    BY <2>1 DEF Pending
  <2> QED BY <1>0, <2>1, <2>2, RoomStays
<1>16. CASE Elsewhere
  <2>1. UNCHANGED <<pc, settled, streams>> /\ others' = (others \/ free' < free)
    BY <1>16 DEF Elsewhere, job_vars, stream_vars
  <2>2. CASE others'
    BY <2>2 DEF RoomInv
  <2>3. CASE ~others'
    <3>1. ~others /\ ~(free' < free)
      BY <2>1, <2>3
    <3>2. free' >= free
      BY <1>0, <3>1
    <3>3. Pending' = Pending /\ Total(Entry, Pending)' = Total(Entry, Pending)
      BY <2>1 DEF Pending, Entry
    <3> QED BY <1>0, <2>1, <2>3, <3>1, <3>2, <3>3 DEF RoomInv
  <2> QED BY <2>2, <2>3
<1>17. CASE UNCHANGED vars
  <2>1. UNCHANGED <<pc, settled, streams, free, others>>
    BY <1>17 DEF vars, job_vars, stream_vars, disk_vars, ghosts
  <2>2. Pending' = Pending
    BY <2>1 DEF Pending
  <2> QED BY <1>0, <2>1, <2>2, RoomStays
<1> QED
  BY <1>1, <1>2, <1>3, <1>4, <1>5, <1>6, <1>7, <1>8, <1>9, <1>10, <1>11, <1>12, <1>13, <1>14,
     <1>15, <1>16, <1>17 DEF Next, Packager

\* What a packaging that succeeds leaves, for any number of files of any size: the ZIP whole, no
\* partial file but for the named gaps, and the safety reserve of the volume, unless others took
\* space since the fresh check.
THEOREM LeftSafely == Spec => []PackedSafely
<1>1. Init => RoomInv
  BY DEF Init, RoomInv
<1>2. RoomInv => ReserveLeft
  BY DEF RoomInv, ReserveLeft, Reserve
<1>3. Spec => []ReserveLeft
  BY <1>1, <1>2, WholeInit, WholeStep, VolumeInit, VolumeStep, RoomStep, PTL DEF Spec
<1> QED BY <1>3, ReportedWhole, PTL DEF PackedSafely
=============================================================================
