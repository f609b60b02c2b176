------------------------ MODULE PluginAdmission_proofs -----------------------
(***************************************************************************)
(* Theorems about PluginAdmission for every set of documents, hellos and   *)
(* versions.  The entry parsers settle what they keep: it is kept again,   *)
(* in the same form (...Settles).  So the manifest of an accepted document *)
(* is parsed to itself.  What the host binds to is the manifest of the     *)
(* document that was judged (Admitted); what that offers is carried out,   *)
(* and whatever requirement it carries, the three implementations read it  *)
(* alike, and as the order of versions says.                               *)
(***************************************************************************)
EXTENDS PluginAdmission, VersionRules_proofs, FiniteSetTheorems

-----------------------------------------------------------------------------
(* Lists of what is in some places.                                        *)

LEMMA CountsGrow ==
    ASSUME NEW places \in SUBSET Nat, IsFiniteSet(places),
           NEW i \in places, NEW k \in places, i < k
    PROVE  Cardinality({j \in places : j <= i}) < Cardinality({j \in places : j <= k})
  <1> DEFINE low == {j \in places : j <= i}
             high == {j \in places : j <= k}
  <1>0. i \in Nat /\ k \in Nat /\ \A j \in places : j \in Nat
    OBVIOUS
  <1>1. low \subseteq high /\ k \in high /\ k \notin low
    <2>1. \A j \in places : j <= i => j <= k
      BY <1>0
    <2>2. k <= k /\ ~(k <= i)
      BY <1>0
    <2> QED BY <2>1, <2>2
  <1>2. IsFiniteSet(high)
    BY FS_Subset
  <1>3. /\ IsFiniteSet(low) /\ Cardinality(low) <= Cardinality(high)
        /\ Cardinality(high) = Cardinality(low) => high = low
    BY <1>1, <1>2, FS_Subset
  <1>4. Cardinality(low) \in Nat /\ Cardinality(high) \in Nat
    BY <1>2, <1>3, FS_CardinalityType
  <1> QED BY <1>1, <1>3, <1>4

\* One of the places is the n-th.
LEMMA SomeIsNth ==
    ASSUME NEW places \in SUBSET Nat, IsFiniteSet(places), NEW n \in 1 .. Cardinality(places)
    PROVE  \E i \in places : Cardinality({j \in places : j <= i}) = n
  <1> DEFINE C(i) == Cardinality({j \in places : j <= i})
             T == {m \in 1 .. Cardinality(places) : \A i \in places : C(i) # m}
  <1>1. Cardinality(places) \in Nat
    BY FS_CardinalityType
  <1>2. SUFFICES ASSUME T # {} PROVE FALSE
    OBVIOUS
  <1>3. PICK m \in T : \A l \in T : m <= l
    <2>1. T \in SUBSET Nat
      OBVIOUS
    <2> HIDE DEF T
    <2> QED BY <1>2, <2>1, LeastOf
  <1>4. m \in 1 .. Cardinality(places) /\ \A i \in places : C(i) # m
    OBVIOUS
  <1>5. \E S \in SUBSET places : /\ IsFiniteSet(S) /\ Cardinality(S) = m - 1
                                 /\ \A j \in S : \A k \in places : k <= j => k \in S
    <2>1. CASE m = 1
      <3>1. {} \in SUBSET places /\ IsFiniteSet({}) /\ Cardinality({}) = m - 1
        BY <2>1, FS_EmptySet
      <3> QED BY <3>1
    <2>2. CASE m > 1
      <3>1. m - 1 \in 1 .. Cardinality(places) /\ m - 1 \notin T
        BY <1>1, <1>3, <1>4, <2>2
      <3>2. PICK i \in places : C(i) = m - 1
        BY <3>1
      <3> DEFINE S == {j \in places : j <= i}
      <3>3. S \in SUBSET places /\ IsFiniteSet(S) /\ Cardinality(S) = m - 1
        BY <3>2, FS_Subset
      <3>4. \A j \in S : \A k \in places : k <= j => k \in S
        OBVIOUS
      <3> QED BY <3>3, <3>4
    <2> QED BY <1>1, <1>4, <2>1, <2>2
  <1>6. PICK S \in SUBSET places : /\ IsFiniteSet(S) /\ Cardinality(S) = m - 1
                                   /\ \A j \in S : \A k \in places : k <= j => k \in S
    BY <1>5
  <1> DEFINE rest == places \ S
  <1>7. rest # {} /\ rest \in SUBSET Nat
    <2>1. S # places
      BY <1>1, <1>4, <1>6
    <2> QED BY <2>1
  <1>8. PICK k \in rest : \A l \in rest : k <= l
    <2> HIDE DEF rest
    <2> QED BY <1>7, LeastOf
  <1>9. k \in places /\ k \notin S /\ k \in Nat
    OBVIOUS
  <1>10. {j \in places : j <= k} = S \cup {k}
    <2>1. ASSUME NEW j \in places, j <= k PROVE j \in S \cup {k}
      BY <1>8, <1>9, <2>1
    <2>2. ASSUME NEW j \in S PROVE j \in places /\ j <= k
      <3>1. j \in places /\ j \in Nat /\ ~(k <= j)
        BY <1>6, <1>9
      <3> QED BY <1>9, <3>1
    <2>3. k <= k
      BY <1>9
    <2> HIDE DEF rest
    <2> QED BY <1>9, <2>1, <2>2, <2>3
  <1>11. Cardinality(S \cup {k}) = m
    <2>1. m - 1 + 1 = m
      BY <1>1, <1>4
    <2> QED BY <1>6, <1>9, <2>1, FS_AddElement
  <1> QED BY <1>4, <1>9, <1>10, <1>11

LEMMA NthFacts ==
    ASSUME NEW places \in SUBSET Nat, IsFiniteSet(places)
    PROVE  /\ Cardinality(places) \in Nat
           /\ \A n \in 1 .. Cardinality(places) :
                /\ Nth(places, n) \in places
                /\ Cardinality({j \in places : j <= Nth(places, n)}) = n
           /\ \A i \in places : \E n \in 1 .. Cardinality(places) : Nth(places, n) = i
  <1> DEFINE C(i) == Cardinality({j \in places : j <= i})
  <1>1. Cardinality(places) \in Nat
    BY FS_CardinalityType
  <1>2. ASSUME NEW n \in 1 .. Cardinality(places)
        PROVE  Nth(places, n) \in places /\ C(Nth(places, n)) = n
    BY SomeIsNth DEF Nth
  <1>3. ASSUME NEW i \in places
        PROVE  \E n \in 1 .. Cardinality(places) : Nth(places, n) = i
    <2> DEFINE low == {j \in places : j <= i}
    <2>1. IsFiniteSet(low) /\ Cardinality(low) <= Cardinality(places)
      BY FS_Subset
    <2>2. i \in low /\ Cardinality(low) \in Nat
      BY <2>1, FS_CardinalityType
    <2>3. Cardinality(low) # 0
      BY <2>1, <2>2, FS_EmptySet
    <2>4. C(i) \in 1 .. Cardinality(places)
      BY <1>1, <2>1, <2>2, <2>3
    <2>5. Nth(places, C(i)) \in places /\ C(Nth(places, C(i))) = C(i)
      BY <1>2, <2>4
    <2>6. ASSUME NEW k \in places, C(k) = C(i) PROVE k = i
      <3>1. ~(k < i)
        BY <2>2, <2>6, CountsGrow
      <3>2. ~(i < k)
        BY <2>2, <2>6, CountsGrow
      <3> QED BY <3>1, <3>2
    <2>7. Nth(places, C(i)) = i
      BY <2>5, <2>6
    <2> QED BY <2>4, <2>7
  <1> QED BY <1>1, <1>2, <1>3

LEMMA AtFacts ==
    ASSUME NEW places \in SUBSET Nat, IsFiniteSet(places), NEW f, NEW T,
           \A i \in places : f[i] \in T
    PROVE  /\ At(f, places) \in Seq(T) /\ Len(At(f, places)) = Cardinality(places)
           /\ DOMAIN At(f, places) = 1 .. Cardinality(places)
           /\ \A n \in 1 .. Cardinality(places) :
                Nth(places, n) \in places /\ At(f, places)[n] = f[Nth(places, n)]
  <1> DEFINE q == At(f, places)
             N == Cardinality(places)
  <1>1. N \in Nat /\ \A n \in 1 .. N : Nth(places, n) \in places
    BY NthFacts
  <1>2. q = [n \in 1 .. N |-> f[Nth(places, n)]]
    BY DEF At
  <1>3. DOMAIN q = 1 .. N /\ \A n \in 1 .. N : q[n] = f[Nth(places, n)] /\ f[Nth(places, n)] \in T
    BY <1>1, <1>2
  <1>4. q \in Seq(T)
    <2> HIDE DEF N
    <2> QED BY <1>1, <1>2, <1>3
  <1>5. Len(q) = N
    BY <1>1, <1>3, <1>4, LenProperties
  <1> QED BY <1>1, <1>3, <1>4, <1>5

LEMMA AtRange ==
    ASSUME NEW places \in SUBSET Nat, IsFiniteSet(places), NEW f
    PROVE  /\ \A x \in Range(At(f, places)) : \E i \in places : x = f[i]
           /\ \A i \in places : f[i] \in Range(At(f, places))
  <1> DEFINE q == At(f, places)
             N == Cardinality(places)
  <1>1. \A i \in places : \E n \in 1 .. N : Nth(places, n) = i
    BY NthFacts
  <1>2. DOMAIN q = 1 .. N /\ \A n \in 1 .. N : q[n] = f[Nth(places, n)] /\ Nth(places, n) \in places
    BY NthFacts DEF At
  <1> HIDE DEF q, N
  <1> QED BY <1>1, <1>2 DEF Range, q

LEMMA AllPlaces ==
    ASSUME NEW S, NEW list \in Seq(S)
    PROVE  /\ IsFiniteSet(DOMAIN list) /\ DOMAIN list \in SUBSET Nat
           /\ Cardinality(DOMAIN list) = Len(list)
           /\ At(list, DOMAIN list) = list
  <1> DEFINE L == Len(list)
  <1>1. L \in Nat /\ DOMAIN list = 1 .. L /\ list = [n \in 1 .. L |-> list[n]]
    BY LenProperties
  <1>2. IsFiniteSet(1 .. L) /\ Cardinality(1 .. L) = L /\ 1 .. L \in SUBSET Nat
    <2> HIDE DEF L
    <2>1. IsFiniteSet(1 .. L) /\ Cardinality(1 .. L) = IF 1 > L THEN 0 ELSE L - 1 + 1
      <3>1. 1 \in Int /\ L \in Int
        BY <1>1
      <3> QED BY <3>1, FS_Interval
    <2> QED BY <1>1, <2>1
  <1>3. ASSUME NEW n \in 1 .. L PROVE Nth(1 .. L, n) = n
    <2>1. Nth(1 .. L, n) \in 1 .. L /\ Cardinality({j \in 1 .. L : j <= Nth(1 .. L, n)}) = n
      BY <1>2, NthFacts
    <2>2. {j \in 1 .. L : j <= Nth(1 .. L, n)} = 1 .. Nth(1 .. L, n)
      BY <1>1, <2>1
    <2>3. Cardinality(1 .. Nth(1 .. L, n)) = Nth(1 .. L, n)
      BY <1>1, <2>1, FS_Interval
    <2> QED BY <2>1, <2>2, <2>3
  <1>4. At(list, 1 .. L) = [n \in 1 .. L |-> list[n]]
    BY <1>2, <1>3 DEF At
  <1> QED BY <1>1, <1>2, <1>4

LEMMA SomePlaces ==
    ASSUME NEW S, NEW list \in Seq(S), NEW places \in SUBSET DOMAIN list
    PROVE  places \in SUBSET Nat /\ IsFiniteSet(places)
  BY AllPlaces, FS_Subset

-----------------------------------------------------------------------------
(* Sections.                                                               *)

LEMMA SectionFacts ==
    ASSUME NEW S, NEW list, Given(list) \in Seq(S), NEW normal, NEW T,
           \A x \in DOMAIN normal : normal[x] \in T
    PROVE  /\ Section(list, normal) \in Seq(T)
           /\ Len(Section(list, normal)) =
                 Cardinality({i \in DOMAIN Given(list) : Given(list)[i] \in DOMAIN normal})
  <1> DEFINE g == Given(list)
             places == {i \in DOMAIN g : g[i] \in DOMAIN normal}
             f == [i \in places |-> normal[g[i]]]
  <1>1. places \in SUBSET Nat /\ IsFiniteSet(places)
    BY SomePlaces
  <1>2. Section(list, normal) = At(f, places)
    BY DEF Section
  <1>3. \A i \in places : f[i] \in T
    OBVIOUS
  <1> HIDE DEF f, places
  <1>4. At(f, places) \in Seq(T) /\ Len(At(f, places)) = Cardinality(places)
    BY <1>1, <1>3, AtFacts
  <1> QED BY <1>2, <1>4 DEF places

\* What is in its normal form stays as it is.
LEMMA SectionStays ==
    ASSUME NEW S, NEW list \in Seq(S), NEW normal,
           \A i \in DOMAIN list : list[i] \in DOMAIN normal /\ normal[list[i]] = list[i]
    PROVE  At([i \in {j \in DOMAIN list : list[j] \in DOMAIN normal} |-> normal[list[i]]],
              {j \in DOMAIN list : list[j] \in DOMAIN normal}) = list
  <1> DEFINE places == {i \in DOMAIN list : list[i] \in DOMAIN normal}
  <1>1. places = DOMAIN list
    OBVIOUS
  <1>2. [i \in DOMAIN list |-> normal[list[i]]] = list
    BY LenProperties
  <1> QED BY <1>1, <1>2, AllPlaces

LEMMA NotNothing == Absent # Bad /\ Absent \notin Parts /\ Bad \notin Parts
  <1>1. Absent # Bad
    <2> DEFINE d == <<Absent, Bad, Star, Unclear>>
    <2>1. \A a, b \in 1 .. 4 : d[a] = d[b] => a = b
      BY ManifestAssumption DEF IsInjective
    <2> QED BY <2>1
  <1> QED BY <1>1, AbsenceAssumption

\* A list of parts is no missing and no wrong one.
LEMMA ListOfParts ==
    ASSUME NEW S \in SUBSET Parts, NEW q \in Seq(S)
    PROVE  /\ q \notin {Absent, Bad} /\ Given(q) = q /\ Given(OrAbsent(q)) = q
           /\ Entries(q) = Range(q) /\ Entries(OrAbsent(q)) = Range(q) /\ Range(q) \subseteq S
           /\ OrAbsent(q) # Bad
           /\ OrAbsent(Given(OrAbsent(q))) = OrAbsent(q)
  <1>1. q \in Seq(Parts)
    BY SeqMonotonic
  <1>2. q \notin {Absent, Bad}
    BY <1>1, AbsenceAssumption
  <1>3. Range(q) \subseteq S
    BY LenProperties, ElementOfSeq DEF Range
  <1>4. Given(q) = q
    BY <1>2 DEF Given
  <1>5. Given(OrAbsent(q)) = q
    BY <1>2, NotNothing DEF Given, OrAbsent
  <1>6. Bad \notin Range(q)
    BY <1>3, NotNothing
  <1> QED BY <1>2, <1>3, <1>4, <1>5, <1>6, NotNothing DEF Entries, OrAbsent

LEMMA SectionAgain ==
    ASSUME NEW S \in SUBSET Parts, NEW q \in Seq(S), NEW normal,
           \A x \in Range(q) : x \in DOMAIN normal /\ normal[x] = x
    PROVE  Section(q, normal) = q /\ Section(OrAbsent(q), normal) = q
  <1>1. Given(q) = q /\ Given(OrAbsent(q)) = q
    BY ListOfParts
  <1>2. \A i \in DOMAIN q : q[i] \in DOMAIN normal /\ normal[q[i]] = q[i]
    BY DEF Range
  <1>3. At([i \in {j \in DOMAIN q : q[j] \in DOMAIN normal} |-> normal[q[i]]],
           {j \in DOMAIN q : q[j] \in DOMAIN normal}) = q
    BY <1>2, SectionStays
  <1> QED BY <1>1, <1>3 DEF Section

LEMMA WellFormed ==
    ASSUME NEW S \in SUBSET Parts, NEW q \in Seq(S), \A x \in S : x.extra = FALSE
    PROVE  ~Malformed(q) /\ ~Malformed(OrAbsent(q))
  <1>1. /\ q # Bad /\ Given(q) = q /\ Given(OrAbsent(q)) = q /\ OrAbsent(q) # Bad
        /\ Entries(q) \subseteq S /\ Entries(OrAbsent(q)) \subseteq S /\ Range(q) \subseteq S
    BY ListOfParts
  <1>2. Bad \notin Range(q)
    BY <1>1, NotNothing
  <1> QED BY <1>1, <1>2 DEF Malformed

-----------------------------------------------------------------------------
(* The normal forms of entries: what is kept in one stays in it.           *)

LEMMA TrimFacts ==
    ASSUME NEW x
    PROVE  /\ Trim(Trim(x)) = Trim(x) /\ (x \in Words => Trim(x) \in Words)
           /\ (LocalText(x) => LocalText(Trim(x))) /\ (Filled(x) => Filled(Trim(x)))
           /\ (AnyText(x) => AnyText(Trim(x))) /\ (~Trips(x) => ~Trips(Trim(x)))
           /\ (x = "absent" => Trim(x) = "absent")
  <1>1. CASE x = "padded"
    <2>1. Trim(x) = "good" /\ Trim("good") = "good"
      BY <1>1 DEF Trim
    <2>2. "good" \in Words
      BY DEF Words
    <2>3. LocalText("good") /\ Filled("good") /\ AnyText("good") /\ ~Trips("good")
      BY DEF LocalText, Filled, AnyText, Trips
    <2>4. x # "absent"
      BY <1>1
    <2> QED BY <2>1, <2>2, <2>3, <2>4
  <1>2. CASE x # "padded"
    <2>1. Trim(x) = x
      BY <1>2 DEF Trim
    <2> QED BY <2>1
  <1> QED BY <1>1, <1>2

LEMMA TrimmedAgain ==
    ASSUME NEW e, NEW fields
    PROVE  Trimmed(Trimmed(e, fields), fields) = Trimmed(e, fields)
  BY TrimFacts DEF Trimmed

LEMMA TrimKept ==
    ASSUME NEW x, NEW f, f # "extra"
    PROVE  ValueKept(f, x, Trim(x))
  <1>1. CASE x = "padded"
    BY <1>1 DEF Trim, ValueKept
  <1>2. CASE x # "padded"
    BY <1>2 DEF Trim, ValueKept
  <1> QED BY <1>1, <1>2

LEMMA ValueStays ==
    ASSUME NEW x, NEW f
    PROVE  ValueKept(f, x, x) /\ FieldKept(f, x, x)
  BY DEF ValueKept, FieldKept

LEMMA TrimmedKept ==
    ASSUME NEW e, NEW fields,
           fields \cap {"extra", "trigger", "ensure", "params", "labels"} = {}
    PROVE  EntryKept(e, Trimmed(e, fields)) /\ PartKept(e, Trimmed(e, fields))
  <1> DEFINE n == Trimmed(e, fields)
  <1>1. DOMAIN n = DOMAIN e /\ \A f \in DOMAIN e : n[f] = IF f \in fields THEN Trim(e[f]) ELSE e[f]
    BY DEF Trimmed
  <1> HIDE DEF n
  <1>2. ASSUME NEW f \in DOMAIN e
        PROVE  ValueKept(f, e[f], n[f]) /\ FieldKept(f, e[f], n[f])
    <2>1. CASE f \in fields
      <3>1. ValueKept(f, e[f], n[f])
        BY <1>1, <2>1, TrimKept
      <3>2. f \notin {"trigger", "ensure", "params", "labels"}
        BY <2>1
      <3> QED BY <3>1, <3>2 DEF FieldKept
    <2>2. CASE f \notin fields
      <3>1. n[f] = e[f]
        BY <1>1, <2>2
      <3> QED BY <3>1, ValueStays
    <2> QED BY <2>1, <2>2
  <1>3. EntryKept(e, n)
    BY <1>1, <1>2 DEF EntryKept
  <1>4. PartKept(e, n)
    BY <1>1, <1>2 DEF PartKept
  <1> QED BY <1>3, <1>4 DEF n

\* What normalizeText makes of a value it does not trip over.
LEMMA NormalizedFacts ==
    ASSUME NEW x
    PROVE  /\ Normalized(Normalized(x)) = Normalized(x)
           /\ x \in Words => Normalized(x) \in Words /\ AsText(x) \in Words
           /\ ~Trips(x) => ~Trips(Normalized(x))
           /\ Normalized(x) = Trim(AsText(x))
  <1>1. Normalized(x) = Trim(AsText(x))
    BY DEF Normalized
  <1>2. CASE x = "number"
    BY <1>2 DEF Normalized, AsText, Trim, Words, Trips
  <1>3. CASE x = "list"
    BY <1>3 DEF Normalized, AsText, Trim, Words, Trips
  <1>4. CASE x = "padded"
    BY <1>4 DEF Normalized, AsText, Trim, Words, Trips
  <1>5. CASE x \notin {"number", "list", "padded"}
    <2>1. AsText(x) = x /\ Trim(x) = x
      BY <1>5 DEF AsText, Trim
    <2>2. Normalized(x) = x
      BY <2>1 DEF Normalized
    <2> QED BY <2>1, <2>2
  <1> QED BY <1>1, <1>2, <1>3, <1>4, <1>5

LEMMA LibrarySettles ==
    ASSUME NEW x \in LibraryDep, LibraryKept(x), ~Trips(x.label)
    PROVE  LET n == NormalLibrary(x)
           IN n \in LibraryDep /\ n.extra = x.extra /\ LibraryKept(n) /\ NormalLibrary(n) = n
              /\ ~Trips(n.label)
              /\ EntryKept(x, n)
  <1> DEFINE n == NormalLibrary(x)
  <1>1. DOMAIN x = {"extra", "name", "bin", "install", "label", "observe", "accept", "reach"}
    BY DEF LibraryDep
  <1>2. /\ DOMAIN n = DOMAIN x /\ n = [f \in DOMAIN x |-> n[f]]
        /\ \A f \in DOMAIN x : n[f] = IF f \in {"name", "install",
                                                "label"} THEN Trim(x[f]) ELSE x[f]
    BY DEF NormalLibrary, Trimmed
  <1>3. NormalLibrary(n) = n
    BY TrimmedAgain DEF NormalLibrary
  <1>9. EntryKept(x, n)
    BY TrimmedKept DEF NormalLibrary
  <1> HIDE DEF n
  <1>4. LibraryKept(n)
    BY <1>1, <1>2, TrimFacts DEF LibraryKept, PlatformMap
  <1>5. n \in LibraryDep
    BY <1>1, <1>2, TrimFacts DEF LibraryDep
  <1>6. ~Trips(n.label)
    BY <1>1, <1>2, TrimFacts
  <1> QED BY <1>1, <1>2, <1>3, <1>4, <1>5, <1>6, <1>9 DEF n

LEMMA LabelsSettle ==
    ASSUME NEW list \in TextList, list # Bad
    PROVE  LET q == NormalLabels(list)
               w == IF list = Absent THEN list ELSE [i \in DOMAIN list |-> AsText(list[i])]
           IN /\ q \in TextList /\ q # Bad /\ (q = Absent <=> list = Absent)
              /\ NormalLabels(q) = q
              /\ list # Absent => Len(q) = Len(list)
              /\ (\A x \in Range(Given(list)) : ~Trips(x)) => \A x \in Range(Given(q)) : ~Trips(x)
              /\ w \in TextList /\ w # Bad /\ FieldKept("labels", w, q)
  <1> DEFINE q == NormalLabels(list)
             w == IF list = Absent THEN list ELSE [i \in DOMAIN list |-> AsText(list[i])]
  <1>1. CASE list = Absent
    <2>1. q = Absent /\ w = Absent /\ NormalLabels(Absent) = Absent
      BY <1>1 DEF NormalLabels
    <2>2. FieldKept("labels", w, q)
      BY <2>1, ValueStays
    <2> QED BY <1>1, <2>1, <2>2 DEF TextList, Maybe
  <1>2. CASE list # Absent
    <2> DEFINE L == Len(list)
    <2>1. list \in Seq(Words) /\ L \in Nat /\ DOMAIN list = 1 .. L /\ Given(list) = list
      BY <1>2, LenProperties DEF TextList, Maybe, Given
    <2>2. \A i \in 1 .. L : list[i] \in Words
      BY <2>1, ElementOfSeq
    <2>3. q = [i \in 1 .. L |-> Normalized(list[i])] /\ w = [i \in 1 .. L |-> AsText(list[i])]
      BY <1>2, <2>1 DEF NormalLabels
    <2> HIDE DEF q, w, L
    <2>4. q \in Seq(Words) /\ w \in Seq(Words)
      BY <2>1, <2>2, <2>3, NormalizedFacts
    <2>5. Words \in SUBSET Parts
      BY DEF Parts
    <2>6. q \notin {Absent, Bad} /\ w \notin {Absent, Bad} /\ Given(q) = q
      BY <2>4, <2>5, ListOfParts
    <2>7. DOMAIN q = 1 .. L /\ DOMAIN w = 1 .. L
      BY <2>3
    <2>8. Len(q) = L /\ Len(w) = L
      BY <2>1, <2>4, <2>7, LenProperties
    <2>9. NormalLabels(q) = q
      <3>1. NormalLabels(q) = [i \in 1 .. L |-> Normalized(q[i])]
        BY <2>6, <2>7 DEF NormalLabels
      <3>2. \A i \in 1 .. L : Normalized(q[i]) = q[i]
        BY <2>3, NormalizedFacts
      <3> QED BY <2>3, <3>1, <3>2
    <2>10. ASSUME \A x \in Range(Given(list)) : ~Trips(x), NEW x \in Range(Given(q)) PROVE ~Trips(x)
      <3>1. PICK i \in 1 .. L : x = Normalized(list[i])
        BY <2>3, <2>6, <2>7, <2>10 DEF Range
      <3>2. ~Trips(list[i])
        BY <2>1, <2>10 DEF Range
      <3> QED BY <3>1, <3>2, NormalizedFacts
    <2>11. \A i \in 1 .. L : ValueKept("labels", w[i], q[i])
      <3>1. ASSUME NEW i \in 1 .. L PROVE q[i] = Trim(w[i])
        BY <2>3, NormalizedFacts
      <3> QED BY <3>1, TrimKept
    <2>12. FieldKept("labels", w, q)
      BY <2>7, <2>8, <2>11 DEF FieldKept
    <2> QED BY <1>2, <2>4, <2>6, <2>8, <2>9, <2>10, <2>12 DEF TextList, Maybe, L, q, w
  <1> QED BY <1>1, <1>2

LEMMA SettingSettles ==
    ASSUME NEW x \in ConfigSetting, SettingKept(x), ~SettingTrips(x)
    PROVE  LET n == NormalSetting(x)
           IN n \in ConfigSetting /\ n.extra = x.extra /\ SettingKept(n) /\ NormalSetting(n) = n
              /\ ~SettingTrips(n)
              /\ ReadSetting(x) \in ConfigSetting /\ EntryKept(ReadSetting(x), n)
  <1> DEFINE n == NormalSetting(x)
             q == NormalLabels(x.labels)
             w == IF x.labels = Absent THEN x.labels
                  ELSE [i \in DOMAIN x.labels |-> AsText(x.labels[i])]
             r == ReadSetting(x)
             names == {"extra", "key", "type", "default", "title", "description", "enum", "labels",
                       "min", "max"}
             others == names \ {"title", "description", "labels"}
  <1>1. DOMAIN x = names /\ x = [f \in names |-> x[f]]
    BY DEF ConfigSetting
  <1>2. /\ DOMAIN n = names /\ n = [f \in names |-> n[f]]
        /\ n.title = Trim(x.title) /\ n.description = Normalized(x.description) /\ n.labels = q
        /\ \A f \in others : n[f] = x[f]
    BY <1>1 DEF NormalSetting
  <1>3. /\ DOMAIN r = names /\ r = [f \in names |-> r[f]]
        /\ r.description = AsText(x.description) /\ r.labels = w
        /\ \A f \in others \cup {"title"} : r[f] = x[f]
    BY <1>1 DEF ReadSetting
  <1>4. x.labels \in TextList /\ x.labels # Bad
    BY <1>1, NotNothing DEF ConfigSetting, SettingKept
  <1>5. /\ q \in TextList /\ q # Bad /\ (q = Absent <=> x.labels = Absent)
        /\ NormalLabels(q) = q
        /\ x.labels # Absent => Len(q) = Len(x.labels)
        /\ (\A l \in Range(Given(x.labels)) : ~Trips(l)) => \A l \in Range(Given(q)) : ~Trips(l)
        /\ w \in TextList /\ w # Bad /\ FieldKept("labels", w, q)
    BY <1>4, LabelsSettle
  <1>6. NormalSetting(n) = [n EXCEPT !.title = Trim(@), !.description = Normalized(@),
                                    !.labels = NormalLabels(@)]
    BY DEF NormalSetting
  <1> HIDE DEF n, q, w, r
  <1>7. NormalSetting(n) = n
    <2>1. /\ Trim(n.title) = n.title /\ Normalized(n.description) = n.description
          /\ NormalLabels(n.labels) = n.labels
      BY <1>2, <1>5, TrimFacts, NormalizedFacts
    <2> QED BY <1>2, <1>6, <2>1
  <1>8. SettingKept(n)
    <2>1. AnyText(n.title)
      BY <1>2, TrimFacts DEF SettingKept
    <2>2. /\ n.key = x.key /\ n.type = x.type /\ n.default = x.default /\ n.enum = x.enum
          /\ n.min = x.min /\ n.max = x.max
      BY <1>2
    <2>3. n.labels # Absent =>
              n.type = "enum" /\ n.labels # Bad /\ Len(n.labels) = Len(Given(n.enum))
      BY <1>2, <1>5, <2>2 DEF SettingKept
    <2> QED BY <2>1, <2>2, <2>3 DEF SettingKept, TypeOf, BoundsOk
  <1>9. n \in ConfigSetting /\ r \in ConfigSetting
    <2>1. /\ x.extra \in BOOLEAN /\ x.key \in Words /\ x.type \in Words
          /\ x.default \in ConfigValue /\ x.title \in Words /\ x.description \in Words
          /\ x.enum \in Maybe(Seq(Nat)) /\ x.min \in Maybe(Int) /\ x.max \in Maybe(Int)
      BY DEF ConfigSetting
    <2>2. /\ n.title \in Words /\ n.description \in Words /\ n.labels \in TextList
          /\ r.description \in Words /\ r.labels \in TextList
      BY <1>2, <1>3, <1>5, <2>1, TrimFacts, NormalizedFacts
    <2>3. n \in ConfigSetting
      BY <1>2, <2>1, <2>2 DEF ConfigSetting
    <2>4. r \in ConfigSetting
      BY <1>3, <2>1, <2>2 DEF ConfigSetting
    <2> QED BY <2>3, <2>4
  <1>10. ~SettingTrips(n)
    <2>1. /\ ~Trips(x.title) /\ ~Trips(x.description)
          /\ \A l \in Range(Given(x.labels)) : ~Trips(l)
      BY DEF SettingTrips
    <2> QED BY <1>2, <1>5, <2>1, TrimFacts, NormalizedFacts DEF SettingTrips
  <1>11. EntryKept(r, n)
    <2>1. ASSUME NEW f \in names PROVE FieldKept(f, r[f], n[f])
      <3>1. CASE f \in others
        <4>1. n[f] = r[f]
          BY <1>2, <1>3, <3>1
        <4> QED BY <4>1, ValueStays
      <3>2. CASE f \in {"title", "description"}
        <4>1. n[f] = Trim(r[f])
          BY <1>2, <1>3, <3>2, NormalizedFacts
        <4>2. ValueKept(f, r[f], n[f])
          BY <3>2, <4>1, TrimKept
        <4> QED BY <3>2, <4>2 DEF FieldKept
      <3>3. CASE f = "labels"
        BY <1>2, <1>3, <1>5, <3>3
      <3> QED BY <3>1, <3>2, <3>3
    <2> QED BY <1>2, <1>3, <2>1 DEF EntryKept
  <1>12. n.extra = x.extra
    BY <1>2
  <1> QED BY <1>7, <1>8, <1>9, <1>10, <1>11, <1>12 DEF n, r

LEMMA OverlaySettles ==
    ASSUME NEW x \in ContributedOverlay, OverlayKept(x)
    PROVE  LET n == Titled(x)
           IN n \in ContributedOverlay /\ n.extra = x.extra /\ OverlayKept(n) /\ Titled(n) = n
              /\ EntryKept(x, n)
  <1> DEFINE n == Titled(x)
  <1>1. DOMAIN x = {"extra", "id", "title", "scope", "capturesInput"}
    BY DEF ContributedOverlay
  <1>2. /\ DOMAIN n = DOMAIN x /\ n = [f \in DOMAIN x |-> n[f]]
        /\ \A f \in DOMAIN x : n[f] = IF f \in {"title"} THEN Trim(x[f]) ELSE x[f]
    BY DEF Titled, Trimmed
  <1>3. Titled(n) = n
    BY TrimmedAgain DEF Titled
  <1>9. EntryKept(x, n)
    BY TrimmedKept DEF Titled
  <1> HIDE DEF n
  <1>4. OverlayKept(n)
    BY <1>1, <1>2, TrimFacts DEF OverlayKept
  <1>5. n \in ContributedOverlay
    BY <1>1, <1>2, TrimFacts DEF ContributedOverlay
  <1> QED BY <1>1, <1>2, <1>3, <1>4, <1>5, <1>9 DEF n

LEMMA ActionSettles ==
    ASSUME NEW x \in ContributedHeaderAction, NEW commands, ActionKept(x, commands)
    PROVE  LET n == NormalAction(x)
           IN n \in ContributedHeaderAction /\ n.extra = x.extra /\ ActionKept(n, commands)
              /\ NormalAction(n) = n
              /\ EntryKept(x, n)
  <1> DEFINE n == NormalAction(x)
  <1>1. DOMAIN x = {"extra", "id", "title", "icon", "command"}
    BY DEF ContributedHeaderAction
  <1>2. /\ DOMAIN n = DOMAIN x /\ n = [f \in DOMAIN x |-> n[f]]
        /\ \A f \in DOMAIN x : n[f] = IF f \in {"title", "icon"} THEN Trim(x[f]) ELSE x[f]
    BY DEF NormalAction, Trimmed
  <1>3. NormalAction(n) = n
    BY TrimmedAgain DEF NormalAction
  <1>9. EntryKept(x, n)
    BY TrimmedKept DEF NormalAction
  <1> HIDE DEF n
  <1>4. ActionKept(n, commands)
    BY <1>1, <1>2, TrimFacts DEF ActionKept
  <1>5. n \in ContributedHeaderAction
    BY <1>1, <1>2, TrimFacts DEF ContributedHeaderAction
  <1> QED BY <1>1, <1>2, <1>3, <1>4, <1>5, <1>9 DEF n

LEMMA ItemSettles ==
    ASSUME NEW x \in ContributedStatusItem, NEW commands, ItemKept(x, commands)
    PROVE  LET n == Titled(x)
           IN n \in ContributedStatusItem /\ n.extra = x.extra /\ ItemKept(n, commands)
              /\ Titled(n) = n
              /\ EntryKept(x, n)
  <1> DEFINE n == Titled(x)
  <1>1. DOMAIN x = {"extra", "id", "title", "command"}
    BY DEF ContributedStatusItem
  <1>2. /\ DOMAIN n = DOMAIN x /\ n = [f \in DOMAIN x |-> n[f]]
        /\ \A f \in DOMAIN x : n[f] = IF f \in {"title"} THEN Trim(x[f]) ELSE x[f]
    BY DEF Titled, Trimmed
  <1>3. Titled(n) = n
    BY TrimmedAgain DEF Titled
  <1>9. EntryKept(x, n)
    BY TrimmedKept DEF Titled
  <1> HIDE DEF n
  <1>4. ItemKept(n, commands)
    BY <1>1, <1>2, TrimFacts DEF ItemKept
  <1>5. n \in ContributedStatusItem
    BY <1>1, <1>2, TrimFacts DEF ContributedStatusItem
  <1> QED BY <1>1, <1>2, <1>3, <1>4, <1>5, <1>9 DEF n

LEMMA IconSetSettles ==
    ASSUME NEW x \in ContributedIconSet, IconSetKept(x)
    PROVE  LET n == Titled(x)
           IN n \in ContributedIconSet /\ n.extra = x.extra /\ IconSetKept(n) /\ Titled(n) = n
              /\ EntryKept(x, n)
  <1> DEFINE n == Titled(x)
  <1>1. DOMAIN x = {"extra", "id", "title"}
    BY DEF ContributedIconSet
  <1>2. /\ DOMAIN n = DOMAIN x /\ n = [f \in DOMAIN x |-> n[f]]
        /\ \A f \in DOMAIN x : n[f] = IF f \in {"title"} THEN Trim(x[f]) ELSE x[f]
    BY DEF Titled, Trimmed
  <1>3. Titled(n) = n
    BY TrimmedAgain DEF Titled
  <1>9. EntryKept(x, n)
    BY TrimmedKept DEF Titled
  <1> HIDE DEF n
  <1>4. IconSetKept(n)
    BY <1>1, <1>2, TrimFacts DEF IconSetKept
  <1>5. n \in ContributedIconSet
    BY <1>1, <1>2, TrimFacts DEF ContributedIconSet
  <1> QED BY <1>1, <1>2, <1>3, <1>4, <1>5, <1>9 DEF n

LEMMA NodeSettles ==
    ASSUME NEW x \in ContributedNode, NodeKept(x)
    PROVE  LET n == NormalNode(x)
           IN n \in ContributedNode /\ n.extra = x.extra /\ NodeKept(n) /\ NormalNode(n) = n
              /\ EntryKept(x, n)
  <1> DEFINE n == NormalNode(x)
  <1>1. DOMAIN x = {"extra", "id", "description", "danger"}
    BY DEF ContributedNode
  <1>2. /\ DOMAIN n = DOMAIN x /\ n = [f \in DOMAIN x |-> n[f]]
        /\ \A f \in DOMAIN x : n[f] = IF f \in {"description"} THEN Trim(x[f]) ELSE x[f]
    BY DEF NormalNode, Trimmed
  <1>3. NormalNode(n) = n
    BY TrimmedAgain DEF NormalNode
  <1>9. EntryKept(x, n)
    BY TrimmedKept DEF NormalNode
  <1> HIDE DEF n
  <1>4. NodeKept(n)
    BY <1>1, <1>2, TrimFacts DEF NodeKept
  <1>5. n \in ContributedNode
    BY <1>1, <1>2, TrimFacts DEF ContributedNode
  <1> QED BY <1>1, <1>2, <1>3, <1>4, <1>5, <1>9 DEF n

LEMMA ScheduleSettles ==
    ASSUME NEW x \in ContributedSchedule, ScheduleKept(x)
    PROVE  LET n == NormalSchedule(x)
           IN n \in ContributedSchedule /\ n.extra = x.extra /\ ScheduleKept(n)
              /\ NormalSchedule(n) = n
              /\ ReadSchedule(x) \in ContributedSchedule /\ EntryKept(ReadSchedule(x), n)
  <1> DEFINE t == NormalTrigger(x.trigger)
             u == [x.trigger EXCEPT !.extra = FALSE]
             n == NormalSchedule(x)
             r == ReadSchedule(x)
             names == {"extra", "name", "command", "params", "trigger", "timeoutMs",
                       "zombieBackstopMs"}
  <1>0. DOMAIN x = names
    BY DEF ContributedSchedule
  <1>1. x.trigger \in ScheduleTrigger /\ TriggerOk(x.trigger)
    BY DEF ContributedSchedule, ScheduleKept, TriggerOk
  <1>2. /\ t = [extra |-> FALSE, variants |-> x.trigger.variants, value |-> Trim(x.trigger.value)]
        /\ u = [extra |-> FALSE, variants |-> x.trigger.variants, value |-> x.trigger.value]
        /\ x.trigger.variants \in SUBSET Words /\ x.trigger.value \in Words
    <2>1. ASSUME NEW o \in ScheduleTrigger
          PROVE  [o EXCEPT !.extra = FALSE] =
                     [extra |-> FALSE, variants |-> o.variants, value |-> o.value]
      <3> DEFINE v == [o EXCEPT !.extra = FALSE]
      <3>1. v \in ScheduleTrigger /\ v.extra = FALSE /\ v.variants = o.variants /\ v.value = o.value
        BY DEF ScheduleTrigger
      <3> HIDE DEF v
      <3>2. v = [extra |-> FALSE, variants |-> o.variants, value |-> o.value]
        BY <3>1 DEF ScheduleTrigger
      <3> QED BY <3>2 DEF v
    <2>2. x.trigger.variants \in SUBSET Words /\ x.trigger.value \in Words
      BY <1>1 DEF ScheduleTrigger
    <2>3. u = [extra |-> FALSE, variants |-> x.trigger.variants, value |-> x.trigger.value]
      BY <1>1, <2>1
    <2> QED BY <2>2, <2>3 DEF NormalTrigger
  <1>3. NormalTrigger(t) = t
    BY <1>2, TrimFacts DEF NormalTrigger
  <1> HIDE DEF t, u
  <1>4. t \in ScheduleTrigger /\ u \in ScheduleTrigger
    BY <1>2, TrimFacts DEF ScheduleTrigger
  <1>5. TriggerOk(t)
    <2>1. t # Bad
      BY <1>4, NotNothing DEF Parts
    <2>2. Trim("good") = "good"
      BY DEF Trim
    <2> QED BY <1>1, <1>2, <2>1, <2>2, TrimFacts DEF TriggerOk
  <1>6. n = [x EXCEPT !.trigger = t] /\ r = [x EXCEPT !.trigger = u]
    BY <1>0 DEF NormalSchedule, ReadSchedule, t, u
  <1>7. n.trigger = t /\ r.trigger = u /\ DOMAIN n = names /\ DOMAIN r = names
        /\ \A f \in names \ {"trigger"} : n[f] = x[f] /\ r[f] = x[f]
    BY <1>0, <1>6
  <1>8. n \in ContributedSchedule /\ ScheduleKept(n) /\ n.extra = x.extra
    BY <1>4, <1>5, <1>6 DEF ContributedSchedule, ScheduleKept
  <1>9. r \in ContributedSchedule
    BY <1>4, <1>6 DEF ContributedSchedule
  <1> HIDE DEF n, r
  <1>10. NormalSchedule(n) = n
    <2>1. NormalSchedule(n) = [n EXCEPT !.trigger = t]
      BY <1>3, <1>7 DEF NormalSchedule
    <2> QED BY <1>7, <1>8, <2>1 DEF ContributedSchedule
  <1>11. PartKept(u, t)
    <2>1. /\ DOMAIN t = {"extra", "variants", "value"} /\ DOMAIN u = {"extra", "variants", "value"}
          /\ t.extra = u.extra /\ t.variants = u.variants /\ t.value = Trim(u.value)
      BY <1>2
    <2>2. ValueKept("value", u.value, t.value)
      BY <2>1, TrimKept
    <2> QED BY <2>1, <2>2, ValueStays DEF PartKept
  <1>12. EntryKept(r, n)
    <2>1. FieldKept("trigger", u, t)
      BY <1>11 DEF FieldKept
    <2>2. \A f \in names \ {"trigger"} : FieldKept(f, r[f], n[f])
      BY <1>7, ValueStays
    <2> QED BY <1>7, <2>1, <2>2 DEF EntryKept
  <1> QED BY <1>8, <1>9, <1>10, <1>12 DEF n, r

LEMMA EnsureSettles ==
    ASSUME NEW e \in Ensure, EnsureOk(e)
    PROVE  LET n == Trimmed(e, {"bin", "install"})
           IN n \in Ensure /\ n.extra = e.extra /\ EnsureOk(n) /\ Trimmed(n, {"bin", "install"}) = n
              /\ PartKept(e, n)
  <1> DEFINE n == Trimmed(e, {"bin", "install"})
  <1>1. DOMAIN e = {"extra", "bin", "install"}
    BY DEF Ensure
  <1>2. /\ DOMAIN n = DOMAIN e /\ n = [f \in DOMAIN e |-> n[f]]
        /\ \A f \in DOMAIN e : n[f] = IF f \in {"bin", "install"} THEN Trim(e[f]) ELSE e[f]
    BY DEF Trimmed
  <1>3. Trimmed(n, {"bin", "install"}) = n
    BY TrimmedAgain
  <1>7. PartKept(e, n)
    BY TrimmedKept
  <1> HIDE DEF n
  <1>4. n \in Ensure
    BY <1>1, <1>2, TrimFacts DEF Ensure
  <1>5. e # Absent /\ n # Bad
    BY <1>4, NotNothing DEF Parts
  <1>6. EnsureOk(n)
    BY <1>1, <1>2, <1>5, TrimFacts DEF EnsureOk, PlatformMap
  <1> QED BY <1>1, <1>2, <1>3, <1>4, <1>6, <1>7 DEF n

LEMMA ProgramSettles ==
    ASSUME NEW x \in ContributedProgram, ~ProgramBlamed(x)
    PROVE  LET n == NormalProgram(x)
           IN n \in ContributedProgram /\ n.extra = x.extra /\ ProgramKept(n) /\ ~ProgramBlamed(n)
              /\ NormalProgram(n) = n /\ EntryKept(x, n)
  <1> DEFINE fields == {"title", "path", "view", "command"}
             normal(w) == IF w = Absent THEN w ELSE Trimmed(w, {"bin", "install"})
             t == Trimmed(x, fields)
             e == normal(x.ensure)
             n == NormalProgram(x)
  <1>1. /\ ProgramKept(x) /\ EnsureOk(x.ensure) /\ (x.ensure # Absent => ~x.ensure.extra)
        /\ x.ensure \in Maybe(Ensure)
    BY DEF ContributedProgram, ProgramBlamed, ProgramKept
  <1>2. /\ e = Absent \/ (e \in Ensure /\ e.extra = x.ensure.extra /\ x.ensure # Absent)
        /\ EnsureOk(e) /\ normal(e) = e /\ FieldKept("ensure", x.ensure, e)
    <2>1. CASE x.ensure = Absent
      BY <1>1, <2>1, ValueStays
    <2>2. CASE x.ensure # Absent
      <3>1. x.ensure \in Ensure
        BY <1>1, <2>2 DEF Maybe, EnsureOk
      <3>2. /\ e \in Ensure /\ e.extra = x.ensure.extra /\ EnsureOk(e)
            /\ Trimmed(e, {"bin", "install"}) = e /\ PartKept(x.ensure, e)
        BY <1>1, <2>2, <3>1, EnsureSettles
      <3>3. FieldKept("ensure", x.ensure, e)
        BY <3>2 DEF FieldKept
      <3> QED BY <2>2, <3>2, <3>3
    <2> QED BY <2>1, <2>2
  <1>3. DOMAIN x = {"extra", "id", "title", "kind", "path", "view", "viewPlugin", "viewContract",
                    "command", "ensure"}
    BY DEF ContributedProgram
  <1>4. /\ DOMAIN t = DOMAIN x /\ t = [f \in DOMAIN x |-> t[f]]
        /\ \A f \in DOMAIN x : t[f] = IF f \in fields THEN Trim(x[f]) ELSE x[f]
    BY DEF Trimmed
  <1>5. n = [t EXCEPT !.ensure = normal(@)]
    BY DEF NormalProgram
  <1> HIDE DEF t, e, n, normal
  <1>6. n = [t EXCEPT !.ensure = e]
    BY <1>3, <1>4, <1>5 DEF e
  <1>7. /\ DOMAIN n = DOMAIN x /\ n = [f \in DOMAIN x |-> n[f]] /\ n.ensure = e
        /\ \A f \in DOMAIN x \ {"ensure"} : n[f] = IF f \in fields THEN Trim(x[f]) ELSE x[f]
    BY <1>3, <1>4, <1>6
  <1>8. NormalProgram(n) = n
    <2>1. NormalProgram(n) = [Trimmed(n, fields) EXCEPT !.ensure = normal(@)]
      BY DEF NormalProgram, normal
    <2>2. \A f \in DOMAIN x \ {"ensure"} : f \in fields => Trim(n[f]) = n[f]
      BY <1>7, TrimFacts
    <2>3. Trimmed(n, fields) = n
      BY <1>7, <2>2 DEF Trimmed
    <2>4. normal(n.ensure) = n.ensure
      BY <1>2, <1>7
    <2> QED BY <1>3, <1>7, <2>1, <2>3, <2>4
  <1>9. n.extra = x.extra /\ ProgramKept(n)
    BY <1>1, <1>2, <1>3, <1>7, TrimFacts DEF ProgramKept, Optional
  <1>10. n \in ContributedProgram
    <2>1. e \in Maybe(Ensure)
      BY <1>2 DEF Maybe
    <2> QED BY <1>3, <1>7, <2>1, TrimFacts DEF ContributedProgram
  <1>11. ~ProgramBlamed(n)
    BY <1>1, <1>2, <1>7, <1>9 DEF ProgramBlamed
  <1>12. EntryKept(x, n)
    <2>1. EntryKept(x, t)
      BY TrimmedKept DEF t
    <2>2. \A f \in DOMAIN x \ {"ensure"} : n[f] = t[f]
      BY <1>4, <1>7
    <2>3. FieldKept("ensure", x.ensure, n.ensure)
      BY <1>2, <1>7
    <2> QED BY <1>7, <2>1, <2>2, <2>3 DEF EntryKept
  <1> QED BY <1>8, <1>9, <1>10, <1>11, <1>12 DEF n

LEMMA ViewSettles ==
    ASSUME NEW x \in ContributedView, ViewKept(x), ~ViewBlamed(x)
    PROVE  LET n == NormalView(x)
           IN n \in ContributedView /\ n.extra = x.extra /\ ViewKept(n) /\ ~ViewBlamed(n)
              /\ NormalView(n) = n /\ EntryKept(x, n)
  <1> DEFINE n == NormalView(x)
  <1>1. DOMAIN x = {"extra", "id", "title", "icon", "surfaces", "transparent", "nativeSurface",
                    "status"}
    BY DEF ContributedView
  <1>2. /\ DOMAIN n = DOMAIN x /\ n = [f \in DOMAIN x |-> n[f]]
        /\ \A f \in DOMAIN x :
              n[f] = IF f = "surfaces" /\ x[f] = Absent THEN <<"side">>
                     ELSE IF f \in {"transparent", "nativeSurface"} /\ x[f] # "true" THEN "false"
                     ELSE IF f \in {"title", "icon"} THEN Trim(x[f]) ELSE x[f]
    BY DEF NormalView
  <1>3. NormalView(n) = [f \in DOMAIN n |->
            IF f = "surfaces" /\ n[f] = Absent THEN <<"side">>
            ELSE IF f \in {"transparent", "nativeSurface"} /\ n[f] # "true" THEN "false"
            ELSE IF f \in {"title", "icon"} THEN Trim(n[f]) ELSE n[f]]
    BY DEF NormalView
  <1> HIDE DEF n
  <1>4. <<"side">> \in Seq(Words) /\ <<"side">> \notin {Absent, Bad}
    <2>1. <<"side">> \in Seq(Words)
      BY DEF Words
    <2>2. Words \in SUBSET Parts
      BY DEF Parts
    <2> QED BY <2>1, <2>2, ListOfParts
  <1>5. n.title = Trim(x.title) /\ n.icon = Trim(x.icon) /\ n.id = x.id /\ n.status = x.status
        /\ n.extra = x.extra
        /\ n.surfaces = (IF x.surfaces = Absent THEN <<"side">> ELSE x.surfaces)
        /\ n.transparent = (IF x.transparent # "true" THEN "false" ELSE "true")
        /\ n.nativeSurface = (IF x.nativeSurface # "true" THEN "false" ELSE "true")
    BY <1>1, <1>2
  <1>6. n.surfaces # Absent
    BY <1>4, <1>5
  <1>7. NormalView(n) = n
    <2>1. \A f \in DOMAIN x : n[f] =
            IF f = "surfaces" /\ n[f] = Absent THEN <<"side">>
            ELSE IF f \in {"transparent", "nativeSurface"} /\ n[f] # "true" THEN "false"
            ELSE IF f \in {"title", "icon"} THEN Trim(n[f]) ELSE n[f]
      BY <1>2, <1>5, <1>6, TrimFacts
    <2> QED BY <1>2, <1>3, <2>1
  <1>8. n \in ContributedView
    <2>1. /\ n.surfaces \in TextList /\ n.transparent \in Words /\ n.nativeSurface \in Words
      BY <1>4, <1>5 DEF ContributedView, TextList, Maybe, Words
    <2> HIDE DEF ContributedView
    <2>2. /\ x.extra \in BOOLEAN /\ x.id \in Words /\ x.title \in Words /\ x.icon \in Words
          /\ x.status \in TextList
      BY DEF ContributedView
    <2> QED BY <1>1, <1>2, <1>5, <2>1, <2>2, TrimFacts DEF ContributedView
  <1>9. ViewShaped(n)
    <2>1. "bad" \notin Range(<<"side">>) /\ ~Repeats(<<"side">>) /\ <<"side">> # <<>>
      BY DEF Range, Repeats, IsInjective
    <2>2. ViewShaped(x)
      BY DEF ViewKept
    <2> QED BY <1>4, <1>5, <2>1, <2>2 DEF ViewShaped, Flag
  <1>10. ViewKept(n)
    BY <1>5, <1>9, TrimFacts DEF ViewKept, ViewNamed
  <1>11. ~ViewBlamed(n)
    <2>1. ViewNamed(n) /\ Filled(n.icon)
      BY <1>10 DEF ViewKept
    <2>2. n.icon # "absent"
      BY <2>1 DEF Filled
    <2>3. ~Repeats(Given(x.status))
      BY DEF ViewBlamed, ViewKept
    <2> QED BY <1>5, <1>9, <2>1, <2>2, <2>3 DEF ViewBlamed
  <1>12. EntryKept(x, n)
    <2>1. ASSUME NEW f \in {"extra", "id", "status"} PROVE FieldKept(f, x[f], n[f])
      BY <1>5, <2>1, ValueStays
    <2>2. ASSUME NEW f \in {"title", "icon"} PROVE FieldKept(f, x[f], n[f])
      <3>1. ValueKept(f, x[f], n[f])
        BY <1>5, <2>2, TrimKept
      <3> QED BY <2>2, <3>1 DEF FieldKept
    <2>3. FieldKept("surfaces", x.surfaces, n.surfaces)
      BY <1>5 DEF FieldKept, ValueKept, Meant
    <2>4. ASSUME NEW f \in {"transparent", "nativeSurface"} PROVE FieldKept(f, x[f], n[f])
      <3>1. x[f] \in {"absent", "true", "false"}
        BY <2>4 DEF ViewKept, ViewShaped, Flag
      <3>2. n[f] = IF x[f] # "true" THEN "false" ELSE "true"
        BY <1>5, <2>4
      <3>3. ValueKept(f, x[f], n[f])
        BY <2>4, <3>1, <3>2 DEF ValueKept, Meant
      <3> QED BY <2>4, <3>3 DEF FieldKept
    <2> QED BY <1>1, <1>2, <2>1, <2>2, <2>3, <2>4 DEF EntryKept
  <1> QED BY <1>5, <1>7, <1>8, <1>10, <1>11, <1>12 DEF n

LEMMA ParamSettles ==
    ASSUME NEW p \in ServiceParamSpec, ParamOk(p)
    PROVE  LET n == NormalParam(p)
           IN n \in ServiceParamSpec /\ n.extra = p.extra /\ ParamOk(n) /\ NormalParam(n) = n
              /\ PartKept(p, n)
  <1> DEFINE n == NormalParam(p)
  <1>1. DOMAIN p = {"extra", "type", "description", "required", "enum"}
    BY DEF ServiceParamSpec
  <1>2. /\ DOMAIN n = DOMAIN p /\ n = [f \in DOMAIN p |-> n[f]]
        /\ \A f \in DOMAIN p : n[f] = IF f \in {"description", "enum"} THEN Trim(p[f]) ELSE p[f]
    BY DEF NormalParam, Trimmed
  <1>3. NormalParam(n) = n
    BY TrimmedAgain DEF NormalParam
  <1>9. PartKept(p, n)
    BY TrimmedKept DEF NormalParam
  <1> HIDE DEF n
  <1>4. n \in ServiceParamSpec
    BY <1>1, <1>2, TrimFacts DEF ServiceParamSpec
  <1>5. n # Bad
    BY <1>4, NotNothing DEF Parts
  <1>6. Trim("good") = "good" /\ Trim("absent") = "absent"
    BY DEF Trim
  <1>7. n.enum \in {"absent", "good", "padded"}
    BY <1>1, <1>2, TrimFacts, <1>6 DEF ParamOk, Trim
  <1>8. ParamOk(n)
    BY <1>1, <1>2, <1>5, <1>7, TrimFacts DEF ParamOk
  <1> QED BY <1>1, <1>2, <1>3, <1>4, <1>8, <1>9 DEF n

SettledParams == {p \in ServiceParamSpec : p.extra = FALSE /\ ParamOk(p) /\ NormalParam(p) = p}

LEMMA ParamsSettle ==
    ASSUME NEW list \in ListOf(ServiceParamSpec), list # Bad,
           \A p \in Range(Given(list)) : ParamOk(p) /\ ~p.extra
    PROVE  /\ NormalParams(list) \in Seq(SettledParams)
           /\ ListKept(Given(list), NormalParams(list))
  <1> DEFINE g == Given(list)
  <1>1. g \in Seq(ServiceParamSpec \cup {Bad}) /\ (g # <<>> => list = g)
    BY DEF ListOf, Maybe, Given
  <1>2. DOMAIN g = 1 .. Len(g) /\ Len(g) \in Nat
    BY <1>1, LenProperties
  <1>3. ASSUME NEW i \in 1 .. Len(g)
        PROVE  NormalParam(list[i]) \in SettledParams /\ PartKept(g[i], NormalParam(list[i]))
    <2>1. g[i] \in Range(g) /\ list = g
      BY <1>1, <1>2 DEF Range
    <2>2. g[i] \in ServiceParamSpec \cup {Bad}
      BY <1>1, ElementOfSeq
    <2>3. g[i] \in ServiceParamSpec /\ ParamOk(g[i]) /\ g[i].extra = FALSE
      BY <2>1, <2>2 DEF ParamOk, ServiceParamSpec
    <2> QED BY <2>1, <2>3, ParamSettles DEF SettledParams
  <1>4. NormalParams(list) = [i \in 1 .. Len(g) |-> NormalParam(list[i])]
    BY <1>2 DEF NormalParams
  <1> HIDE DEF g
  <1>5. NormalParams(list) \in Seq(SettledParams) /\ DOMAIN NormalParams(list) = 1 .. Len(g)
    BY <1>2, <1>3, <1>4
  <1>6. Len(NormalParams(list)) = Len(g)
    BY <1>2, <1>5, LenProperties
  <1>7. \A i \in 1 .. Len(g) : PartKept(g[i], NormalParams(list)[i])
    BY <1>3, <1>4
  <1>8. ListKept(g, NormalParams(list))
    BY <1>2, <1>6, <1>7 DEF ListKept
  <1> QED BY <1>5, <1>8 DEF g

LEMMA ParamsAgain ==
    ASSUME NEW q \in Seq(SettledParams)
    PROVE  /\ NormalParams(q) = q /\ q \notin {Absent, Bad} /\ Given(q) = q
           /\ Range(q) \subseteq SettledParams /\ q \in ListOf(ServiceParamSpec)
  <1>1. SettledParams \in SUBSET Parts
    BY DEF SettledParams, Parts
  <1>2. q \notin {Absent, Bad} /\ Given(q) = q /\ Range(q) \subseteq SettledParams
    BY <1>1, ListOfParts
  <1>3. \A i \in DOMAIN q : NormalParam(q[i]) = q[i]
    BY <1>2 DEF Range, SettledParams
  <1>4. NormalParams(q) = q
    BY <1>2, <1>3, LenProperties DEF NormalParams
  <1>5. q \in Seq(ServiceParamSpec \cup {Bad})
    <2>1. SettledParams \subseteq ServiceParamSpec \cup {Bad}
      BY DEF SettledParams
    <2> QED BY <2>1, SeqMonotonic
  <1> QED BY <1>2, <1>4, <1>5 DEF ListOf, Maybe

LEMMA CommandSettles ==
    ASSUME NEW x \in ContributedCommand, ~CommandBlamed(x)
    PROVE  LET n == NormalCommand(x)
           IN /\ n \in ContributedCommand /\ n.extra = x.extra /\ CommandKept(n)
              /\ ~CommandBlamed(n)
              /\ NormalCommand(n) = n /\ EntryKept(x, n)
  <1> DEFINE n == NormalCommand(x)
             texts == {"title", "description", "returns"}
  <1>1. DOMAIN x = {"extra", "name", "title", "danger", "bind", "description", "triggers", "params",
                    "returns"}
    BY DEF ContributedCommand
  <1>2. /\ CommandKept(x) /\ x.name \notin Restating /\ \A p \in Range(Given(x.params)) : ~p.extra
    BY DEF CommandBlamed
  <1>3. ASSUME x.bind = "absent"
        PROVE  n \in ContributedCommand /\ n.extra = x.extra /\ ~CommandBlamed(n)
               /\ NormalCommand(n) = n /\ EntryKept(x, n)
    <2>1. n = Trimmed(x, {"title"})
      BY <1>3 DEF NormalCommand
    <2>2. /\ DOMAIN n = DOMAIN x /\ n = [f \in DOMAIN x |-> n[f]]
          /\ \A f \in DOMAIN x : n[f] = IF f = "title" THEN Trim(x[f]) ELSE x[f]
      BY <2>1 DEF Trimmed
    <2>3. Trimmed(n, {"title"}) = n /\ EntryKept(x, n)
      BY <2>1, TrimmedAgain, TrimmedKept
    <2> HIDE DEF n
    <2>4. NormalCommand(n) = n
      BY <1>1, <1>3, <2>2, <2>3 DEF NormalCommand
    <2>5. CommandKept(n)
      BY <1>1, <1>2, <1>3, <2>2, TrimFacts DEF CommandKept, ServiceFieldsOk
    <2>6. ~CommandBlamed(n) /\ n.extra = x.extra
      BY <1>1, <1>2, <2>2, <2>5 DEF CommandBlamed
    <2>7. n \in ContributedCommand
      BY <1>1, <2>2, TrimFacts DEF ContributedCommand
    <2> QED BY <2>3, <2>4, <2>6, <2>7
  <1>4. ASSUME x.bind # "absent"
        PROVE  n \in ContributedCommand /\ n.extra = x.extra /\ ~CommandBlamed(n)
               /\ NormalCommand(n) = n /\ EntryKept(x, n)
    <2> DEFINE q == NormalParams(x.params)
    <2>1. n = [f \in DOMAIN x |->
                 IF f = "params" THEN NormalParams(x[f])
                 ELSE IF f = "returns" /\ x[f] = "absent" THEN "good"
                 ELSE IF f \in texts THEN Trim(x[f]) ELSE x[f]]
      BY <1>4 DEF NormalCommand, NormalServed
    <2>2. /\ x.bind = "service" /\ x.params \in ListOf(ServiceParamSpec) /\ x.params # Bad
          /\ \A p \in Range(Given(x.params)) : ParamOk(p) /\ ~p.extra
      BY <1>2, <1>4 DEF CommandKept, ServiceFieldsOk, ContributedCommand
    <2>3. q \in Seq(SettledParams) /\ ListKept(Given(x.params), q)
      BY <2>2, ParamsSettle
    <2>4. /\ NormalParams(q) = q /\ q \notin {Absent, Bad} /\ Given(q) = q
          /\ Range(q) \subseteq SettledParams /\ q \in ListOf(ServiceParamSpec)
      BY <2>3, ParamsAgain
    <2>5. /\ DOMAIN n = DOMAIN x /\ n = [f \in DOMAIN x |-> n[f]] /\ n.params = q
          /\ \A f \in DOMAIN x \ {"params"} :
                n[f] = IF f = "returns" /\ x[f] = "absent" THEN "good"
                       ELSE IF f \in texts THEN Trim(x[f]) ELSE x[f]
      BY <1>1, <2>1
    <2> HIDE DEF n, q
    <2>6. n.bind = "service" /\ n.extra = x.extra /\ n.name = x.name /\ n.danger = x.danger
          /\ n.triggers = x.triggers /\ n.title = Trim(x.title)
          /\ n.description = Trim(x.description)
          /\ n.returns = IF x.returns = "absent" THEN "good" ELSE Trim(x.returns)
      BY <1>1, <2>2, <2>5
    <2>7. Trim("good") = "good"
      BY DEF Trim
    <2>8. NormalCommand(n) = n
      <3>1. NormalCommand(n) = [f \in DOMAIN n |->
                 IF f = "params" THEN NormalParams(n[f])
                 ELSE IF f = "returns" /\ n[f] = "absent" THEN "good"
                 ELSE IF f \in texts THEN Trim(n[f]) ELSE n[f]]
        BY <2>6 DEF NormalCommand, NormalServed
      <3>2. Optional(x.returns)
        BY <1>2, <1>4 DEF CommandKept, ServiceFieldsOk
      <3>3. n.returns = "good"
        BY <2>6, <3>2 DEF Optional, Filled, Trim
      <3>4. \A f \in DOMAIN x : n[f] =
                 IF f = "params" THEN NormalParams(n[f])
                 ELSE IF f = "returns" /\ n[f] = "absent" THEN "good"
                 ELSE IF f \in texts THEN Trim(n[f]) ELSE n[f]
        BY <1>1, <2>4, <2>5, <2>6, <2>7, <3>3, TrimFacts
      <3> QED BY <2>5, <3>1, <3>4
    <2>9. CommandKept(n)
      <3>1. \A p \in Range(q) : ParamOk(p)
        BY <2>4 DEF SettledParams
      <3>2. Filled(x.description) /\ x.triggers \in {"absent", "good"} /\ Optional(x.returns)
        BY <1>2, <1>4 DEF CommandKept, ServiceFieldsOk
      <3>3. Optional(n.returns)
        BY <2>6, <3>2, TrimFacts DEF Optional, Filled
      <3>4. ServiceFieldsOk(n)
        BY <2>4, <2>5, <2>6, <3>1, <3>2, <3>3, TrimFacts DEF ServiceFieldsOk
      <3>5. LocalText(n.title)
        BY <1>2, <2>6, TrimFacts DEF CommandKept
      <3> QED BY <1>2, <2>6, <3>4, <3>5 DEF CommandKept
    <2>10. ~CommandBlamed(n)
      <3>1. \A p \in Range(Given(n.params)) : ~p.extra
        BY <2>4, <2>5 DEF SettledParams
      <3> QED BY <1>2, <2>6, <2>9, <3>1 DEF CommandBlamed
    <2>11. n \in ContributedCommand
      <3>1. n.returns \in Words /\ n.bind \in Words
        <4>1. x.returns \in Words /\ x.bind \in Words /\ n.bind = x.bind
          BY <2>2, <2>6 DEF ContributedCommand
        <4>2. "good" \in Words
          BY DEF Words
        <4> QED BY <2>6, <4>1, <4>2, TrimFacts
      <3>2. /\ x.extra \in BOOLEAN /\ x.name \in Words /\ x.title \in Words /\ x.danger \in Words
            /\ x.description \in Words /\ x.triggers \in Words
        BY DEF ContributedCommand
      <3> QED BY <1>1, <2>4, <2>5, <2>6, <3>1, <3>2, TrimFacts DEF ContributedCommand
    <2>12. EntryKept(x, n)
      <3>1. FieldKept("params", x.params, q)
        BY <2>3, <2>4 DEF FieldKept
      <3>2. ASSUME NEW f \in {"extra", "name", "danger", "bind", "triggers"}
            PROVE  FieldKept(f, x[f], n[f])
        BY <2>2, <2>6, <3>2, ValueStays
      <3>3. ASSUME NEW f \in {"title", "description"} PROVE FieldKept(f, x[f], n[f])
        <4>1. ValueKept(f, x[f], n[f])
          BY <2>6, <3>3, TrimKept
        <4> QED BY <3>3, <4>1 DEF FieldKept
      <3>4. FieldKept("returns", x.returns, n.returns)
        <4>1. ValueKept("returns", x.returns, n.returns)
          <5>1. CASE x.returns = "absent"
            BY <2>6, <5>1 DEF ValueKept, Meant
          <5>2. CASE x.returns # "absent"
            BY <2>6, <5>2, TrimKept
          <5> QED BY <5>1, <5>2
        <4> QED BY <4>1 DEF FieldKept
      <3> QED BY <1>1, <2>5, <3>1, <3>2, <3>3, <3>4 DEF EntryKept
    <2> QED BY <2>6, <2>8, <2>10, <2>11, <2>12
  <1>5. n \in ContributedCommand /\ n.extra = x.extra /\ ~CommandBlamed(n) /\ NormalCommand(n) = n
        /\ EntryKept(x, n)
    BY <1>3, <1>4
  <1> HIDE DEF n
  <1>6. CommandKept(n)
    BY <1>5 DEF CommandBlamed
  <1> QED BY <1>5, <1>6 DEF n

-----------------------------------------------------------------------------
(* Origins.                                                                *)

Written(list) == {o.origin : o \in Range(Given(list))}

InForm(n) == [origin |-> n, form |-> "canonical", safe |-> TRUE]

LEMMA InFormIs ==
    ASSUME NEW n \in Nat
    PROVE  InForm(n).origin = n /\ InForm(n).safe = TRUE /\ InForm(n) \in PluginRuntimeOrigin
  BY DEF InForm, PluginRuntimeOrigin

LEMMA WrittenIsFinite ==
    ASSUME NEW list \in Maybe(Seq(PluginRuntimeOrigin))
    PROVE  /\ Written(list) \in SUBSET Nat /\ IsFiniteSet(Written(list))
           /\ Range(Given(list)) \subseteq PluginRuntimeOrigin
  <1> DEFINE g == Given(list)
             h == [i \in DOMAIN g |-> g[i].origin]
  <1>1. g \in Seq(PluginRuntimeOrigin)
    BY DEF Maybe, Given
  <1> HIDE DEF g
  <1>2. Range(g) \subseteq PluginRuntimeOrigin
    BY <1>1, LenProperties, ElementOfSeq DEF Range
  <1>3. {o.origin : o \in Range(g)} \in SUBSET Nat
    BY <1>2 DEF PluginRuntimeOrigin
  <1>4. IsFiniteSet(DOMAIN g)
    BY <1>1, AllPlaces
  <1>5. h \in Surjection(DOMAIN g, {o.origin : o \in Range(g)})
    <2>1. \A i \in DOMAIN g : h[i] \in {o.origin : o \in Range(g)}
      BY DEF Range
    <2>2. \A t \in {o.origin : o \in Range(g)} : \E i \in DOMAIN g : h[i] = t
      BY DEF Range
    <2> QED BY <2>1, <2>2 DEF Surjection
  <1>6. IsFiniteSet({o.origin : o \in Range(g)})
    BY <1>4, <1>5, FS_Surjection
  <1> QED BY <1>2, <1>3, <1>6 DEF Written, g

LEMMA CanonicalIs ==
    ASSUME NEW list \in Maybe(Seq(PluginRuntimeOrigin)), OriginsOk(list)
    PROVE  Canonical(list) = At([n \in Written(list) |-> InForm(n)], Written(list))
  <1> DEFINE W == Range(Given(list))
             pick(n) == CHOOSE o \in W : o.origin = n
  <1>1. W \subseteq PluginRuntimeOrigin
    BY WrittenIsFinite
  <1>2. \A o \in W : o.safe
    BY DEF OriginsOk, Given, Range
  <1>3. ASSUME NEW n \in Written(list)
        PROVE  [pick(n) EXCEPT !.form = "canonical"] = InForm(n)
    <2>1. pick(n) \in W /\ pick(n).origin = n
      BY DEF Written
    <2> HIDE DEF W, pick
    <2>2. pick(n) \in PluginRuntimeOrigin /\ pick(n).safe = TRUE
      BY <1>1, <1>2, <2>1 DEF PluginRuntimeOrigin
    <2>3. ASSUME NEW o \in PluginRuntimeOrigin
          PROVE  [o EXCEPT !.form = "canonical"] =
                     [origin |-> o.origin, form |-> "canonical", safe |-> o.safe]
      BY DEF PluginRuntimeOrigin
    <2> QED BY <2>1, <2>2, <2>3 DEF InForm
  <1>4. Canonical(list) = At([n \in Written(list) |-> [pick(n) EXCEPT !.form = "canonical"]],
                             Written(list))
    BY DEF Canonical, Written
  <1> HIDE DEF W, pick
  <1>5. [n \in Written(list) |-> [pick(n) EXCEPT !.form = "canonical"]]
            = [n \in Written(list) |-> InForm(n)]
    BY <1>3
  <1> QED BY <1>4, <1>5

LEMMA CanonicalSettles ==
    ASSUME NEW list \in Maybe(Seq(PluginRuntimeOrigin)), OriginsOk(list)
    PROVE  LET q == Canonical(list)
           IN /\ q \in Seq(PluginRuntimeOrigin) /\ OriginsOk(q) /\ Canonical(q) = q
              /\ Origins(q) = Origins(list)
  <1> DEFINE q == Canonical(list)
             O == Written(list)
             f == [n \in O |-> InForm(n)]
  <1>1. O \in SUBSET Nat /\ IsFiniteSet(O)
    BY WrittenIsFinite
  <1>2. q = At(f, O)
    BY CanonicalIs
  <1>3. \A n \in O : /\ f[n] = InForm(n) /\ f[n] \in PluginRuntimeOrigin
                    /\ f[n].origin = n /\ f[n].safe = TRUE
    BY <1>1, InFormIs
  <1> HIDE DEF q, f, O
  <1>4. /\ q \in Seq(PluginRuntimeOrigin) /\ DOMAIN q = 1 .. Cardinality(O)
        /\ \A i \in 1 .. Cardinality(O) : Nth(O, i) \in O /\ q[i] = f[Nth(O, i)]
    BY <1>1, <1>2, <1>3, AtFacts
  <1>5. PluginRuntimeOrigin \in SUBSET Parts
    BY DEF Parts
  <1>6. q \notin {Absent, Bad} /\ Given(q) = q
    BY <1>4, <1>5, ListOfParts
  <1>7. \A i \in DOMAIN q : q[i].origin = Nth(O, i) /\ q[i].safe = TRUE
    BY <1>3, <1>4
  <1>8. ~Repeats([i \in DOMAIN q |-> q[i].origin])
    <2>1. ASSUME NEW i \in DOMAIN q, NEW k \in DOMAIN q, Nth(O, i) = Nth(O, k) PROVE i = k
      <3>1. /\ Cardinality({j \in O : j <= Nth(O, i)}) = i
            /\ Cardinality({j \in O : j <= Nth(O, k)}) = k
        BY <1>1, <1>4, NthFacts
      <3> QED BY <2>1, <3>1
    <2> QED BY <1>7, <2>1 DEF Repeats, IsInjective
  <1>9. OriginsOk(q)
    BY <1>6, <1>7, <1>8 DEF OriginsOk, Range
  <1>10. Written(q) = O
    <2>1. /\ \A x \in Range(q) : \E i \in O : x = f[i]
          /\ \A i \in O : f[i] \in Range(q)
      BY <1>1, <1>2, AtRange
    <2>2. \A i \in O : f[i].origin = i
      BY <1>3
    <2> QED BY <1>6, <2>1, <2>2 DEF Written
  <1>11. Canonical(q) = q
    <2>1. q \in Maybe(Seq(PluginRuntimeOrigin))
      BY <1>4 DEF Maybe
    <2>2. Canonical(q) = At([n \in Written(q) |-> InForm(n)], Written(q))
      BY <1>9, <2>1, CanonicalIs
    <2> QED BY <1>2, <1>10, <2>2 DEF f
  <1>12. Origins(q) = Origins(list)
    BY <1>10 DEF Origins, Written, O
  <1> QED BY <1>4, <1>9, <1>11, <1>12 DEF q

LEMMA NoOrigins == OriginsOk(<<>>) /\ Canonical(<<>>) = <<>>
  <1>1. <<>> \in Seq(Parts) /\ <<>> \in Seq(PluginRuntimeOrigin)
    OBVIOUS
  <1>2. <<>> \notin {Absent, Bad}
    BY <1>1, AbsenceAssumption
  <1>3. Range(<<>>) = {}
    BY DEF Range
  <1>4. OriginsOk(<<>>)
    BY <1>2, <1>3 DEF OriginsOk, Repeats, IsInjective
  <1>5. Written(<<>>) = {}
    BY <1>2, <1>3 DEF Written, Given
  <1>6. Canonical(<<>>) = At([n \in {} |-> InForm(n)], {})
    <2>1. <<>> \in Maybe(Seq(PluginRuntimeOrigin))
      BY <1>1 DEF Maybe
    <2> QED BY <1>4, <1>5, <2>1, CanonicalIs
  <1>7. Cardinality({}) = 0
    BY FS_EmptySet
  <1>8. At([n \in {} |-> InForm(n)], {}) = <<>>
    BY <1>7 DEF At
  <1> QED BY <1>4, <1>6, <1>8

LEMMA RuntimeSettles ==
    ASSUME NEW r \in Maybe(PluginRuntimePolicy), RuntimeOk(r)
    PROVE  LET n == NormalRuntime(r)
           IN /\ n \in PluginRuntimePolicy /\ RuntimeOk(n) /\ NormalRuntime(n) = n
              /\ PolicyKept(r, n)
  <1> DEFINE n == NormalRuntime(r)
             a == IF r = Absent THEN <<>> ELSE Canonical(r.navigation)
             b == IF r = Absent THEN <<>> ELSE Canonical(r.iframe)
             w == IF r # Absent /\ r.webRtc = "true" THEN "true" ELSE "false"
  <1>1. n = [extra |-> FALSE, navigation |-> a, iframe |-> b, webRtc |-> w]
    BY DEF NormalRuntime
  <1>2. /\ a \in Seq(PluginRuntimeOrigin) /\ OriginsOk(a) /\ Canonical(a) = a
        /\ b \in Seq(PluginRuntimeOrigin) /\ OriginsOk(b) /\ Canonical(b) = b
        /\ r # Absent => Origins(a) = Origins(r.navigation) /\ Origins(b) = Origins(r.iframe)
    <2>1. CASE r = Absent
      <3>1. <<>> \in Seq(PluginRuntimeOrigin)
        OBVIOUS
      <3> QED BY <2>1, <3>1, NoOrigins
    <2>2. CASE r # Absent
      <3>1. r \in PluginRuntimePolicy /\ OriginsOk(r.navigation) /\ OriginsOk(r.iframe)
        BY <2>2 DEF RuntimeOk, Maybe
      <3>2. r.navigation \in Maybe(Seq(PluginRuntimeOrigin))
              /\ r.iframe \in Maybe(Seq(PluginRuntimeOrigin))
        BY <3>1 DEF PluginRuntimePolicy
      <3> QED BY <2>2, <3>1, <3>2, CanonicalSettles
    <2> QED BY <2>1, <2>2
  <1>3. w \in {"true", "false"} /\ w \in Words
    BY DEF Words
  <1>8. PolicyKept(r, n)
    <2>1. n.navigation = a /\ n.iframe = b /\ n.webRtc = w
      BY <1>1
    <2>2. CASE r = Absent
      BY <2>1, <2>2 DEF PolicyKept
    <2>3. CASE r # Absent
      <3>1. r.webRtc \in {"absent", "true", "false"}
        BY <2>3 DEF RuntimeOk, Flag
      <3>2. ValueKept("webRtc", r.webRtc, w)
        BY <2>3, <3>1 DEF ValueKept, Meant
      <3> QED BY <1>2, <2>1, <2>3, <3>2 DEF PolicyKept
    <2> QED BY <2>2, <2>3
  <1> HIDE DEF n, a, b, w
  <1>4. n \in PluginRuntimePolicy
    BY <1>1, <1>2, <1>3 DEF PluginRuntimePolicy, Maybe
  <1>5. n # Absent /\ n # Bad
    BY <1>4, NotNothing DEF Parts
  <1>6. RuntimeOk(n)
    BY <1>1, <1>2, <1>3, <1>5 DEF RuntimeOk, Flag
  <1>7. NormalRuntime(n) = n
    <2>1. NormalRuntime(n) = [extra |-> FALSE, navigation |-> Canonical(n.navigation),
                              iframe |-> Canonical(n.iframe),
                              webRtc |-> IF n.webRtc = "true" THEN "true" ELSE "false"]
      BY <1>5, <1>6 DEF NormalRuntime
    <2>2. n.navigation = a /\ n.iframe = b /\ n.webRtc = w
      BY <1>1
    <2> QED BY <1>1, <1>2, <1>3, <2>1, <2>2
  <1> QED BY <1>4, <1>6, <1>7, <1>8 DEF n

-----------------------------------------------------------------------------
(* The fields of a manifest.                                               *)

LEMMA Fields ==
    DOMAIN PluginManifest =
        {"extra", "id", "name", "version", "description", "author", "renamedFrom",
         "appVersionRequirement", "requiresEngine", "requiresNativeChildWebview",
         "requiresEngineModules", "template", "entry", "runtime", "runtimeDependencies",
         "libraries", "service", "implements", "consumes", "configuration", "permissions",
         "views", "commands", "overlays", "headerActions", "statusItems", "iconSets",
         "fileViewers", "nodes", "programs", "events", "skill", "schedules"}
  BY DEF PluginManifest

Untouched == {"extra", "id", "version", "renamedFrom", "appVersionRequirement", "requiresEngine"}

LEMMA ManifestFunction ==
    ASSUME NEW doc, DOMAIN doc = DOMAIN PluginManifest
    PROVE  /\ DOMAIN Manifest(doc) = DOMAIN PluginManifest
           /\ Manifest(doc) = [f \in DOMAIN PluginManifest |-> Manifest(doc)[f]]
  BY Fields DEF Manifest

LEMMA ManifestUntouched ==
    ASSUME NEW doc, DOMAIN doc = DOMAIN PluginManifest
    PROVE  \A f \in Untouched : Manifest(doc)[f] = doc[f]
  BY Fields DEF Manifest, Untouched

LEMMA ManifestFields ==
    ASSUME NEW doc, DOMAIN doc = DOMAIN PluginManifest
    PROVE  LET m == Manifest(doc) IN
           /\ m.name = Trim(doc.name)
           /\ m.description = Trim(doc.description)
           /\ m.author = Trim(doc.author)
           /\ m.entry = NormalEntry(doc.entry)
           /\ m.runtime = NormalRuntime(doc.runtime)
           /\ m.requiresNativeChildWebview = OnlyTrue(doc.requiresNativeChildWebview)
           /\ m.requiresEngineModules = OnlyTrue(doc.requiresEngineModules)
           /\ m.template = OnlyTrue(doc.template)
           /\ m.runtimeDependencies = Dependencies(doc)
           /\ m.libraries = OrAbsent(Libraries(doc.libraries))
           /\ m.service = Service(doc)
           /\ m.implements = OrAbsent(Provided(doc.implements).list)
           /\ m.consumes = OrAbsent(Required(doc.consumes).list)
           /\ m.configuration = OrAbsent(Configuration(doc.configuration))
           /\ m.permissions = Known(doc.permissions)
           /\ m.views = Views(doc.views)
           /\ m.commands = Commands(doc.commands)
           /\ m.overlays = Overlays(doc.overlays)
           /\ m.headerActions = HeaderActions(doc.headerActions, m.commands)
           /\ m.statusItems = StatusItems(doc.statusItems, m.commands)
           /\ m.iconSets = IconSets(doc.iconSets)
           /\ m.fileViewers = FileViewers(doc.fileViewers)
           /\ m.nodes = Nodes(doc.nodes)
           /\ m.programs = Programs(doc.programs)
           /\ m.events = Given(doc.events)
           /\ m.skill = NormalSkill(doc.skill)
           /\ m.schedules = OrAbsent(Schedules(doc.schedules))
  <1> DEFINE m == Manifest(doc)
  <1>1. /\ m.name = Trim(doc.name)
        /\ m.description = Trim(doc.description)
        /\ m.author = Trim(doc.author)
        /\ m.entry = NormalEntry(doc.entry)
        /\ m.runtime = NormalRuntime(doc.runtime)
        /\ m.requiresNativeChildWebview = OnlyTrue(doc.requiresNativeChildWebview)
        /\ m.requiresEngineModules = OnlyTrue(doc.requiresEngineModules)
        /\ m.template = OnlyTrue(doc.template)
        /\ m.runtimeDependencies = Dependencies(doc)
    BY Fields DEF Manifest
  <1>2. /\ m.libraries = OrAbsent(Libraries(doc.libraries))
        /\ m.service = Service(doc)
        /\ m.implements = OrAbsent(Provided(doc.implements).list)
        /\ m.consumes = OrAbsent(Required(doc.consumes).list)
        /\ m.configuration = OrAbsent(Configuration(doc.configuration))
        /\ m.permissions = Known(doc.permissions)
        /\ m.views = Views(doc.views)
        /\ m.commands = Commands(doc.commands)
        /\ m.overlays = Overlays(doc.overlays)
    BY Fields DEF Manifest
  <1>3. /\ m.headerActions = HeaderActions(doc.headerActions, m.commands)
        /\ m.statusItems = StatusItems(doc.statusItems, m.commands)
        /\ m.iconSets = IconSets(doc.iconSets)
        /\ m.fileViewers = FileViewers(doc.fileViewers)
        /\ m.nodes = Nodes(doc.nodes)
        /\ m.programs = Programs(doc.programs)
        /\ m.events = Given(doc.events)
        /\ m.skill = NormalSkill(doc.skill)
        /\ m.schedules = OrAbsent(Schedules(doc.schedules))
    BY Fields DEF Manifest
  <1> HIDE DEF m
  <1> QED BY <1>1, <1>2, <1>3 DEF m

-----------------------------------------------------------------------------
(* The sections of an accepted document.                                   *)

LEMMA EntriesOf ==
    ASSUME NEW T, NEW list \in ListOf(T), ~Malformed(list)
    PROVE  /\ Given(list) \in Seq(T \cup {Bad})
           /\ \A x \in Entries(list) : x \in T /\ ~x.extra
           /\ \A i \in DOMAIN Given(list) : Given(list)[i] \in Entries(list)
  <1> DEFINE g == Given(list)
  <1>1. g \in Seq(T \cup {Bad})
    BY DEF ListOf, Maybe, Given, Malformed
  <1>2. Bad \notin Range(g) /\ \A x \in Entries(list) : ~x.extra
    BY DEF Malformed
  <1> HIDE DEF g
  <1>3. Range(g) \subseteq T \cup {Bad}
    BY <1>1, LenProperties, ElementOfSeq DEF Range
  <1>4. Entries(list) = Range(g)
    BY <1>2 DEF Entries, g
  <1>5. \A i \in DOMAIN g : g[i] \in Range(g)
    BY DEF Range
  <1> QED BY <1>1, <1>2, <1>3, <1>4, <1>5 DEF g

\* Where every entry is kept, the section is the normal form of every place.
LEMMA SectionSettles ==
    ASSUME NEW T, NEW list \in ListOf(T), ~Malformed(list), NEW S, NEW normal,
           DOMAIN normal = Entries(list), \A x \in Entries(list) : normal[x] \in S
    PROVE  /\ Section(list, normal) \in Seq(S)
           /\ Len(Section(list, normal)) = Len(Given(list))
           /\ \A i \in DOMAIN Given(list) :
                 Section(list, normal)[i] = normal[Given(list)[i]]
  <1> DEFINE g == Given(list)
             f == [i \in DOMAIN g |-> normal[g[i]]]
  <1>1. g \in Seq(T \cup {Bad}) /\ \A i \in DOMAIN g : g[i] \in Entries(list)
    BY EntriesOf
  <1>2. {i \in DOMAIN g : g[i] \in DOMAIN normal} = DOMAIN g
    BY <1>1
  <1>3. Section(list, normal) = At(f, DOMAIN g)
    BY <1>2 DEF Section
  <1> HIDE DEF g
  <1>4. DOMAIN g = 1 .. Len(g) /\ Len(g) \in Nat
    BY <1>1, LenProperties
  <1>5. f \in Seq(S) /\ Len(f) = Len(g) /\ DOMAIN f = DOMAIN g
    <2>1. f = [i \in 1 .. Len(g) |-> normal[g[i]]]
      BY <1>4
    <2>2. f \in Seq(S)
      BY <1>1, <1>4, <2>1
    <2> QED BY <1>4, <2>1, <2>2, LenProperties
  <1>6. \A i \in DOMAIN g : f[i] = normal[g[i]]
    OBVIOUS
  <1> HIDE DEF f
  <1>7. At(f, DOMAIN g) = f
    BY <1>5, AllPlaces
  <1> QED BY <1>3, <1>5, <1>6, <1>7 DEF g

\* A list is kept where each of its entries, as it is read, is.
LEMMA SectionKept ==
    ASSUME NEW T, NEW list \in ListOf(T), ~Malformed(list), NEW S, NEW normal,
           DOMAIN normal = Entries(list), \A x \in Entries(list) : normal[x] \in S,
           NEW read, \A x \in Entries(list) : EntryKept(read[x], normal[x])
    PROVE  EachKept([i \in DOMAIN Given(list) |-> read[Given(list)[i]]], Section(list, normal))
  <1>0. /\ Section(list, normal) \in Seq(S) /\ Len(Section(list, normal)) = Len(Given(list))
        /\ \A i \in DOMAIN Given(list) : Section(list, normal)[i] = normal[Given(list)[i]]
    BY SectionSettles
  <1> DEFINE g == Given(list)
             w == [i \in DOMAIN g |-> read[g[i]]]
             q == Section(list, normal)
  <1>1. Len(q) = Len(g) /\ \A i \in DOMAIN g : q[i] = normal[g[i]]
    BY <1>0
  <1>2. g \in Seq(T \cup {Bad}) /\ \A i \in DOMAIN g : g[i] \in Entries(list)
    BY EntriesOf
  <1>3. \A i \in DOMAIN g : w[i] = read[g[i]]
    OBVIOUS
  <1>4. DOMAIN w = DOMAIN g
    OBVIOUS
  <1>5. Len(w) = Len(g)
    <2> HIDE DEF g
    <2>1. DOMAIN g = 1 .. Len(g) /\ Len(g) \in Nat
      BY <1>2, LenProperties
    <2>2. w = [i \in 1 .. Len(g) |-> read[g[i]]]
      BY <2>1
    <2>3. w \in Seq({read[x] : x \in Range(g)})
      BY <2>1, <2>2 DEF Range
    <2> HIDE DEF w
    <2> QED BY <2>1, <2>2, <2>3, LenProperties
  <1> HIDE DEF g, w, q
  <1>6. \A i \in DOMAIN w : EntryKept(w[i], q[i])
    BY <1>1, <1>2, <1>3, <1>4
  <1>7. EachKept(w, q)
    BY <1>1, <1>5, <1>6 DEF EachKept
  <1> QED BY <1>7 DEF g, w, q

LEMMA SectionKeptAsItIs ==
    ASSUME NEW T, NEW list \in ListOf(T), ~Malformed(list), NEW S, NEW normal,
           DOMAIN normal = Entries(list),
           \A x \in Entries(list) : normal[x] \in S /\ EntryKept(x, normal[x])
    PROVE  EachKept(Given(list), Section(list, normal))
  <1> DEFINE g == Given(list)
             read == [x \in Entries(list) |-> x]
  <1>1. g \in Seq(T \cup {Bad}) /\ \A i \in DOMAIN g : g[i] \in Entries(list)
    BY EntriesOf
  <1>2. g = [i \in DOMAIN g |-> read[g[i]]]
    <2>1. g = [i \in DOMAIN g |-> g[i]]
      <3> HIDE DEF g
      <3> QED BY <1>1, LenProperties
    <2> QED BY <1>1, <2>1
  <1>3. \A x \in Entries(list) : EntryKept(read[x], normal[x])
    OBVIOUS
  <1> HIDE DEF read
  <1>4. EachKept([i \in DOMAIN g |-> read[g[i]]], Section(list, normal))
    BY <1>3, SectionKept
  <1> QED BY <1>2, <1>4

SettledLibraries ==
    {x \in LibraryDep : x.extra = FALSE /\ LibraryKept(x) /\ NormalLibrary(x) = x
         /\ ~Trips(x.label)}

LEMMA LibrariesSettle ==
    ASSUME NEW list \in ListOf(LibraryDep), ~Malformed(list),
           \A x \in Entries(list) : LibraryKept(x) /\ ~Trips(x.label)
    PROVE  LET q == Libraries(list)
           IN /\ q \in Seq(SettledLibraries) /\ EachKept(Given(list), q)
              /\ Libraries(q) = q /\ Libraries(OrAbsent(q)) = q
  <1> DEFINE q == Libraries(list)
  <1>1. \A x \in Entries(list) : x \in LibraryDep /\ ~x.extra
    BY EntriesOf
  <1>2. \A x \in Entries(list) : x.extra = FALSE
    BY <1>1 DEF LibraryDep
  <1>3. \A x \in Entries(list) : NormalLibrary(x) \in SettledLibraries /\ LibraryKept(x)
    BY <1>1, <1>2, LibrarySettles DEF SettledLibraries
  <1>8. \A x \in Entries(list) : EntryKept(x, NormalLibrary(x))
    BY <1>1, LibrarySettles
  <1>4. q \in Seq(SettledLibraries) /\ EachKept(Given(list), q)
    BY <1>3, <1>8, SectionSettles, SectionKeptAsItIs DEF Libraries
  <1>5. SettledLibraries \in SUBSET Parts
    BY DEF SettledLibraries, Parts
  <1> HIDE DEF q
  <1>6. /\ Entries(q) = Range(q) /\ Entries(OrAbsent(q)) = Range(q)
        /\ \A x \in Range(q) : LibraryKept(x) /\ NormalLibrary(x) = x
    BY <1>4, <1>5, ListOfParts DEF SettledLibraries
  <1>7. Libraries(q) = q /\ Libraries(OrAbsent(q)) = q
    BY <1>4, <1>5, <1>6, SectionAgain DEF Libraries
  <1> QED BY <1>4, <1>7 DEF q

SettledSettings ==
    {x \in ConfigSetting : x.extra = FALSE /\ SettingKept(x) /\ NormalSetting(x) = x
         /\ ~SettingTrips(x)}

SettingsRead(list) == [i \in DOMAIN Given(list) |-> ReadSetting(Given(list)[i])]

LEMMA ConfigurationSettles ==
    ASSUME NEW list \in ListOf(ConfigSetting), ~Malformed(list),
           \A x \in Entries(list) : SettingKept(x) /\ ~SettingTrips(x)
    PROVE  LET q == Configuration(list)
           IN /\ q \in Seq(SettledSettings) /\ EachKept(Given(SettingsRead(list)), q)
              /\ Configuration(q) = q /\ Configuration(OrAbsent(q)) = q
  <1> DEFINE q == Configuration(list)
  <1>1. \A x \in Entries(list) : x \in ConfigSetting /\ ~x.extra
    BY EntriesOf
  <1>2. \A x \in Entries(list) : x.extra = FALSE
    BY <1>1 DEF ConfigSetting
  <1>3. \A x \in Entries(list) : NormalSetting(x) \in SettledSettings /\ SettingKept(x)
    BY <1>1, <1>2, SettingSettles DEF SettledSettings
  <1>4. q \in Seq(SettledSettings)
    BY <1>3, SectionSettles DEF Configuration
  <1>8. EachKept(SettingsRead(list), q)
    <2> DEFINE read == [x \in Entries(list) |-> ReadSetting(x)]
               normal == [x \in {y \in Entries(list) : SettingKept(y)} |-> NormalSetting(x)]
    <2>1. \A x \in Entries(list) : EntryKept(ReadSetting(x), NormalSetting(x))
      BY <1>1, SettingSettles
    <2>2. DOMAIN normal = Entries(list) /\ \A x \in Entries(list) : normal[x] \in SettledSettings
      BY <1>3
    <2>3. \A x \in Entries(list) : EntryKept(read[x], normal[x])
      BY <1>3, <2>1
    <2>4. q = Section(list, normal)
      BY DEF Configuration
    <2>5. SettingsRead(list) = [i \in DOMAIN Given(list) |-> read[Given(list)[i]]]
      BY EntriesOf DEF SettingsRead
    <2> HIDE DEF q, read, normal
    <2> QED BY <2>2, <2>3, <2>4, <2>5, SectionKept
  <1>9. Given(SettingsRead(list)) = SettingsRead(list)
    <2>1. /\ Given(list) \in Seq(ConfigSetting \cup {Bad})
          /\ \A i \in DOMAIN Given(list) : Given(list)[i] \in Entries(list)
      BY EntriesOf
    <2>2. DOMAIN Given(list) = 1 .. Len(Given(list)) /\ Len(Given(list)) \in Nat
      BY <2>1, LenProperties
    <2>3. \A x \in Entries(list) : ReadSetting(x) \in ConfigSetting
      BY <1>1, SettingSettles
    <2>4. SettingsRead(list) \in Seq(ConfigSetting)
      BY <2>1, <2>2, <2>3 DEF SettingsRead
    <2>5. ConfigSetting \in SUBSET Parts
      BY DEF Parts
    <2> QED BY <2>4, <2>5, ListOfParts
  <1>5. SettledSettings \in SUBSET Parts
    BY DEF SettledSettings, Parts
  <1> HIDE DEF q
  <1>6. /\ Entries(q) = Range(q) /\ Entries(OrAbsent(q)) = Range(q)
        /\ \A x \in Range(q) : SettingKept(x) /\ NormalSetting(x) = x
    BY <1>4, <1>5, ListOfParts DEF SettledSettings
  <1>7. Configuration(q) = q /\ Configuration(OrAbsent(q)) = q
    BY <1>4, <1>5, <1>6, SectionAgain DEF Configuration
  <1> QED BY <1>4, <1>7, <1>8, <1>9 DEF q

SettledCommands ==
    {x \in ContributedCommand : x.extra = FALSE /\ CommandKept(x) /\ NormalCommand(x) = x
         /\ ~CommandBlamed(x)}

LEMMA CommandsSettle ==
    ASSUME NEW list \in ListOf(ContributedCommand), ~Malformed(list),
           \A x \in Entries(list) : ~CommandBlamed(x)
    PROVE  LET q == Commands(list)
           IN /\ q \in Seq(SettledCommands) /\ EachKept(Given(list), q)
              /\ Commands(q) = q /\ Commands(OrAbsent(q)) = q
  <1> DEFINE q == Commands(list)
  <1>1. \A x \in Entries(list) : x \in ContributedCommand /\ ~x.extra
    BY EntriesOf
  <1>2. \A x \in Entries(list) : x.extra = FALSE
    BY <1>1 DEF ContributedCommand
  <1>3. \A x \in Entries(list) : NormalCommand(x) \in SettledCommands /\ CommandKept(x)
    BY <1>1, <1>2, CommandSettles DEF SettledCommands, CommandBlamed
  <1>8. \A x \in Entries(list) : EntryKept(x, NormalCommand(x))
    BY <1>1, CommandSettles
  <1>4. q \in Seq(SettledCommands) /\ EachKept(Given(list), q)
    BY <1>3, <1>8, SectionSettles, SectionKeptAsItIs DEF Commands
  <1>5. SettledCommands \in SUBSET Parts
    BY DEF SettledCommands, Parts
  <1> HIDE DEF q
  <1>6. /\ Entries(q) = Range(q) /\ Entries(OrAbsent(q)) = Range(q)
        /\ \A x \in Range(q) : CommandKept(x) /\ NormalCommand(x) = x
    BY <1>4, <1>5, ListOfParts DEF SettledCommands
  <1>7. Commands(q) = q /\ Commands(OrAbsent(q)) = q
    BY <1>4, <1>5, <1>6, SectionAgain DEF Commands
  <1> QED BY <1>4, <1>7 DEF q

SettledOverlays ==
    {x \in ContributedOverlay : x.extra = FALSE /\ OverlayKept(x) /\ Titled(x) = x}

LEMMA OverlaysSettle ==
    ASSUME NEW list \in ListOf(ContributedOverlay), ~Malformed(list),
           \A x \in Entries(list) : OverlayKept(x)
    PROVE  LET q == Overlays(list)
           IN /\ q \in Seq(SettledOverlays) /\ EachKept(Given(list), q)
              /\ Overlays(q) = q /\ Overlays(OrAbsent(q)) = q
  <1> DEFINE q == Overlays(list)
  <1>1. \A x \in Entries(list) : x \in ContributedOverlay /\ ~x.extra
    BY EntriesOf
  <1>2. \A x \in Entries(list) : x.extra = FALSE
    BY <1>1 DEF ContributedOverlay
  <1>3. \A x \in Entries(list) : Titled(x) \in SettledOverlays /\ OverlayKept(x)
    BY <1>1, <1>2, OverlaySettles DEF SettledOverlays
  <1>8. \A x \in Entries(list) : EntryKept(x, Titled(x))
    BY <1>1, OverlaySettles
  <1>4. q \in Seq(SettledOverlays) /\ EachKept(Given(list), q)
    BY <1>3, <1>8, SectionSettles, SectionKeptAsItIs DEF Overlays
  <1>5. SettledOverlays \in SUBSET Parts
    BY DEF SettledOverlays, Parts
  <1> HIDE DEF q
  <1>6. /\ Entries(q) = Range(q) /\ Entries(OrAbsent(q)) = Range(q)
        /\ \A x \in Range(q) : OverlayKept(x) /\ Titled(x) = x
    BY <1>4, <1>5, ListOfParts DEF SettledOverlays
  <1>7. Overlays(q) = q /\ Overlays(OrAbsent(q)) = q
    BY <1>4, <1>5, <1>6, SectionAgain DEF Overlays
  <1> QED BY <1>4, <1>7 DEF q

SettledActions(commands) ==
    {x \in ContributedHeaderAction : x.extra = FALSE /\ ActionKept(x, commands)
         /\ NormalAction(x) = x}

LEMMA HeaderActionsSettle ==
    ASSUME NEW list \in ListOf(ContributedHeaderAction), ~Malformed(list), NEW commands,
           \A x \in Entries(list) : ActionKept(x, commands)
    PROVE  LET q == HeaderActions(list, commands)
           IN /\ q \in Seq(SettledActions(commands)) /\ EachKept(Given(list), q)
              /\ HeaderActions(q, commands) = q /\ HeaderActions(OrAbsent(q), commands) = q
  <1> DEFINE q == HeaderActions(list, commands)
  <1>1. \A x \in Entries(list) : x \in ContributedHeaderAction /\ ~x.extra
    BY EntriesOf
  <1>2. \A x \in Entries(list) : x.extra = FALSE
    BY <1>1 DEF ContributedHeaderAction
  <1>3. \A x \in Entries(list) : NormalAction(x) \in SettledActions(commands)
          /\ ActionKept(x, commands)
    BY <1>1, <1>2, ActionSettles DEF SettledActions
  <1>8. \A x \in Entries(list) : EntryKept(x, NormalAction(x))
    BY <1>1, ActionSettles
  <1>4. q \in Seq(SettledActions(commands)) /\ EachKept(Given(list), q)
    BY <1>3, <1>8, SectionSettles, SectionKeptAsItIs DEF HeaderActions
  <1>5. SettledActions(commands) \in SUBSET Parts
    BY DEF SettledActions, Parts
  <1> HIDE DEF q
  <1>6. /\ Entries(q) = Range(q) /\ Entries(OrAbsent(q)) = Range(q)
        /\ \A x \in Range(q) : ActionKept(x, commands) /\ NormalAction(x) = x
    BY <1>4, <1>5, ListOfParts DEF SettledActions
  <1>7. HeaderActions(q, commands) = q /\ HeaderActions(OrAbsent(q), commands) = q
    BY <1>4, <1>5, <1>6, SectionAgain DEF HeaderActions
  <1> QED BY <1>4, <1>7 DEF q

SettledItems(commands) ==
    {x \in ContributedStatusItem : x.extra = FALSE /\ ItemKept(x, commands) /\ Titled(x) = x}

LEMMA StatusItemsSettle ==
    ASSUME NEW list \in ListOf(ContributedStatusItem), ~Malformed(list), NEW commands,
           \A x \in Entries(list) : ItemKept(x, commands)
    PROVE  LET q == StatusItems(list, commands)
           IN /\ q \in Seq(SettledItems(commands)) /\ EachKept(Given(list), q)
              /\ StatusItems(q, commands) = q /\ StatusItems(OrAbsent(q), commands) = q
  <1> DEFINE q == StatusItems(list, commands)
  <1>1. \A x \in Entries(list) : x \in ContributedStatusItem /\ ~x.extra
    BY EntriesOf
  <1>2. \A x \in Entries(list) : x.extra = FALSE
    BY <1>1 DEF ContributedStatusItem
  <1>3. \A x \in Entries(list) : Titled(x) \in SettledItems(commands) /\ ItemKept(x, commands)
    BY <1>1, <1>2, ItemSettles DEF SettledItems
  <1>8. \A x \in Entries(list) : EntryKept(x, Titled(x))
    BY <1>1, ItemSettles
  <1>4. q \in Seq(SettledItems(commands)) /\ EachKept(Given(list), q)
    BY <1>3, <1>8, SectionSettles, SectionKeptAsItIs DEF StatusItems
  <1>5. SettledItems(commands) \in SUBSET Parts
    BY DEF SettledItems, Parts
  <1> HIDE DEF q
  <1>6. /\ Entries(q) = Range(q) /\ Entries(OrAbsent(q)) = Range(q)
        /\ \A x \in Range(q) : ItemKept(x, commands) /\ Titled(x) = x
    BY <1>4, <1>5, ListOfParts DEF SettledItems
  <1>7. StatusItems(q, commands) = q /\ StatusItems(OrAbsent(q), commands) = q
    BY <1>4, <1>5, <1>6, SectionAgain DEF StatusItems
  <1> QED BY <1>4, <1>7 DEF q

SettledIconSets ==
    {x \in ContributedIconSet : x.extra = FALSE /\ IconSetKept(x) /\ Titled(x) = x}

LEMMA IconSetsSettle ==
    ASSUME NEW list \in ListOf(ContributedIconSet), ~Malformed(list),
           \A x \in Entries(list) : IconSetKept(x)
    PROVE  LET q == IconSets(list)
           IN /\ q \in Seq(SettledIconSets) /\ EachKept(Given(list), q)
              /\ IconSets(q) = q /\ IconSets(OrAbsent(q)) = q
  <1> DEFINE q == IconSets(list)
  <1>1. \A x \in Entries(list) : x \in ContributedIconSet /\ ~x.extra
    BY EntriesOf
  <1>2. \A x \in Entries(list) : x.extra = FALSE
    BY <1>1 DEF ContributedIconSet
  <1>3. \A x \in Entries(list) : Titled(x) \in SettledIconSets /\ IconSetKept(x)
    BY <1>1, <1>2, IconSetSettles DEF SettledIconSets
  <1>8. \A x \in Entries(list) : EntryKept(x, Titled(x))
    BY <1>1, IconSetSettles
  <1>4. q \in Seq(SettledIconSets) /\ EachKept(Given(list), q)
    BY <1>3, <1>8, SectionSettles, SectionKeptAsItIs DEF IconSets
  <1>5. SettledIconSets \in SUBSET Parts
    BY DEF SettledIconSets, Parts
  <1> HIDE DEF q
  <1>6. /\ Entries(q) = Range(q) /\ Entries(OrAbsent(q)) = Range(q)
        /\ \A x \in Range(q) : IconSetKept(x) /\ Titled(x) = x
    BY <1>4, <1>5, ListOfParts DEF SettledIconSets
  <1>7. IconSets(q) = q /\ IconSets(OrAbsent(q)) = q
    BY <1>4, <1>5, <1>6, SectionAgain DEF IconSets
  <1> QED BY <1>4, <1>7 DEF q

SettledFileViewers ==
    {x \in ContributedFileViewer : x.extra = FALSE /\ FileViewerKept(x) /\ x = x}

LEMMA FileViewersSettle ==
    ASSUME NEW list \in ListOf(ContributedFileViewer), ~Malformed(list),
           \A x \in Entries(list) : FileViewerKept(x)
    PROVE  LET q == FileViewers(list)
           IN /\ q \in Seq(SettledFileViewers) /\ EachKept(Given(list), q)
              /\ FileViewers(q) = q /\ FileViewers(OrAbsent(q)) = q
  <1> DEFINE q == FileViewers(list)
  <1>1. \A x \in Entries(list) : x \in ContributedFileViewer /\ ~x.extra
    BY EntriesOf
  <1>2. \A x \in Entries(list) : x.extra = FALSE
    BY <1>1 DEF ContributedFileViewer
  <1>3. \A x \in Entries(list) : x \in SettledFileViewers /\ FileViewerKept(x)
    BY <1>1, <1>2 DEF SettledFileViewers
  <1>8. \A x \in Entries(list) : EntryKept(x, x)
    BY ValueStays DEF EntryKept
  <1>4. q \in Seq(SettledFileViewers) /\ EachKept(Given(list), q)
    BY <1>3, <1>8, SectionSettles, SectionKeptAsItIs DEF FileViewers
  <1>5. SettledFileViewers \in SUBSET Parts
    BY DEF SettledFileViewers, Parts
  <1> HIDE DEF q
  <1>6. /\ Entries(q) = Range(q) /\ Entries(OrAbsent(q)) = Range(q)
        /\ \A x \in Range(q) : FileViewerKept(x) /\ x = x
    BY <1>4, <1>5, ListOfParts DEF SettledFileViewers
  <1>7. FileViewers(q) = q /\ FileViewers(OrAbsent(q)) = q
    BY <1>4, <1>5, <1>6, SectionAgain DEF FileViewers
  <1> QED BY <1>4, <1>7 DEF q

SettledNodes ==
    {x \in ContributedNode : x.extra = FALSE /\ NodeKept(x) /\ NormalNode(x) = x}

LEMMA NodesSettle ==
    ASSUME NEW list \in ListOf(ContributedNode), ~Malformed(list),
           \A x \in Entries(list) : NodeKept(x)
    PROVE  LET q == Nodes(list)
           IN /\ q \in Seq(SettledNodes) /\ EachKept(Given(list), q)
              /\ Nodes(q) = q /\ Nodes(OrAbsent(q)) = q
  <1> DEFINE q == Nodes(list)
  <1>1. \A x \in Entries(list) : x \in ContributedNode /\ ~x.extra
    BY EntriesOf
  <1>2. \A x \in Entries(list) : x.extra = FALSE
    BY <1>1 DEF ContributedNode
  <1>3. \A x \in Entries(list) : NormalNode(x) \in SettledNodes /\ NodeKept(x)
    BY <1>1, <1>2, NodeSettles DEF SettledNodes
  <1>8. \A x \in Entries(list) : EntryKept(x, NormalNode(x))
    BY <1>1, NodeSettles
  <1>4. q \in Seq(SettledNodes) /\ EachKept(Given(list), q)
    BY <1>3, <1>8, SectionSettles, SectionKeptAsItIs DEF Nodes
  <1>5. SettledNodes \in SUBSET Parts
    BY DEF SettledNodes, Parts
  <1> HIDE DEF q
  <1>6. /\ Entries(q) = Range(q) /\ Entries(OrAbsent(q)) = Range(q)
        /\ \A x \in Range(q) : NodeKept(x) /\ NormalNode(x) = x
    BY <1>4, <1>5, ListOfParts DEF SettledNodes
  <1>7. Nodes(q) = q /\ Nodes(OrAbsent(q)) = q
    BY <1>4, <1>5, <1>6, SectionAgain DEF Nodes
  <1> QED BY <1>4, <1>7 DEF q

SettledPrograms ==
    {x \in ContributedProgram : x.extra = FALSE /\ ProgramKept(x) /\ NormalProgram(x) = x
         /\ ~ProgramBlamed(x)}

LEMMA ProgramsSettle ==
    ASSUME NEW list \in ListOf(ContributedProgram), ~Malformed(list),
           \A x \in Entries(list) : ~ProgramBlamed(x)
    PROVE  LET q == Programs(list)
           IN /\ q \in Seq(SettledPrograms) /\ EachKept(Given(list), q)
              /\ Programs(q) = q /\ Programs(OrAbsent(q)) = q
  <1> DEFINE q == Programs(list)
  <1>1. \A x \in Entries(list) : x \in ContributedProgram /\ ~x.extra
    BY EntriesOf
  <1>2. \A x \in Entries(list) : x.extra = FALSE
    BY <1>1 DEF ContributedProgram
  <1>3. \A x \in Entries(list) : NormalProgram(x) \in SettledPrograms /\ ProgramKept(x)
    BY <1>1, <1>2, ProgramSettles DEF SettledPrograms, ProgramBlamed
  <1>8. \A x \in Entries(list) : EntryKept(x, NormalProgram(x))
    BY <1>1, ProgramSettles
  <1>4. q \in Seq(SettledPrograms) /\ EachKept(Given(list), q)
    BY <1>3, <1>8, SectionSettles, SectionKeptAsItIs DEF Programs
  <1>5. SettledPrograms \in SUBSET Parts
    BY DEF SettledPrograms, Parts
  <1> HIDE DEF q
  <1>6. /\ Entries(q) = Range(q) /\ Entries(OrAbsent(q)) = Range(q)
        /\ \A x \in Range(q) : ProgramKept(x) /\ NormalProgram(x) = x
    BY <1>4, <1>5, ListOfParts DEF SettledPrograms
  <1>7. Programs(q) = q /\ Programs(OrAbsent(q)) = q
    BY <1>4, <1>5, <1>6, SectionAgain DEF Programs
  <1> QED BY <1>4, <1>7 DEF q

SettledSchedules ==
    {x \in ContributedSchedule : x.extra = FALSE /\ ScheduleKept(x) /\ NormalSchedule(x) = x}

SchedulesRead(list) == [i \in DOMAIN Given(list) |-> ReadSchedule(Given(list)[i])]

LEMMA SchedulesSettle ==
    ASSUME NEW list \in ListOf(ContributedSchedule), ~Malformed(list),
           \A x \in Entries(list) : ScheduleKept(x)
    PROVE  LET q == Schedules(list)
           IN /\ q \in Seq(SettledSchedules) /\ EachKept(Given(SchedulesRead(list)), q)
              /\ Schedules(q) = q /\ Schedules(OrAbsent(q)) = q
  <1> DEFINE q == Schedules(list)
  <1>1. \A x \in Entries(list) : x \in ContributedSchedule /\ ~x.extra
    BY EntriesOf
  <1>2. \A x \in Entries(list) : x.extra = FALSE
    BY <1>1 DEF ContributedSchedule
  <1>3. \A x \in Entries(list) : NormalSchedule(x) \in SettledSchedules /\ ScheduleKept(x)
    BY <1>1, <1>2, ScheduleSettles DEF SettledSchedules
  <1>4. q \in Seq(SettledSchedules)
    BY <1>3, SectionSettles DEF Schedules
  <1>8. EachKept(SchedulesRead(list), q)
    <2> DEFINE read == [x \in Entries(list) |-> ReadSchedule(x)]
               normal == [x \in {y \in Entries(list) : ScheduleKept(y)} |-> NormalSchedule(x)]
    <2>1. \A x \in Entries(list) : EntryKept(ReadSchedule(x), NormalSchedule(x))
      BY <1>1, ScheduleSettles
    <2>2. DOMAIN normal = Entries(list) /\ \A x \in Entries(list) : normal[x] \in SettledSchedules
      BY <1>3
    <2>3. \A x \in Entries(list) : EntryKept(read[x], normal[x])
      BY <1>3, <2>1
    <2>4. q = Section(list, normal)
      BY DEF Schedules
    <2>5. SchedulesRead(list) = [i \in DOMAIN Given(list) |-> read[Given(list)[i]]]
      BY EntriesOf DEF SchedulesRead
    <2> HIDE DEF q, read, normal
    <2> QED BY <2>2, <2>3, <2>4, <2>5, SectionKept
  <1>9. Given(SchedulesRead(list)) = SchedulesRead(list)
    <2>1. /\ Given(list) \in Seq(ContributedSchedule \cup {Bad})
          /\ \A i \in DOMAIN Given(list) : Given(list)[i] \in Entries(list)
      BY EntriesOf
    <2>2. DOMAIN Given(list) = 1 .. Len(Given(list)) /\ Len(Given(list)) \in Nat
      BY <2>1, LenProperties
    <2>3. \A x \in Entries(list) : ReadSchedule(x) \in ContributedSchedule
      BY <1>1, ScheduleSettles
    <2>4. SchedulesRead(list) \in Seq(ContributedSchedule)
      BY <2>1, <2>2, <2>3 DEF SchedulesRead
    <2>5. ContributedSchedule \in SUBSET Parts
      BY DEF Parts
    <2> QED BY <2>4, <2>5, ListOfParts
  <1>5. SettledSchedules \in SUBSET Parts
    BY DEF SettledSchedules, Parts
  <1> HIDE DEF q
  <1>6. /\ Entries(q) = Range(q) /\ Entries(OrAbsent(q)) = Range(q)
        /\ \A x \in Range(q) : ScheduleKept(x) /\ NormalSchedule(x) = x
    BY <1>4, <1>5, ListOfParts DEF SettledSchedules
  <1>7. Schedules(q) = q /\ Schedules(OrAbsent(q)) = q
    BY <1>4, <1>5, <1>6, SectionAgain DEF Schedules
  <1> QED BY <1>4, <1>7, <1>8, <1>9 DEF q

SettledViews ==
    {x \in ContributedView : x.extra = FALSE /\ ViewKept(x) /\ NormalView(x) = x /\ ~ViewBlamed(x)}

\* The views with a blank icon are the ones that are passed over.
LEMMA ViewsSettle ==
    ASSUME NEW list \in ListOf(ContributedView), ~Malformed(list),
           \A x \in Entries(list) : ~ViewBlamed(x)
    PROVE  LET q == Views(list)
           IN /\ q \in Seq(SettledViews) /\ EachKept(Given(ReadViews(Given(list))), q)
              /\ Views(q) = q /\ Views(OrAbsent(q)) = q
  <1> DEFINE g == Given(list)
             q == Views(list)
             normal == [x \in {y \in Entries(list) : ViewKept(y)} |-> NormalView(x)]
  <1>1. /\ g \in Seq(ContributedView \cup {Bad})
        /\ \A x \in Entries(list) : x \in ContributedView /\ ~x.extra
        /\ \A i \in DOMAIN g : g[i] \in Entries(list)
    BY EntriesOf
  <1>2. ASSUME NEW x \in Entries(list), ViewKept(x) PROVE NormalView(x) \in SettledViews
    <2>1. x \in ContributedView /\ ~x.extra /\ ~ViewBlamed(x)
      BY <1>1
    <2>2. x.extra = FALSE
      BY <2>1 DEF ContributedView
    <2> QED BY <1>2, <2>1, <2>2, ViewSettles DEF SettledViews
  <1>3. \A x \in DOMAIN normal : normal[x] \in SettledViews
    BY <1>2
  <1>4. \A x \in Entries(list) : ViewKept(x) <=> ~BlankIcon(x)
    <2>1. \A x \in Entries(list) : ViewNamed(x) /\ x.icon # "absent"
            /\ (Filled(x.icon) => ViewShaped(x))
      BY DEF ViewBlamed
    <2> QED BY <2>1 DEF ViewKept, BlankIcon
  <1>5. q = Section(list, normal)
    BY DEF Views
  <1>6. {i \in DOMAIN g : g[i] \in DOMAIN normal} = {i \in DOMAIN g : ~BlankIcon(g[i])}
    BY <1>1, <1>4
  <1> DEFINE places == {i \in DOMAIN g : ~BlankIcon(g[i])}
             f == [i \in places |-> normal[g[i]]]
             w == ReadViews(g)
  <1>13. q = At(f, places) /\ w = At(g, places)
    BY <1>5, <1>6 DEF Section, ReadViews
  <1>14. /\ \A i \in places : /\ g[i] \in ContributedView /\ f[i] \in SettledViews
                             /\ EntryKept(g[i], f[i])
         /\ places \in SUBSET Nat /\ IsFiniteSet(places)
    <2>1. ASSUME NEW i \in places
          PROVE  g[i] \in ContributedView /\ f[i] \in SettledViews /\ EntryKept(g[i], f[i])
      <3>1. g[i] \in Entries(list) /\ ViewKept(g[i]) /\ f[i] = NormalView(g[i])
        BY <1>1, <1>4
      <3>2. g[i] \in ContributedView /\ ~ViewBlamed(g[i])
        BY <1>1, <3>1
      <3>3. EntryKept(g[i], NormalView(g[i]))
        BY <3>1, <3>2, ViewSettles
      <3> QED BY <1>2, <3>1, <3>2, <3>3
    <2>2. places \in SUBSET Nat /\ IsFiniteSet(places)
      <3>1. places \in SUBSET DOMAIN g
        OBVIOUS
      <3> QED BY <1>1, <3>1, SomePlaces
    <2> QED BY <2>1, <2>2
  <1> HIDE DEF normal, q, f, places, w
  <1>7. q \in Seq(SettledViews)
    BY <1>13, <1>14, AtFacts
  <1>15. w \in Seq(ContributedView)
    BY <1>13, <1>14, AtFacts
  <1>16. EachKept(Given(w), q)
    <2>1. ContributedView \in SUBSET Parts
      BY DEF Parts
    <2>2. Given(w) = w
      BY <1>15, <2>1, ListOfParts
    <2>3. /\ Len(q) = Cardinality(places)
          /\ \A n \in 1 .. Cardinality(places) :
                Nth(places, n) \in places /\ q[n] = f[Nth(places, n)]
      BY <1>13, <1>14, AtFacts
    <2>4. /\ Len(w) = Cardinality(places) /\ DOMAIN w = 1 .. Cardinality(places)
          /\ \A n \in 1 .. Cardinality(places) : w[n] = g[Nth(places, n)]
      BY <1>13, <1>14, AtFacts
    <2>5. \A n \in DOMAIN w : EntryKept(w[n], q[n])
      BY <1>14, <2>3, <2>4
    <2> QED BY <2>2, <2>3, <2>4, <2>5 DEF EachKept
  <1>8. SettledViews \in SUBSET Parts
    BY DEF SettledViews, Parts
  <1> DEFINE again == [x \in {y \in Range(q) : ViewKept(y)} |-> NormalView(x)]
  <1>9. \A x \in Range(q) : x \in DOMAIN again /\ again[x] = x
    <2>1. Range(q) \subseteq SettledViews
      BY <1>7, <1>8, ListOfParts
    <2> QED BY <2>1 DEF SettledViews
  <1>10. Section(q, again) = q /\ Section(OrAbsent(q), again) = q
    <2> HIDE DEF again
    <2> QED BY <1>7, <1>8, <1>9, SectionAgain
  <1>11. Entries(q) = Range(q) /\ Entries(OrAbsent(q)) = Range(q)
    BY <1>7, <1>8, ListOfParts
  <1>12. Views(q) = Section(q, again) /\ Views(OrAbsent(q)) = Section(OrAbsent(q), again)
    BY <1>11 DEF Views
  <1> HIDE DEF again
  <1> QED BY <1>7, <1>10, <1>12, <1>16 DEF q, w

-----------------------------------------------------------------------------
(* Contracts, permissions, events.                                         *)

\* A list of references that is not blamed is kept as it was written.
LEMMA ContractsSettle ==
    ASSUME NEW T \in SUBSET Parts, NEW list \in ListOf(T), NEW ok, Bad \notin ok,
           ~Contracts(list, ok).blamed
    PROVE  LET q == Contracts(list, ok).list
           IN /\ q = Given(list) /\ q \in Seq(T) /\ list # Bad
              /\ Entries(q) = Entries(list) /\ Entries(OrAbsent(q)) = Entries(list)
              /\ Contracts(OrAbsent(q), ok) = Contracts(list, ok)
  <1> DEFINE g == Given(list)
             kept == {i \in DOMAIN g :
                         g[i] \in ok /\ \A j \in 1 .. i - 1 : g[j] \in ok => g[j].id # g[i].id}
  <1>1. list # Bad /\ kept = DOMAIN g
    BY DEF Contracts
  <1>2. g \in Seq(T \cup {Bad})
    BY <1>1 DEF ListOf, Maybe, Given
  <1>3. Contracts(list, ok).list = At(g, kept)
    BY DEF Contracts
  <1>4. \A i \in DOMAIN g : g[i] # Bad
    BY <1>1
  <1> HIDE DEF kept
  <1>5. At(g, kept) = g
    <2> HIDE DEF g
    <2> QED BY <1>1, <1>2, AllPlaces
  <1>6. g \in Seq(T)
    <2>1. DOMAIN g = 1 .. Len(g) /\ Len(g) \in Nat /\ g = [i \in 1 .. Len(g) |-> g[i]]
      <3> HIDE DEF g
      <3> QED BY <1>2, LenProperties
    <2>2. \A i \in 1 .. Len(g) : g[i] \in T
      <3> HIDE DEF g
      <3> QED BY <1>2, <1>4, <2>1, ElementOfSeq
    <2> HIDE DEF g
    <2> QED BY <2>1, <2>2
  <1>7. Given(OrAbsent(g)) = g /\ OrAbsent(g) # Bad /\ Given(g) = g
    <2> HIDE DEF g
    <2> QED BY <1>6, ListOfParts
  <1>8. Contracts(OrAbsent(g), ok) = Contracts(list, ok)
    BY <1>1, <1>7 DEF Contracts
  <1>9. Entries(g) = Entries(list) /\ Entries(OrAbsent(g)) = Entries(list)
    BY <1>7 DEF Entries
  <1> QED BY <1>1, <1>3, <1>5, <1>6, <1>8, <1>9

LEMMA ProvidedSettles ==
    ASSUME NEW list \in ListOf(ContractProviderRef), ~Provided(list).blamed
    PROVE  LET q == Provided(list).list
           IN /\ Given(OrAbsent(q)) = q /\ q = Given(list)
              /\ ~Provided(OrAbsent(q)).blamed /\ Provided(OrAbsent(q)).list = q
  <1> DEFINE ok == {r \in Entries(list) : Provider(r)}
             q == Contracts(list, ok).list
  <1>1. ContractProviderRef \in SUBSET Parts
    BY DEF Parts
  <1>2. Bad \notin ok /\ ~Contracts(list, ok).blamed /\ Provided(list) = Contracts(list, ok)
    BY DEF Entries, Provided
  <1> HIDE DEF ok
  <1>3. /\ q = Given(list) /\ q \in Seq(ContractProviderRef) /\ Entries(OrAbsent(q)) = Entries(list)
        /\ Contracts(OrAbsent(q), ok) = Contracts(list, ok)
    BY <1>1, <1>2, ContractsSettle
  <1> HIDE DEF q
  <1>4. Provided(OrAbsent(q)) = Contracts(OrAbsent(q), ok)
    BY <1>3 DEF Provided, ok
  <1>5. Given(OrAbsent(q)) = q
    BY <1>1, <1>3, ListOfParts
  <1>6. Provided(OrAbsent(q)) = Provided(list)
    BY <1>2, <1>3, <1>4
  <1> QED BY <1>2, <1>3, <1>5, <1>6 DEF q

LEMMA RequiredSettles ==
    ASSUME NEW list \in ListOf(ContractRequirement), ~Required(list).blamed
    PROVE  LET q == Required(list).list
           IN /\ Given(OrAbsent(q)) = q /\ q = Given(list)
              /\ ~Required(OrAbsent(q)).blamed /\ Required(OrAbsent(q)).list = q
  <1> DEFINE ok == {r \in Entries(list) : Requirement(r)}
             q == Contracts(list, ok).list
  <1>1. ContractRequirement \in SUBSET Parts
    BY DEF Parts
  <1>2. Bad \notin ok /\ ~Contracts(list, ok).blamed /\ Required(list) = Contracts(list, ok)
    BY DEF Entries, Required
  <1> HIDE DEF ok
  <1>3. /\ q = Given(list) /\ q \in Seq(ContractRequirement) /\ Entries(OrAbsent(q)) = Entries(list)
        /\ Contracts(OrAbsent(q), ok) = Contracts(list, ok)
    BY <1>1, <1>2, ContractsSettle
  <1> HIDE DEF q
  <1>4. Required(OrAbsent(q)) = Contracts(OrAbsent(q), ok)
    BY <1>3 DEF Required, ok
  <1>5. Given(OrAbsent(q)) = q
    BY <1>1, <1>3, ListOfParts
  <1>6. Required(OrAbsent(q)) = Required(list)
    BY <1>2, <1>3, <1>4
  <1> QED BY <1>2, <1>3, <1>5, <1>6 DEF q

LEMMA TextsOf ==
    ASSUME NEW list \in TextList, list # Bad
    PROVE  LET q == Given(list) IN q \in Seq(Words) /\ Given(q) = q /\ q \notin {Absent, Bad}
  <1>1. Words \in SUBSET Parts
    BY DEF Parts
  <1>2. Given(list) \in Seq(Words)
    BY DEF TextList, Maybe, Given
  <1> QED BY <1>1, <1>2, ListOfParts

LEMMA PermissionsSettle ==
    ASSUME NEW list \in TextList, ~PermissionsBlamed(list)
    PROVE  Known(list) = list /\ Given(list) = list /\ list \in Seq(Words)
  <1>1. list \notin {Absent, Bad} /\ "bad" \notin Range(list)
    BY DEF PermissionsBlamed
  <1>2. Given(list) = list /\ list \in Seq(Words)
    BY <1>1, TextsOf DEF Given
  <1>3. {i \in DOMAIN list : list[i] # "bad"} = DOMAIN list
    BY <1>1 DEF Range
  <1> QED BY <1>2, <1>3, AllPlaces DEF Known

-----------------------------------------------------------------------------
(* Fields of their own.                                                    *)

LEMMA ServiceSettles ==
    ASSUME NEW doc, doc.service \in Maybe(ServiceDecl), ~ServiceBlamed(doc.service),
           NEW m, m.service = Service(doc)
    PROVE  /\ Service(m) = m.service /\ ~ServiceBlamed(m.service)
           /\ m.service = Absent <=> doc.service = Absent
           /\ doc.service # Absent => PartKept(doc.service, m.service)
  <1> DEFINE s == doc.service
             t == m.service
  <1>1. CASE s = Absent
    <2>1. t = Absent
      BY <1>1 DEF Service
    <2>2. Service(m) = Absent
      BY <2>1 DEF Service
    <2> QED BY <1>1, <2>1, <2>2 DEF ServiceBlamed
  <1>2. CASE s # Absent
    <2>1. /\ s \in ServiceDecl /\ ServiceOk(s) /\ s.extra = FALSE /\ ~Repeats(Given(s.subscribe))
          /\ t = [s EXCEPT !.subscribe = Given(s.subscribe)]
      BY <1>2 DEF ServiceBlamed, ServiceOk, Service, Maybe, ServiceDecl
    <2> DEFINE q == Given(s.subscribe)
    <2>2. q \in Seq(Words) /\ Given(q) = q /\ q \notin {Absent, Bad}
      <3>1. s.subscribe \in TextList /\ s.subscribe # Bad
        BY <2>1 DEF ServiceOk, ServiceDecl
      <3> QED BY <3>1, TextsOf
    <2> HIDE DEF s, t, q
    <2>3. /\ t.subscribe = q /\ t.interface = s.interface /\ t.extra = s.extra
          /\ t = [f \in {"extra", "interface", "subscribe"} |-> t[f]]
      BY <2>1 DEF ServiceDecl, q
    <2>4. t \in ServiceDecl
      <3>1. q \in TextList
        BY <2>2 DEF TextList, Maybe
      <3>2. s.interface \in {Bad} \cup ContractRequirement /\ s.extra \in BOOLEAN
        BY <2>1 DEF ServiceDecl
      <3> QED BY <2>3, <3>1, <3>2 DEF ServiceDecl
    <2>5. t # Absent /\ t # Bad
      BY <2>4, NotNothing DEF Parts
    <2>6. ServiceOk(t)
      BY <2>1, <2>2, <2>3, <2>5 DEF ServiceOk, q
    <2>7. Service(m) = [t EXCEPT !.subscribe = Given(t.subscribe)]
      BY <2>5, <2>6 DEF Service, t
    <2>8. Service(m) = t
      BY <2>2, <2>3, <2>4, <2>7 DEF ServiceDecl
    <2>9. ~ServiceBlamed(t)
      BY <2>1, <2>2, <2>3, <2>6 DEF ServiceBlamed, q
    <2>10. PartKept(s, t)
      <3>1. ValueKept("subscribe", s.subscribe, q)
        <4>1. q = IF s.subscribe \in {Absent, Bad} THEN <<>> ELSE s.subscribe
          BY DEF q, Given
        <4>2. s.subscribe # Bad
          BY <2>1 DEF ServiceOk
        <4> QED BY <4>1, <4>2 DEF ValueKept, Meant
      <3>2. /\ DOMAIN t = {"extra", "interface", "subscribe"}
            /\ DOMAIN s = {"extra", "interface", "subscribe"}
        BY <2>1, <2>3 DEF ServiceDecl
      <3> QED BY <2>3, <3>1, <3>2, ValueStays DEF PartKept
    <2> QED BY <1>2, <2>5, <2>8, <2>9, <2>10 DEF s, t
  <1> QED BY <1>1, <1>2

LEMMA DependenciesSettle ==
    ASSUME NEW doc, NEW m, m.runtimeDependencies = Dependencies(doc)
    PROVE  Dependencies(m) = Dependencies(doc) /\ Sidecars(m) = Sidecars(doc)
  <1>1. Dependencies(m) = Dependencies(doc)
    BY DEF Dependencies
  <1> QED BY <1>1 DEF Sidecars

LEMMA SkillSettles ==
    ASSUME NEW s \in Maybe(ContributedSkill)
    PROVE  LET n == NormalSkill(s)
           IN /\ NormalSkill(n) = n /\ ~SkillBlamed(n)
              /\ ~SkillBlamed(s) => (n = Absent <=> s = Absent)
              /\ ~SkillBlamed(s) /\ s # Absent => PartKept([s EXCEPT !.extra = FALSE], n)
  <1> DEFINE n == NormalSkill(s)
  <1>1. CASE s = Absent \/ SkillBlamed(s)
    BY <1>1 DEF NormalSkill, SkillBlamed
  <1>2. CASE ~(s = Absent \/ SkillBlamed(s))
    <2> DEFINE r == [s EXCEPT !.extra = FALSE]
    <2>1. /\ s \in ContributedSkill /\ Filled(s.path)
          /\ n = [extra |-> FALSE, path |-> Trim(s.path)]
      BY <1>2 DEF SkillBlamed, NormalSkill, Maybe
    <2>2. s.path \in Words /\ r = [extra |-> FALSE, path |-> s.path]
      <3>1. ASSUME NEW o \in ContributedSkill
            PROVE  [o EXCEPT !.extra = FALSE] = [extra |-> FALSE, path |-> o.path]
        <4> DEFINE v == [o EXCEPT !.extra = FALSE]
        <4>1. v \in ContributedSkill /\ v.extra = FALSE /\ v.path = o.path
          BY DEF ContributedSkill
        <4> HIDE DEF v
        <4>2. v = [extra |-> FALSE, path |-> o.path]
          BY <4>1 DEF ContributedSkill
        <4> QED BY <4>2 DEF v
      <3>2. s.path \in Words
        BY <2>1 DEF ContributedSkill
      <3> QED BY <2>1, <3>1, <3>2
    <2>3. Trim(s.path) \in Words /\ Filled(Trim(s.path)) /\ Trim(Trim(s.path)) = Trim(s.path)
      BY <2>1, <2>2, TrimFacts
    <2> HIDE DEF n, r
    <2>4. n \in ContributedSkill
      BY <2>1, <2>3 DEF ContributedSkill
    <2>5. n # Absent /\ n # Bad
      BY <2>4, NotNothing DEF Parts
    <2>6. ~SkillBlamed(n)
      BY <2>1, <2>3, <2>5 DEF SkillBlamed
    <2>7. NormalSkill(n) = n
      BY <2>1, <2>3, <2>5, <2>6 DEF NormalSkill
    <2>8. PartKept(r, n)
      <3>1. /\ DOMAIN r = {"extra", "path"} /\ DOMAIN n = {"extra", "path"}
            /\ n.extra = r.extra /\ n.path = Trim(r.path)
        BY <2>1, <2>2
      <3>2. ValueKept("path", r.path, n.path)
        BY <3>1, TrimKept
      <3> QED BY <3>1, <3>2, ValueStays DEF PartKept
    <2> QED BY <1>2, <2>5, <2>6, <2>7, <2>8 DEF n, r
  <1> QED BY <1>1, <1>2

LEMMA EntrySettles ==
    ASSUME NEW e, ~EntryBlamed(e)
    PROVE  /\ NormalEntry(NormalEntry(e)) = NormalEntry(e) /\ ~EntryBlamed(NormalEntry(e))
           /\ NormalEntry(e) = "null" <=> e = "null"
           /\ ValueKept("entry", e, NormalEntry(e))
  <1>1. e \in {"absent", "null", "good", "padded"}
    BY DEF EntryBlamed
  <1>2. ValueKept("entry", e, NormalEntry(e))
    BY <1>1 DEF NormalEntry, Trim, ValueKept, Meant
  <1> QED BY <1>1, <1>2 DEF EntryBlamed, NormalEntry, Trim

LEMMA OnlyTrueSettles ==
    ASSUME NEW x
    PROVE  /\ OnlyTrue(OnlyTrue(x)) = OnlyTrue(x) /\ Flag(OnlyTrue(x))
           /\ Flag(x) =>
                 \A f \in {"requiresNativeChildWebview", "requiresEngineModules", "template"} :
                    ValueKept(f, x, OnlyTrue(x))
  BY DEF OnlyTrue, Flag, ValueKept, Meant

-----------------------------------------------------------------------------
(* The manifest of an accepted document.                                   *)

\* What an accepted document with texts that can be trimmed was not blamed for.
LEMMA AcceptedSections ==
    ASSUME NEW doc, Accepts(doc, Manifest(doc)), ~Throws(doc)
    PROVE  LET m == Manifest(doc) IN
           /\ ~IdentityBlamed(doc) /\ ~DependenciesBlamed(doc) /\ ~ServiceBlamed(doc.service)
           /\ ~Provided(doc.implements).blamed /\ ~Required(doc.consumes).blamed
           /\ ~EntryBlamed(doc.entry) /\ RuntimeOk(doc.runtime)
           /\ ~PermissionsBlamed(doc.permissions)
           /\ ~SkillBlamed(doc.skill) /\ ~EventsBlamed(doc.events)
           /\ ~Malformed(doc.libraries) /\ ~Malformed(doc.configuration) /\ ~Malformed(doc.views)
           /\ ~Malformed(doc.commands) /\ ~Malformed(doc.overlays) /\ ~Malformed(doc.headerActions)
           /\ ~Malformed(doc.statusItems) /\ ~Malformed(doc.iconSets) /\ ~Malformed(doc.fileViewers)
           /\ ~Malformed(doc.nodes) /\ ~Malformed(doc.programs) /\ ~Malformed(doc.schedules)
           /\ \A l \in Entries(doc.libraries) : LibraryKept(l) /\ ~Trips(l.label)
           /\ \A s \in Entries(doc.configuration) : SettingKept(s) /\ ~SettingTrips(s)
           /\ \A v \in Entries(doc.views) : ~ViewBlamed(v)
           /\ \A c \in Entries(doc.commands) : ~CommandBlamed(c)
           /\ \A o \in Entries(doc.overlays) : OverlayKept(o)
           /\ \A a \in Entries(doc.headerActions) : ActionKept(a, m.commands)
           /\ \A t \in Entries(doc.statusItems) : ItemKept(t, m.commands)
           /\ \A i \in Entries(doc.iconSets) : IconSetKept(i)
           /\ \A f \in Entries(doc.fileViewers) : FileViewerKept(f)
           /\ \A n \in Entries(doc.nodes) : NodeKept(n)
           /\ \A p \in Entries(doc.programs) : ~ProgramBlamed(p)
           /\ \A s \in Entries(doc.schedules) : ScheduleKept(s)
  <1> DEFINE m == Manifest(doc)
  <1>1. ~SectionsBlamed(doc, m)
    BY DEF Accepts
  <1> HIDE DEF m
  <1>2. \A i \in DOMAIN EntryLists(doc) : ~Malformed(EntryLists(doc)[i])
    BY <1>1 DEF SectionsBlamed
  <1>3. \A i \in 1 .. 12 : ~Malformed(EntryLists(doc)[i])
    BY <1>2 DEF EntryLists
  <1>4. /\ ~Malformed(doc.libraries) /\ ~Malformed(doc.configuration) /\ ~Malformed(doc.views)
        /\ ~Malformed(doc.commands) /\ ~Malformed(doc.overlays) /\ ~Malformed(doc.headerActions)
        /\ ~Malformed(doc.statusItems) /\ ~Malformed(doc.iconSets) /\ ~Malformed(doc.fileViewers)
        /\ ~Malformed(doc.nodes) /\ ~Malformed(doc.programs) /\ ~Malformed(doc.schedules)
    BY <1>3 DEF EntryLists
  <1>5. /\ \A l \in Entries(doc.libraries) : LibraryKept(l)
        /\ \A s \in Entries(doc.configuration) : SettingKept(s)
    BY <1>1 DEF SectionsBlamed
  <1>6. /\ \A l \in Entries(doc.libraries) : ~Trips(l.label)
        /\ \A s \in Entries(doc.configuration) : ~SettingTrips(s)
    BY <1>5 DEF Throws, TextTrips, Entries
  <1>7. /\ ~IdentityBlamed(doc) /\ ~DependenciesBlamed(doc) /\ ~ServiceBlamed(doc.service)
        /\ ~Provided(doc.implements).blamed /\ ~Required(doc.consumes).blamed
        /\ ~EntryBlamed(doc.entry) /\ RuntimeOk(doc.runtime) /\ ~PermissionsBlamed(doc.permissions)
        /\ ~SkillBlamed(doc.skill) /\ ~EventsBlamed(doc.events)
    BY <1>1 DEF SectionsBlamed
  <1>8. /\ \A v \in Entries(doc.views) : ~ViewBlamed(v)
        /\ \A c \in Entries(doc.commands) : ~CommandBlamed(c)
        /\ \A o \in Entries(doc.overlays) : OverlayKept(o)
        /\ \A a \in Entries(doc.headerActions) : ActionKept(a, m.commands)
        /\ \A t \in Entries(doc.statusItems) : ItemKept(t, m.commands)
        /\ \A i \in Entries(doc.iconSets) : IconSetKept(i)
        /\ \A f \in Entries(doc.fileViewers) : FileViewerKept(f)
        /\ \A n \in Entries(doc.nodes) : NodeKept(n)
        /\ \A p \in Entries(doc.programs) : ~ProgramBlamed(p)
        /\ \A s \in Entries(doc.schedules) : ScheduleKept(s)
    BY <1>1 DEF SectionsBlamed
  <1> QED BY <1>4, <1>5, <1>6, <1>7, <1>8 DEF m

LEMMA DocumentFields ==
    ASSUME NEW doc, IsDocument(doc)
    PROVE  /\ DOMAIN doc = DOMAIN PluginManifest
           /\ doc.runtime \in Maybe(PluginRuntimePolicy) /\ doc.service \in Maybe(ServiceDecl)
           /\ doc.skill \in Maybe(ContributedSkill)
           /\ doc.implements \in ListOf(ContractProviderRef)
           /\ doc.consumes \in ListOf(ContractRequirement)
           /\ doc.permissions \in TextList /\ doc.events \in TextList
           /\ doc.libraries \in ListOf(LibraryDep)
           /\ doc.configuration \in ListOf(ConfigSetting)
           /\ doc.views \in ListOf(ContributedView)
           /\ doc.commands \in ListOf(ContributedCommand)
           /\ doc.overlays \in ListOf(ContributedOverlay)
           /\ doc.headerActions \in ListOf(ContributedHeaderAction)
           /\ doc.statusItems \in ListOf(ContributedStatusItem)
           /\ doc.iconSets \in ListOf(ContributedIconSet)
           /\ doc.fileViewers \in ListOf(ContributedFileViewer)
           /\ doc.nodes \in ListOf(ContributedNode)
           /\ doc.programs \in ListOf(ContributedProgram)
           /\ doc.schedules \in ListOf(ContributedSchedule)
  BY Fields DEF IsDocument, PluginManifest

\* A well formed list of settled entries, which may be left out when it is empty.
Settled(list, S) ==
    /\ Given(list) \in Seq(S) /\ ~Malformed(list)
    /\ Entries(list) = Range(Given(list)) /\ Entries(list) \subseteq S

LEMMA SettledList ==
    ASSUME NEW S \in SUBSET Parts, \A x \in S : x.extra = FALSE, NEW q \in Seq(S),
           NEW list \in {q, OrAbsent(q)}
    PROVE  Settled(list, S) /\ Given(list) = q
  <1>1. /\ Given(q) = q /\ Given(OrAbsent(q)) = q
        /\ Entries(q) = Range(q) /\ Entries(OrAbsent(q)) = Range(q) /\ Range(q) \subseteq S
    BY ListOfParts
  <1>2. ~Malformed(q) /\ ~Malformed(OrAbsent(q))
    BY WellFormed
  <1> QED BY <1>1, <1>2 DEF Settled

LEMMA SettledSets ==
    ASSUME NEW commands,
           NEW S \in {SettledLibraries, SettledSettings, SettledViews, SettledCommands,
                      SettledOverlays, SettledActions(commands), SettledItems(commands),
                      SettledIconSets, SettledFileViewers, SettledNodes, SettledPrograms,
                      SettledSchedules}
    PROVE  S \in SUBSET Parts /\ \A x \in S : x.extra = FALSE
  <1>1. \A x \in S : x.extra = FALSE
    BY DEF SettledLibraries, SettledSettings, SettledViews, SettledCommands, SettledOverlays,
           SettledActions, SettledItems, SettledIconSets, SettledFileViewers, SettledNodes,
           SettledPrograms, SettledSchedules
  <1>2. S \in SUBSET Parts
    BY DEF SettledLibraries, SettledSettings, SettledViews, SettledCommands, SettledOverlays,
           SettledActions, SettledItems, SettledIconSets, SettledFileViewers, SettledNodes,
           SettledPrograms, SettledSchedules, Parts
  <1> QED BY <1>1, <1>2

\* Every section of the manifest is in the form it is parsed to, and has, entry by
\* entry, what was written, as it is read.
LEMMA SectionsSettle ==
    ASSUME NEW doc, IsDocument(doc), Accepts(doc, Manifest(doc)), ~Throws(doc)
    PROVE  LET m == Manifest(doc) IN
           /\ Settled(m.libraries, SettledLibraries)
           /\ OrAbsent(Libraries(m.libraries)) = m.libraries
           /\ EachKept(Given(doc.libraries), Given(m.libraries))
           /\ Settled(m.configuration, SettledSettings)
           /\ OrAbsent(Configuration(m.configuration)) = m.configuration
           /\ EachKept(Given(SettingsRead(doc.configuration)), Given(m.configuration))
           /\ Settled(m.views, SettledViews) /\ Given(m.views) = m.views
           /\ Views(m.views) = m.views
           /\ EachKept(Given(ReadViews(Given(doc.views))), Given(m.views))
           /\ Settled(m.commands, SettledCommands) /\ Given(m.commands) = m.commands
           /\ Commands(m.commands) = m.commands
           /\ EachKept(Given(doc.commands), Given(m.commands))
           /\ Settled(m.overlays, SettledOverlays) /\ Given(m.overlays) = m.overlays
           /\ Overlays(m.overlays) = m.overlays
           /\ EachKept(Given(doc.overlays), Given(m.overlays))
           /\ Settled(m.headerActions, SettledActions(m.commands))
           /\ Given(m.headerActions) = m.headerActions
           /\ HeaderActions(m.headerActions, m.commands) = m.headerActions
           /\ EachKept(Given(doc.headerActions), Given(m.headerActions))
           /\ Settled(m.statusItems, SettledItems(m.commands))
           /\ Given(m.statusItems) = m.statusItems
           /\ StatusItems(m.statusItems, m.commands) = m.statusItems
           /\ EachKept(Given(doc.statusItems), Given(m.statusItems))
           /\ Settled(m.iconSets, SettledIconSets) /\ Given(m.iconSets) = m.iconSets
           /\ IconSets(m.iconSets) = m.iconSets
           /\ EachKept(Given(doc.iconSets), Given(m.iconSets))
           /\ Settled(m.fileViewers, SettledFileViewers) /\ Given(m.fileViewers) = m.fileViewers
           /\ FileViewers(m.fileViewers) = m.fileViewers
           /\ EachKept(Given(doc.fileViewers), Given(m.fileViewers))
           /\ Settled(m.nodes, SettledNodes) /\ Given(m.nodes) = m.nodes
           /\ Nodes(m.nodes) = m.nodes
           /\ EachKept(Given(doc.nodes), Given(m.nodes))
           /\ Settled(m.programs, SettledPrograms) /\ Given(m.programs) = m.programs
           /\ Programs(m.programs) = m.programs
           /\ EachKept(Given(doc.programs), Given(m.programs))
           /\ Settled(m.schedules, SettledSchedules)
           /\ OrAbsent(Schedules(m.schedules)) = m.schedules
           /\ EachKept(Given(SchedulesRead(doc.schedules)), Given(m.schedules))
  <1> DEFINE m == Manifest(doc)
  <1>1. /\ Settled(m.libraries, SettledLibraries)
        /\ OrAbsent(Libraries(m.libraries)) = m.libraries
        /\ EachKept(Given(doc.libraries), Given(m.libraries))
    <2> DEFINE q == Libraries(doc.libraries)
    <2>1. m.libraries = OrAbsent(q)
      BY DocumentFields, ManifestFields
    <2>2. /\ q \in Seq(SettledLibraries) /\ EachKept(Given(doc.libraries), q)
          /\ Libraries(q) = q /\ Libraries(OrAbsent(q)) = q
      BY DocumentFields, AcceptedSections, LibrariesSettle
    <2>3. SettledLibraries \in SUBSET Parts /\ \A x \in SettledLibraries : x.extra = FALSE
      BY SettledSets
    <2> HIDE DEF q, m
    <2>4. Settled(m.libraries, SettledLibraries) /\ Given(m.libraries) = q
      BY <2>1, <2>2, <2>3, SettledList
    <2> QED BY <2>1, <2>2, <2>4
  <1>2. /\ Settled(m.configuration, SettledSettings)
        /\ OrAbsent(Configuration(m.configuration)) = m.configuration
        /\ EachKept(Given(SettingsRead(doc.configuration)), Given(m.configuration))
    <2> DEFINE q == Configuration(doc.configuration)
    <2>1. m.configuration = OrAbsent(q)
      BY DocumentFields, ManifestFields
    <2>2. /\ q \in Seq(SettledSettings) /\ EachKept(Given(SettingsRead(doc.configuration)), q)
          /\ Configuration(q) = q /\ Configuration(OrAbsent(q)) = q
      BY DocumentFields, AcceptedSections, ConfigurationSettles
    <2>3. SettledSettings \in SUBSET Parts /\ \A x \in SettledSettings : x.extra = FALSE
      BY SettledSets
    <2> HIDE DEF q, m
    <2>4. Settled(m.configuration, SettledSettings) /\ Given(m.configuration) = q
      BY <2>1, <2>2, <2>3, SettledList
    <2> QED BY <2>1, <2>2, <2>4
  <1>3. /\ Settled(m.views, SettledViews) /\ Given(m.views) = m.views
        /\ Views(m.views) = m.views
        /\ EachKept(Given(ReadViews(Given(doc.views))), Given(m.views))
    <2> DEFINE q == Views(doc.views)
    <2>1. m.views = q
      BY DocumentFields, ManifestFields
    <2>2. /\ q \in Seq(SettledViews) /\ EachKept(Given(ReadViews(Given(doc.views))), q)
          /\ Views(q) = q /\ Views(OrAbsent(q)) = q
      BY DocumentFields, AcceptedSections, ViewsSettle
    <2>3. SettledViews \in SUBSET Parts /\ \A x \in SettledViews : x.extra = FALSE
      BY SettledSets
    <2> HIDE DEF q, m
    <2>4. Settled(m.views, SettledViews) /\ Given(m.views) = q
      BY <2>1, <2>2, <2>3, SettledList
    <2> QED BY <2>1, <2>2, <2>4
  <1>4. /\ Settled(m.commands, SettledCommands) /\ Given(m.commands) = m.commands
        /\ Commands(m.commands) = m.commands
        /\ EachKept(Given(doc.commands), Given(m.commands))
    <2> DEFINE q == Commands(doc.commands)
    <2>1. m.commands = q
      BY DocumentFields, ManifestFields
    <2>2. /\ q \in Seq(SettledCommands) /\ EachKept(Given(doc.commands), q)
          /\ Commands(q) = q /\ Commands(OrAbsent(q)) = q
      BY DocumentFields, AcceptedSections, CommandsSettle
    <2>3. SettledCommands \in SUBSET Parts /\ \A x \in SettledCommands : x.extra = FALSE
      BY SettledSets
    <2> HIDE DEF q, m
    <2>4. Settled(m.commands, SettledCommands) /\ Given(m.commands) = q
      BY <2>1, <2>2, <2>3, SettledList
    <2> QED BY <2>1, <2>2, <2>4
  <1>5. /\ Settled(m.overlays, SettledOverlays) /\ Given(m.overlays) = m.overlays
        /\ Overlays(m.overlays) = m.overlays
        /\ EachKept(Given(doc.overlays), Given(m.overlays))
    <2> DEFINE q == Overlays(doc.overlays)
    <2>1. m.overlays = q
      BY DocumentFields, ManifestFields
    <2>2. /\ q \in Seq(SettledOverlays) /\ EachKept(Given(doc.overlays), q)
          /\ Overlays(q) = q /\ Overlays(OrAbsent(q)) = q
      BY DocumentFields, AcceptedSections, OverlaysSettle
    <2>3. SettledOverlays \in SUBSET Parts /\ \A x \in SettledOverlays : x.extra = FALSE
      BY SettledSets
    <2> HIDE DEF q, m
    <2>4. Settled(m.overlays, SettledOverlays) /\ Given(m.overlays) = q
      BY <2>1, <2>2, <2>3, SettledList
    <2> QED BY <2>1, <2>2, <2>4
  <1>6. /\ Settled(m.headerActions, SettledActions(m.commands))
        /\ Given(m.headerActions) = m.headerActions
        /\ HeaderActions(m.headerActions, m.commands) = m.headerActions
        /\ EachKept(Given(doc.headerActions), Given(m.headerActions))
    <2> DEFINE q == HeaderActions(doc.headerActions, m.commands)
    <2>1. m.headerActions = q
      BY DocumentFields, ManifestFields
    <2>2. /\ q \in Seq(SettledActions(m.commands))
          /\ EachKept(Given(doc.headerActions), q)
          /\ HeaderActions(q, m.commands) = q /\ HeaderActions(OrAbsent(q), m.commands) = q
      BY DocumentFields, AcceptedSections, HeaderActionsSettle
    <2>3. SettledActions(m.commands) \in SUBSET Parts
            /\ \A x \in SettledActions(m.commands) : x.extra = FALSE
      BY SettledSets
    <2> HIDE DEF q, m
    <2>4. Settled(m.headerActions, SettledActions(m.commands)) /\ Given(m.headerActions) = q
      BY <2>1, <2>2, <2>3, SettledList
    <2> QED BY <2>1, <2>2, <2>4
  <1>7. /\ Settled(m.statusItems, SettledItems(m.commands)) /\ Given(m.statusItems) = m.statusItems
        /\ StatusItems(m.statusItems, m.commands) = m.statusItems
        /\ EachKept(Given(doc.statusItems), Given(m.statusItems))
    <2> DEFINE q == StatusItems(doc.statusItems, m.commands)
    <2>1. m.statusItems = q
      BY DocumentFields, ManifestFields
    <2>2. /\ q \in Seq(SettledItems(m.commands))
          /\ EachKept(Given(doc.statusItems), q)
          /\ StatusItems(q, m.commands) = q /\ StatusItems(OrAbsent(q), m.commands) = q
      BY DocumentFields, AcceptedSections, StatusItemsSettle
    <2>3. SettledItems(m.commands) \in SUBSET Parts
            /\ \A x \in SettledItems(m.commands) : x.extra = FALSE
      BY SettledSets
    <2> HIDE DEF q, m
    <2>4. Settled(m.statusItems, SettledItems(m.commands)) /\ Given(m.statusItems) = q
      BY <2>1, <2>2, <2>3, SettledList
    <2> QED BY <2>1, <2>2, <2>4
  <1>8. /\ Settled(m.iconSets, SettledIconSets) /\ Given(m.iconSets) = m.iconSets
        /\ IconSets(m.iconSets) = m.iconSets
        /\ EachKept(Given(doc.iconSets), Given(m.iconSets))
    <2> DEFINE q == IconSets(doc.iconSets)
    <2>1. m.iconSets = q
      BY DocumentFields, ManifestFields
    <2>2. /\ q \in Seq(SettledIconSets) /\ EachKept(Given(doc.iconSets), q)
          /\ IconSets(q) = q /\ IconSets(OrAbsent(q)) = q
      BY DocumentFields, AcceptedSections, IconSetsSettle
    <2>3. SettledIconSets \in SUBSET Parts /\ \A x \in SettledIconSets : x.extra = FALSE
      BY SettledSets
    <2> HIDE DEF q, m
    <2>4. Settled(m.iconSets, SettledIconSets) /\ Given(m.iconSets) = q
      BY <2>1, <2>2, <2>3, SettledList
    <2> QED BY <2>1, <2>2, <2>4
  <1>9. /\ Settled(m.fileViewers, SettledFileViewers) /\ Given(m.fileViewers) = m.fileViewers
        /\ FileViewers(m.fileViewers) = m.fileViewers
        /\ EachKept(Given(doc.fileViewers), Given(m.fileViewers))
    <2> DEFINE q == FileViewers(doc.fileViewers)
    <2>1. m.fileViewers = q
      BY DocumentFields, ManifestFields
    <2>2. /\ q \in Seq(SettledFileViewers) /\ EachKept(Given(doc.fileViewers), q)
          /\ FileViewers(q) = q /\ FileViewers(OrAbsent(q)) = q
      BY DocumentFields, AcceptedSections, FileViewersSettle
    <2>3. SettledFileViewers \in SUBSET Parts /\ \A x \in SettledFileViewers : x.extra = FALSE
      BY SettledSets
    <2> HIDE DEF q, m
    <2>4. Settled(m.fileViewers, SettledFileViewers) /\ Given(m.fileViewers) = q
      BY <2>1, <2>2, <2>3, SettledList
    <2> QED BY <2>1, <2>2, <2>4
  <1>10. /\ Settled(m.nodes, SettledNodes) /\ Given(m.nodes) = m.nodes
        /\ Nodes(m.nodes) = m.nodes
        /\ EachKept(Given(doc.nodes), Given(m.nodes))
    <2> DEFINE q == Nodes(doc.nodes)
    <2>1. m.nodes = q
      BY DocumentFields, ManifestFields
    <2>2. /\ q \in Seq(SettledNodes) /\ EachKept(Given(doc.nodes), q)
          /\ Nodes(q) = q /\ Nodes(OrAbsent(q)) = q
      BY DocumentFields, AcceptedSections, NodesSettle
    <2>3. SettledNodes \in SUBSET Parts /\ \A x \in SettledNodes : x.extra = FALSE
      BY SettledSets
    <2> HIDE DEF q, m
    <2>4. Settled(m.nodes, SettledNodes) /\ Given(m.nodes) = q
      BY <2>1, <2>2, <2>3, SettledList
    <2> QED BY <2>1, <2>2, <2>4
  <1>11. /\ Settled(m.programs, SettledPrograms) /\ Given(m.programs) = m.programs
        /\ Programs(m.programs) = m.programs
        /\ EachKept(Given(doc.programs), Given(m.programs))
    <2> DEFINE q == Programs(doc.programs)
    <2>1. m.programs = q
      BY DocumentFields, ManifestFields
    <2>2. /\ q \in Seq(SettledPrograms) /\ EachKept(Given(doc.programs), q)
          /\ Programs(q) = q /\ Programs(OrAbsent(q)) = q
      BY DocumentFields, AcceptedSections, ProgramsSettle
    <2>3. SettledPrograms \in SUBSET Parts /\ \A x \in SettledPrograms : x.extra = FALSE
      BY SettledSets
    <2> HIDE DEF q, m
    <2>4. Settled(m.programs, SettledPrograms) /\ Given(m.programs) = q
      BY <2>1, <2>2, <2>3, SettledList
    <2> QED BY <2>1, <2>2, <2>4
  <1>12. /\ Settled(m.schedules, SettledSchedules)
        /\ OrAbsent(Schedules(m.schedules)) = m.schedules
        /\ EachKept(Given(SchedulesRead(doc.schedules)), Given(m.schedules))
    <2> DEFINE q == Schedules(doc.schedules)
    <2>1. m.schedules = OrAbsent(q)
      BY DocumentFields, ManifestFields
    <2>2. /\ q \in Seq(SettledSchedules) /\ EachKept(Given(SchedulesRead(doc.schedules)), q)
          /\ Schedules(q) = q /\ Schedules(OrAbsent(q)) = q
      BY DocumentFields, AcceptedSections, SchedulesSettle
    <2>3. SettledSchedules \in SUBSET Parts /\ \A x \in SettledSchedules : x.extra = FALSE
      BY SettledSets
    <2> HIDE DEF q, m
    <2>4. Settled(m.schedules, SettledSchedules) /\ Given(m.schedules) = q
      BY <2>1, <2>2, <2>3, SettledList
    <2> QED BY <2>1, <2>2, <2>4
  <1> HIDE DEF m
  <1> QED BY <1>1, <1>2, <1>3, <1>4, <1>5, <1>6, <1>7, <1>8, <1>9, <1>10, <1>11, <1>12 DEF m

\* The fields that are no list of entries.
LEMMA FieldsSettle ==
    ASSUME NEW doc, IsDocument(doc), Accepts(doc, Manifest(doc)), ~Throws(doc)
    PROVE  LET m == Manifest(doc) IN
           /\ Trim(m.name) = m.name /\ Trim(m.description) = m.description
           /\ Trim(m.author) = m.author
           /\ NormalEntry(m.entry) = m.entry /\ ~EntryBlamed(m.entry)
           /\ NormalRuntime(m.runtime) = m.runtime /\ RuntimeOk(m.runtime)
           /\ OnlyTrue(m.requiresNativeChildWebview) = m.requiresNativeChildWebview
           /\ OnlyTrue(m.requiresEngineModules) = m.requiresEngineModules
           /\ OnlyTrue(m.template) = m.template
           /\ Dependencies(m) = m.runtimeDependencies
           /\ Service(m) = m.service /\ ~ServiceBlamed(m.service)
           /\ Given(m.implements) = Given(doc.implements) /\ ~Provided(m.implements).blamed
           /\ OrAbsent(Provided(m.implements).list) = m.implements
           /\ Given(m.consumes) = Given(doc.consumes) /\ ~Required(m.consumes).blamed
           /\ OrAbsent(Required(m.consumes).list) = m.consumes
           /\ m.permissions = doc.permissions /\ Known(m.permissions) = m.permissions
           /\ Given(m.permissions) = m.permissions /\ m.permissions # Bad
           /\ m.events = Given(doc.events) /\ Given(m.events) = m.events /\ ~EventsBlamed(m.events)
           /\ NormalSkill(m.skill) = m.skill /\ ~SkillBlamed(m.skill)
           /\ ~IdentityBlamed(m) /\ ~DependenciesBlamed(m)
  <1> DEFINE m == Manifest(doc)
  <1>1. DOMAIN doc = DOMAIN PluginManifest
    BY DocumentFields
  <1>2. /\ m.name = Trim(doc.name) /\ m.description = Trim(doc.description)
        /\ m.author = Trim(doc.author) /\ m.entry = NormalEntry(doc.entry)
        /\ m.runtime = NormalRuntime(doc.runtime)
        /\ m.requiresNativeChildWebview = OnlyTrue(doc.requiresNativeChildWebview)
        /\ m.requiresEngineModules = OnlyTrue(doc.requiresEngineModules)
        /\ m.template = OnlyTrue(doc.template)
        /\ m.runtimeDependencies = Dependencies(doc) /\ m.service = Service(doc)
        /\ m.implements = OrAbsent(Provided(doc.implements).list)
        /\ m.consumes = OrAbsent(Required(doc.consumes).list)
        /\ m.permissions = Known(doc.permissions) /\ m.events = Given(doc.events)
        /\ m.skill = NormalSkill(doc.skill)
    BY <1>1, ManifestFields
  <1>3. /\ m.extra = doc.extra /\ m.id = doc.id /\ m.version = doc.version
        /\ m.renamedFrom = doc.renamedFrom
        /\ m.appVersionRequirement = doc.appVersionRequirement
        /\ m.requiresEngine = doc.requiresEngine
    BY <1>1, ManifestUntouched DEF Untouched
  <1> HIDE DEF m
  <1>4. /\ Trim(m.name) = m.name /\ Trim(m.description) = m.description /\ Trim(m.author) = m.author
        /\ OnlyTrue(m.requiresNativeChildWebview) = m.requiresNativeChildWebview
        /\ OnlyTrue(m.requiresEngineModules) = m.requiresEngineModules
        /\ OnlyTrue(m.template) = m.template
    BY <1>2, TrimFacts, OnlyTrueSettles
  <1>5. NormalEntry(m.entry) = m.entry /\ ~EntryBlamed(m.entry)
    BY <1>2, AcceptedSections, EntrySettles
  <1>6. NormalRuntime(m.runtime) = m.runtime /\ RuntimeOk(m.runtime)
    BY <1>2, DocumentFields, AcceptedSections, RuntimeSettles
  <1>7. Dependencies(m) = Dependencies(doc) /\ Sidecars(m) = Sidecars(doc)
    BY <1>2, DependenciesSettle
  <1>8. Service(m) = m.service /\ ~ServiceBlamed(m.service)
    BY <1>2, DocumentFields, AcceptedSections, ServiceSettles
  <1>9. /\ Given(m.implements) = Given(doc.implements) /\ ~Provided(m.implements).blamed
        /\ OrAbsent(Provided(m.implements).list) = m.implements
    BY <1>2, DocumentFields, AcceptedSections, ProvidedSettles
  <1>10. /\ Given(m.consumes) = Given(doc.consumes) /\ ~Required(m.consumes).blamed
         /\ OrAbsent(Required(m.consumes).list) = m.consumes
    BY <1>2, DocumentFields, AcceptedSections, RequiredSettles
  <1>11. /\ m.permissions = doc.permissions /\ Known(m.permissions) = m.permissions
         /\ Given(m.permissions) = m.permissions /\ m.permissions # Bad
    <2>1. ~PermissionsBlamed(doc.permissions) /\ doc.permissions \in TextList
      BY DocumentFields, AcceptedSections
    <2>2. Known(doc.permissions) = doc.permissions /\ Given(doc.permissions) = doc.permissions
      BY <2>1, PermissionsSettle
    <2>3. doc.permissions # Bad
      BY <2>1 DEF PermissionsBlamed
    <2> QED BY <1>2, <2>2, <2>3
  <1>12. Given(m.events) = m.events /\ ~EventsBlamed(m.events)
    <2>1. ~EventsBlamed(doc.events) /\ doc.events \in TextList
      BY DocumentFields, AcceptedSections
    <2>2. Given(m.events) = m.events /\ m.events # Bad
      BY <1>2, <2>1, TextsOf DEF EventsBlamed
    <2> QED BY <1>2, <2>1, <2>2 DEF EventsBlamed
  <1>13. NormalSkill(m.skill) = m.skill /\ ~SkillBlamed(m.skill)
    BY <1>2, DocumentFields, SkillSettles
  <1>14. ~IdentityBlamed(m)
    <2>1. ~IdentityBlamed(doc)
      BY AcceptedSections
    <2>2. LocalText(m.name) /\ LocalText(m.description) /\ Optional(m.author)
      BY <1>2, <2>1, TrimFacts DEF IdentityBlamed, Optional
    <2>3. Flag(m.requiresNativeChildWebview) /\ Flag(m.requiresEngineModules) /\ Flag(m.template)
      BY <1>2, OnlyTrueSettles
    <2> QED BY <1>3, <2>1, <2>2, <2>3 DEF IdentityBlamed
  <1>15. ~DependenciesBlamed(m)
    <2>1. ~DependenciesBlamed(doc)
      BY AcceptedSections
    <2> QED BY <1>2, <1>7, <1>11, <2>1 DEF DependenciesBlamed
  <1>16. Dependencies(m) = m.runtimeDependencies /\ m.events = Given(doc.events)
    BY <1>2, <1>7
  <1> QED BY <1>4, <1>5, <1>6, <1>8, <1>9, <1>10, <1>11, <1>12, <1>13, <1>14, <1>15, <1>16 DEF m

\* They are kept, as they are read.
LEMMA FieldsKept ==
    ASSUME NEW doc, IsDocument(doc), Accepts(doc, Manifest(doc)), ~Throws(doc)
    PROVE  LET m == Manifest(doc) IN
           /\ \A f \in {"id", "version", "renamedFrom", "appVersionRequirement",
                        "requiresEngine"} : m[f] = doc[f]
           /\ \A f \in {"name", "description", "author", "requiresNativeChildWebview",
                        "requiresEngineModules", "template", "entry"} :
                 ValueKept(f, doc[f], m[f])
           /\ m.runtimeDependencies = doc.runtimeDependencies
           /\ PolicyKept(doc.runtime, m.runtime)
           /\ m.service = Absent <=> doc.service = Absent
           /\ doc.service # Absent => PartKept(doc.service, m.service)
           /\ m.skill = Absent <=> doc.skill = Absent
           /\ doc.skill # Absent => PartKept([doc.skill EXCEPT !.extra = FALSE], m.skill)
           /\ Given(m.permissions) = Given(doc.permissions)
  <1> DEFINE m == Manifest(doc)
  <1>1. DOMAIN doc = DOMAIN PluginManifest
    BY DocumentFields
  <1>2. /\ m.name = Trim(doc.name) /\ m.description = Trim(doc.description)
        /\ m.author = Trim(doc.author) /\ m.entry = NormalEntry(doc.entry)
        /\ m.runtime = NormalRuntime(doc.runtime)
        /\ m.requiresNativeChildWebview = OnlyTrue(doc.requiresNativeChildWebview)
        /\ m.requiresEngineModules = OnlyTrue(doc.requiresEngineModules)
        /\ m.template = OnlyTrue(doc.template)
        /\ m.runtimeDependencies = Dependencies(doc) /\ m.service = Service(doc)
        /\ m.permissions = Known(doc.permissions) /\ m.skill = NormalSkill(doc.skill)
    BY <1>1, ManifestFields
  <1>3. \A f \in Untouched : m[f] = doc[f]
    BY <1>1, ManifestUntouched
  <1> HIDE DEF m
  <1>4. /\ ~IdentityBlamed(doc) /\ ~DependenciesBlamed(doc) /\ ~ServiceBlamed(doc.service)
        /\ ~EntryBlamed(doc.entry) /\ RuntimeOk(doc.runtime) /\ ~SkillBlamed(doc.skill)
        /\ ~PermissionsBlamed(doc.permissions)
    BY AcceptedSections
  <1>5. /\ ValueKept("name", doc.name, m.name)
        /\ ValueKept("description", doc.description, m.description)
        /\ ValueKept("author", doc.author, m.author) /\ ValueKept("entry", doc.entry, m.entry)
    BY <1>2, <1>4, TrimKept, EntrySettles
  <1>6. /\ ValueKept("requiresNativeChildWebview", doc.requiresNativeChildWebview,
                     m.requiresNativeChildWebview)
        /\ ValueKept("requiresEngineModules", doc.requiresEngineModules, m.requiresEngineModules)
        /\ ValueKept("template", doc.template, m.template)
    <2>1. /\ Flag(doc.requiresNativeChildWebview) /\ Flag(doc.requiresEngineModules)
          /\ Flag(doc.template)
      BY <1>4 DEF IdentityBlamed
    <2> QED BY <1>2, <2>1, OnlyTrueSettles
  <1>7. m.runtimeDependencies = doc.runtimeDependencies
    BY <1>2, <1>4 DEF DependenciesBlamed, Dependencies
  <1>8. PolicyKept(doc.runtime, m.runtime)
    BY <1>2, <1>4, DocumentFields, RuntimeSettles
  <1>9. /\ m.service = Absent <=> doc.service = Absent
        /\ doc.service # Absent => PartKept(doc.service, m.service)
    BY <1>2, <1>4, DocumentFields, ServiceSettles
  <1>10. /\ m.skill = Absent <=> doc.skill = Absent
         /\ doc.skill # Absent => PartKept([doc.skill EXCEPT !.extra = FALSE], m.skill)
    BY <1>2, <1>4, DocumentFields, SkillSettles
  <1>11. Given(m.permissions) = Given(doc.permissions)
    BY <1>2, <1>4, DocumentFields, PermissionsSettle
  <1> QED BY <1>3, <1>5, <1>6, <1>7, <1>8, <1>9, <1>10, <1>11 DEF Untouched, m

LEMMA ManifestSettles ==
    ASSUME NEW doc, IsDocument(doc), Accepts(doc, Manifest(doc)), ~Throws(doc)
    PROVE  Manifest(Manifest(doc)) = Manifest(doc)
  <1> DEFINE m == Manifest(doc)
             n == Manifest(m)
  <1>1. DOMAIN doc = DOMAIN PluginManifest
    BY DocumentFields
  <1>2. DOMAIN m = DOMAIN PluginManifest /\ m = [f \in DOMAIN PluginManifest |-> m[f]]
    BY <1>1, ManifestFunction
  <1>3. n = [f \in DOMAIN PluginManifest |-> n[f]] /\ \A f \in Untouched : n[f] = m[f]
    <2> HIDE DEF m
    <2> QED BY <1>2, ManifestFunction, ManifestUntouched
  <1>4. /\ n.name = Trim(m.name) /\ n.description = Trim(m.description)
        /\ n.author = Trim(m.author) /\ n.entry = NormalEntry(m.entry)
        /\ n.runtime = NormalRuntime(m.runtime)
        /\ n.requiresNativeChildWebview = OnlyTrue(m.requiresNativeChildWebview)
        /\ n.requiresEngineModules = OnlyTrue(m.requiresEngineModules)
        /\ n.template = OnlyTrue(m.template)
        /\ n.runtimeDependencies = Dependencies(m) /\ n.service = Service(m)
        /\ n.implements = OrAbsent(Provided(m.implements).list)
        /\ n.consumes = OrAbsent(Required(m.consumes).list)
        /\ n.permissions = Known(m.permissions) /\ n.events = Given(m.events)
        /\ n.skill = NormalSkill(m.skill)
    <2> HIDE DEF m
    <2> QED BY <1>2, ManifestFields
  <1>5. /\ n.libraries = OrAbsent(Libraries(m.libraries))
        /\ n.configuration = OrAbsent(Configuration(m.configuration))
        /\ n.views = Views(m.views) /\ n.commands = Commands(m.commands)
        /\ n.overlays = Overlays(m.overlays)
        /\ n.headerActions = HeaderActions(m.headerActions, n.commands)
        /\ n.statusItems = StatusItems(m.statusItems, n.commands)
        /\ n.iconSets = IconSets(m.iconSets) /\ n.fileViewers = FileViewers(m.fileViewers)
        /\ n.nodes = Nodes(m.nodes) /\ n.programs = Programs(m.programs)
        /\ n.schedules = OrAbsent(Schedules(m.schedules))
    <2> HIDE DEF m
    <2> QED BY <1>2, ManifestFields
  <1>6. /\ n.name = m.name /\ n.description = m.description /\ n.author = m.author
        /\ n.entry = m.entry /\ n.runtime = m.runtime
        /\ n.requiresNativeChildWebview = m.requiresNativeChildWebview
        /\ n.requiresEngineModules = m.requiresEngineModules /\ n.template = m.template
        /\ n.runtimeDependencies = m.runtimeDependencies /\ n.service = m.service
        /\ n.implements = m.implements /\ n.consumes = m.consumes
        /\ n.permissions = m.permissions /\ n.events = m.events /\ n.skill = m.skill
    <2> HIDE DEF n
    <2> QED BY <1>4, FieldsSettle
  <1>7. /\ n.libraries = m.libraries /\ n.configuration = m.configuration
        /\ n.views = m.views /\ n.commands = m.commands /\ n.overlays = m.overlays
        /\ n.headerActions = m.headerActions /\ n.statusItems = m.statusItems
        /\ n.iconSets = m.iconSets /\ n.fileViewers = m.fileViewers
        /\ n.nodes = m.nodes /\ n.programs = m.programs /\ n.schedules = m.schedules
    <2> HIDE DEF n
    <2> QED BY <1>5, SectionsSettle
  <1> HIDE DEF m, n
  <1>8. \A f \in DOMAIN PluginManifest : n[f] = m[f]
    BY <1>3, <1>6, <1>7, Fields DEF Untouched
  <1>9. n = m
    BY <1>2, <1>3, <1>8
  <1> QED BY <1>9 DEF m, n

\* What an accepted document is parsed to is accepted as well, and nothing in it trips.
LEMMA ManifestAccepted ==
    ASSUME NEW doc, IsDocument(doc), Accepts(doc, Manifest(doc)), ~Throws(doc)
    PROVE  LET m == Manifest(doc) IN Accepts(m, Manifest(m)) /\ ~Throws(m)
  <1> DEFINE m == Manifest(doc)
  <1>1. Manifest(m) = m
    BY ManifestSettles
  <1>2. ~NamesRepeat(m) /\ ~PermissionMissing(m) /\ ~ServiceRulesBroken(m)
    BY DEF Accepts
  <1>3. /\ \A l \in Entries(m.libraries) : LibraryKept(l) /\ ~Trips(l.label)
        /\ \A s \in Entries(m.configuration) : SettingKept(s) /\ ~SettingTrips(s)
        /\ \A v \in Entries(m.views) : ~ViewBlamed(v)
        /\ \A c \in Entries(m.commands) : ~CommandBlamed(c)
        /\ \A o \in Entries(m.overlays) : OverlayKept(o)
        /\ \A a \in Entries(m.headerActions) : ActionKept(a, m.commands)
        /\ \A t \in Entries(m.statusItems) : ItemKept(t, m.commands)
        /\ \A i \in Entries(m.iconSets) : IconSetKept(i)
        /\ \A f \in Entries(m.fileViewers) : FileViewerKept(f)
        /\ \A n \in Entries(m.nodes) : NodeKept(n)
        /\ \A p \in Entries(m.programs) : ~ProgramBlamed(p)
        /\ \A s \in Entries(m.schedules) : ScheduleKept(s)
    <2>1. /\ Entries(m.libraries) \subseteq SettledLibraries
          /\ Entries(m.configuration) \subseteq SettledSettings
          /\ Entries(m.views) \subseteq SettledViews
          /\ Entries(m.commands) \subseteq SettledCommands
          /\ Entries(m.overlays) \subseteq SettledOverlays
          /\ Entries(m.headerActions) \subseteq SettledActions(m.commands)
          /\ Entries(m.statusItems) \subseteq SettledItems(m.commands)
          /\ Entries(m.iconSets) \subseteq SettledIconSets
          /\ Entries(m.fileViewers) \subseteq SettledFileViewers
          /\ Entries(m.nodes) \subseteq SettledNodes
          /\ Entries(m.programs) \subseteq SettledPrograms
          /\ Entries(m.schedules) \subseteq SettledSchedules
      BY SectionsSettle DEF Settled
    <2> HIDE DEF m
    <2> QED BY <2>1 DEF SettledLibraries, SettledSettings, SettledViews, SettledCommands,
           SettledOverlays, SettledActions, SettledItems, SettledIconSets, SettledFileViewers,
           SettledNodes, SettledPrograms, SettledSchedules
  <1>4. \A i \in DOMAIN EntryLists(m) : ~Malformed(EntryLists(m)[i])
    <2>1. /\ ~Malformed(m.libraries) /\ ~Malformed(m.configuration) /\ ~Malformed(m.views)
          /\ ~Malformed(m.commands) /\ ~Malformed(m.overlays) /\ ~Malformed(m.headerActions)
          /\ ~Malformed(m.statusItems) /\ ~Malformed(m.iconSets) /\ ~Malformed(m.fileViewers)
          /\ ~Malformed(m.nodes) /\ ~Malformed(m.programs) /\ ~Malformed(m.schedules)
      BY SectionsSettle DEF Settled
    <2> HIDE DEF m
    <2>2. DOMAIN EntryLists(m) = 1 .. 12
      BY DEF EntryLists
    <2> QED BY <2>1, <2>2 DEF EntryLists
  <1>5. /\ ~IdentityBlamed(m) /\ ~DependenciesBlamed(m) /\ ~ServiceBlamed(m.service)
        /\ ~Provided(m.implements).blamed /\ ~Required(m.consumes).blamed
        /\ ~EntryBlamed(m.entry) /\ RuntimeOk(m.runtime) /\ ~SkillBlamed(m.skill)
        /\ ~EventsBlamed(m.events) /\ m.permissions = doc.permissions /\ m.permissions # Bad
    BY FieldsSettle
  <1>6. ~PermissionsBlamed(m.permissions)
    BY <1>5, AcceptedSections
  <1> HIDE DEF m
  <1>7. ~SectionsBlamed(m, m)
    BY <1>3, <1>4, <1>5, <1>6 DEF SectionsBlamed
  <1>8. Accepts(m, Manifest(m))
    BY <1>1, <1>2, <1>7 DEF Accepts
  <1>9. ~Throws(m)
    <2>1. ~PermissionsTrip(m)
      BY <1>5 DEF PermissionsTrip
    <2>2. ~TextTrips(m)
      BY <1>3 DEF TextTrips, Entries
    <2> QED BY <2>1, <2>2 DEF Throws
  <1> QED BY <1>8, <1>9 DEF m

LEMMA ServiceKept ==
    ASSUME NEW doc, doc.service \in Services, doc.service \in Maybe(ServiceDecl),
           Service(doc) # Absent
    PROVE  /\ Service(doc).interface = doc.service.interface
           /\ doc.service.interface.requirement \in Declared
           /\ IsDependencyRange(doc.service.interface.requirement)
  <1> DEFINE s == doc.service
  <1>1. s # Absent /\ ServiceOk(s) /\ Service(doc) = [s EXCEPT !.subscribe = Given(s.subscribe)]
    BY DEF Service
  <1>2. s # Bad
    BY <1>1 DEF ServiceOk
  <1>3. "interface" \in DOMAIN s
    BY <1>1, <1>2 DEF Maybe, ServiceDecl
  <1>4. Service(doc).interface = s.interface
    BY <1>1, <1>3
  <1>5. IsDependencyRange(s.interface.requirement)
    BY <1>1 DEF ServiceOk, Requirement
  <1>6. s.interface.requirement \in Declared
    BY <1>1 DEF Declared
  <1> QED BY <1>4, <1>5, <1>6

-----------------------------------------------------------------------------
(* The ladder.                                                             *)

LEMMA LadderFacts ==
    /\ DOMAIN Ladder \subseteq Nat
    /\ \A i \in DOMAIN Ladder : Ladder[i] \in Versions
  BY LadderAssumption

\* Places compare as the versions on them do.
LEMMA RungsCompare ==
    ASSUME NEW i \in DOMAIN Ladder, NEW j \in DOMAIN Ladder
    PROVE  SemverCompare(Ladder[i], Ladder[j]) = Sign(i, j)
  <1>1. i \in Nat /\ j \in Nat /\ Ladder[i] \in Versions /\ Ladder[j] \in Versions
    BY LadderFacts
  <1>2. CASE i = j
    BY <1>1, <1>2, SameVersion DEF Sign
  <1>3. CASE i < j
    <2>1. Precedes(Ladder[i], Ladder[j])
      BY <1>3, LadderAssumption
    <2> QED BY <1>1, <1>3, <2>1, PrecedesCompares DEF Sign
  <1>4. CASE j < i
    <2>1. Precedes(Ladder[j], Ladder[i])
      BY <1>4, LadderAssumption
    <2> QED BY <1>1, <1>4, <2>1, PrecedesCompares DEF Sign
  <1> QED BY <1>1, <1>2, <1>3, <1>4

LEMMA OnRung ==
    ASSUME NEW v \in Range(Ladder)
    PROVE  Rung(v) \in DOMAIN Ladder /\ Ladder[Rung(v)] = v /\ v \in Versions
  <1>1. \E i \in DOMAIN Ladder : Ladder[i] = v
    BY DEF Range
  <1>2. Rung(v) \in DOMAIN Ladder /\ Ladder[Rung(v)] = v
    BY <1>1 DEF Rung
  <1> QED BY <1>2, LadderFacts

LEMMA ComparedOnLadder ==
    ASSUME NEW v \in Range(Ladder), NEW w \in Range(Ladder)
    PROVE  SemverCompare(v, w) = Sign(Rung(v), Rung(w))
  BY OnRung, RungsCompare

\* A release between a version and the first core that ^ or ~ leaves out belongs
\* to the family of the version; that core does not.
LEMMA UpperLeavesFamily ==
    ASSUME NEW w \in Versions, NEW operator \in {"^", "~"}
    PROVE  LET u == UpperBound(w.core, operator)
           IN /\ u \in Successors(w) /\ ~SameFamily(operator, u, w)
              /\ u \in Versions /\ Precedes(w, u)
  <1> DEFINE c == w.core
             last == FixedLast(c, operator, 0)
             u == UpperBound(c, operator)
  <1>1. \A i \in 1 .. 3 : c[i] \in Nat
    BY DEF Versions, Cores
  <1>2. last \in 1 .. 3
    BY DEF FixedLast
  <1>3. u = Version([j \in 1 .. 3 |-> IF j < last THEN c[j] ELSE IF j = last THEN c[j] + 1 ELSE 0], <<>>)
    <2> DEFINE up == [i \in 1 .. 3 |-> c[i] + 1]
    <2>1. u = Version([i \in 1 .. 3 |-> IF i < last THEN c[i] ELSE IF i = last THEN up[i] ELSE 0], <<>>)
      BY DEF UpperBound, Upper
    <2>2. \A i \in 1 .. 3 : up[i] = c[i] + 1
      OBVIOUS
    <2> HIDE DEF up, c, last, u
    <2>3. [i \in 1 .. 3 |-> IF i < last THEN c[i] ELSE IF i = last THEN up[i] ELSE 0]
              = [j \in 1 .. 3 |-> IF j < last THEN c[j] ELSE IF j = last THEN c[j] + 1 ELSE 0]
      BY <2>2
    <2> QED BY <2>1, <2>3
  <1>4. u \in Successors(w)
    <2> HIDE DEF last, u
    <2> QED BY <1>2, <1>3 DEF Successors
  <1>5. /\ \A j \in 1 .. 3 : u.core[j] = IF j < last THEN c[j] ELSE IF j = last THEN c[j] + 1 ELSE 0
        /\ u.core = [j \in 1 .. 3 |-> u.core[j]] /\ u.pre = <<>> /\ u = [core |-> u.core, pre |-> u.pre]
    <2> HIDE DEF last, u, c
    <2> QED BY <1>3 DEF Version
  <1>6. \A j \in 1 .. last - 1 : ~(operator = "^" /\ c[j] # 0)
    BY <1>1 DEF FixedLast
  <1>7. ~(operator = "~" /\ last = 3)
    BY DEF FixedLast
  <1> HIDE DEF last, u, c
  <1>8. u.core[last] = c[last] + 1 /\ u.core[last] # c[last]
    BY <1>1, <1>2, <1>5
  <1>9. ~SameFamily(operator, u, w)
    BY <1>2, <1>6, <1>7, <1>8 DEF SameFamily, c
  <1>10. u \in Versions
    <2>1. \A j \in 1 .. 3 : u.core[j] \in Nat
      BY <1>1, <1>2, <1>5
    <2>2. u.core \in Cores
      BY <1>5, <2>1 DEF Cores
    <2>3. u.pre \in Seq(Identifiers)
      BY <1>5
    <2> QED BY <1>5, <2>2, <2>3 DEF Versions
  <1>11. Precedes(w, u)
    <2>1. c[last] < u.core[last] /\ \A j \in 1 .. last - 1 : c[j] = u.core[j]
      BY <1>1, <1>2, <1>5
    <2> QED BY <1>2, <2>1 DEF Precedes, c
  <1> QED BY <1>4, <1>9, <1>10, <1>11 DEF u, c

LEMMA BelowUpperIsFamily ==
    ASSUME NEW w \in Versions, NEW operator \in {"^", "~"}, NEW x \in Versions,
           x.pre = <<>>, x = w \/ Precedes(w, x), Precedes(x, UpperBound(w.core, operator))
    PROVE  SameFamily(operator, x, w)
  <1> DEFINE c == w.core
             d == x.core
             last == FixedLast(c, operator, 0)
             u == UpperBound(c, operator)
  <1>1. \A i \in 1 .. 3 : c[i] \in Nat /\ d[i] \in Nat
    BY DEF Versions, Cores
  <1>2. last \in 1 .. 3
    BY DEF FixedLast
  <1>3. \A j \in 1 .. 3 : u.core[j] = IF j < last THEN c[j] ELSE IF j = last THEN c[j] + 1 ELSE 0
    BY DEF UpperBound, Upper, Version
  <1>4. ASSUME NEW i \in 1 .. 3, i > last
        PROVE  (operator = "~" /\ i = 3) \/ (operator = "^" /\ \E j \in 1 .. i - 1 : c[j] # 0)
    <2>1. CASE operator = "~"
      BY <1>4, <2>1 DEF FixedLast
    <2>2. CASE operator = "^"
      <3>1. last \in 1 .. 2 /\ c[last] # 0
        BY <1>4, <2>2 DEF FixedLast
      <3>2. last \in 1 .. i - 1
        BY <1>4, <3>1
      <3> QED BY <2>2, <3>1, <3>2
    <2> QED BY <2>1, <2>2
  <1>5. \/ d = c
        \/ \E i \in 1 .. 3 : c[i] < d[i] /\ \A j \in 1 .. i - 1 : c[j] = d[j]
    BY DEF Precedes
  <1>6. \E i \in 1 .. 3 : d[i] < u.core[i] /\ \A j \in 1 .. i - 1 : d[j] = u.core[j]
    BY DEF Precedes, PrereleasePrecedes
  <1> HIDE DEF last, u, c, d
  <1>7. PICK i \in 1 .. 3 : d[i] < u.core[i] /\ \A j \in 1 .. i - 1 : d[j] = u.core[j]
    BY <1>6
  <1>8. \A j \in 1 .. 3 : j <= last => d[j] = c[j]
    <2>1. CASE d = c
      BY <2>1
    <2>2. CASE \E k \in 1 .. 3 : c[k] < d[k] /\ \A j \in 1 .. k - 1 : c[j] = d[j]
      <3>1. PICK k \in 1 .. 3 : c[k] < d[k] /\ \A j \in 1 .. k - 1 : c[j] = d[j]
        BY <2>2
      <3>2. CASE last < k
        BY <3>1, <3>2, <1>2
      <3>3. CASE k < last
        <4>1. k < i \/ k = i \/ i < k
          OBVIOUS
        <4>2. u.core[k] = c[k]
          BY <1>3, <3>3
        <4>3. CASE i < k
          <5>0. i \in 1 .. k - 1 /\ i < last
            BY <1>2, <3>3, <4>3
          <5>1. d[i] = c[i] /\ u.core[i] = c[i]
            BY <1>3, <3>1, <5>0
          <5> QED BY <1>1, <1>7, <5>1
        <4>4. CASE k = i
          BY <1>1, <1>7, <3>1, <4>2, <4>4
        <4>5. CASE k < i
          <5>1. k \in 1 .. i - 1
            BY <4>5
          <5>2. d[k] = u.core[k]
            BY <1>7, <5>1
          <5> QED BY <1>1, <3>1, <4>2, <5>2
        <4> QED BY <4>1, <4>3, <4>4, <4>5
      <3>4. CASE k = last
        <4>1. CASE i < last
          <5>1. d[i] = c[i] /\ u.core[i] = c[i]
            BY <1>3, <3>1, <3>4, <4>1
          <5> QED BY <1>1, <1>7, <5>1
        <4>2. CASE i = last
          <5>1. u.core[i] = c[i] + 1 /\ c[i] < d[i]
            BY <1>3, <3>1, <3>4, <4>2
          <5> QED BY <1>1, <1>7, <5>1
        <4>3. CASE last < i
          <5>1. u.core[i] = 0
            BY <1>2, <1>3, <4>3
          <5> QED BY <1>1, <1>7, <5>1
        <4> QED BY <1>2, <4>1, <4>2, <4>3
      <3> QED BY <1>2, <3>2, <3>3, <3>4
    <2> QED BY <1>5, <2>1, <2>2
  <1>9. ASSUME NEW j \in 1 .. 3
        PROVE  (operator = "~" /\ j = 3) \/ (operator = "^" /\ \E k \in 1 .. j - 1 : c[k] # 0) \/ d[j] = c[j]
    BY <1>2, <1>4, <1>8
  <1> QED BY <1>9 DEF SameFamily, c, d

\* A clause of a requirement, decided by comparing, says what the ladder shows.
LEMMA ClauseOnLadder ==
    ASSUME NEW v \in Range(Ladder), NEW clause, clause.version \in Range(Ladder),
           clause.operator \in {"^", "~"} =>
               \A u \in Successors(clause.version) :
                   SameFamily(clause.operator, u, clause.version) \/ u \in Range(Ladder)
    PROVE  OnLadder(clause, v) <=> ClauseSatisfied(v, clause)
  <1> DEFINE w == clause.version
             op == clause.operator
             here == Rung(v)
             from == Rung(w)
             others == {i \in from .. Len(Ladder) : Ladder[i].pre = <<>> /\ ~SameFamily(op, Ladder[i], w)}
             u == UpperBound(w.core, op)
  <1>1. /\ here \in DOMAIN Ladder /\ Ladder[here] = v /\ v \in Versions
        /\ from \in DOMAIN Ladder /\ Ladder[from] = w /\ w \in Versions
        /\ here \in Nat /\ from \in Nat
    BY OnRung, LadderFacts
  <1>2. SemverCompare(v, w) = Sign(here, from)
    BY ComparedOnLadder
  <1>5. ClauseSatisfied(v, clause) = ClauseHolds(op, SemverCompare(v, w), SemverCompare(v, u))
    BY <1>1, ClauseCounted
  <1> HIDE DEF here, from
  <1>3. CASE op \in {"^", "~"}
    <2>1. /\ u \in Successors(w) /\ ~SameFamily(op, u, w) /\ u \in Versions /\ Precedes(w, u)
          /\ u.pre = <<>>
      BY <1>1, <1>3, UpperLeavesFamily DEF UpperBound, Version
    <2>2. u \in Range(Ladder)
      BY <1>3, <2>1
    <2> DEFINE up == Rung(u)
    <2>3. up \in DOMAIN Ladder /\ Ladder[up] = u /\ up \in Nat
      BY <2>2, OnRung, LadderFacts
    <2>4. SemverCompare(v, u) = Sign(here, up) /\ SemverCompare(w, u) = Sign(from, up)
      BY <2>2, ComparedOnLadder DEF here, from
    <2> HIDE DEF up, u
    <2>5. from < up
      <3>1. SemverCompare(w, u) = -1
        BY <1>1, <2>1, PrecedesCompares
      <3> QED BY <1>1, <2>3, <2>4, <3>1 DEF Sign
    <2>6. DOMAIN Ladder = 1 .. Len(Ladder) /\ Len(Ladder) \in Nat
      BY LadderAssumption
    <2>7. up \in others
      BY <1>1, <2>1, <2>3, <2>5, <2>6
    <2>8. ASSUME NEW i \in others PROVE up <= i
      <3>1. /\ i \in DOMAIN Ladder /\ i \in Nat /\ from <= i /\ Ladder[i].pre = <<>>
            /\ ~SameFamily(op, Ladder[i], w) /\ Ladder[i] \in Versions
        BY <1>1, <2>6, LadderFacts
      <3>2. ~(i < up)
        <4>1. SUFFICES ASSUME i < up PROVE FALSE
          OBVIOUS
        <4>2. Precedes(Ladder[i], u)
          BY <2>3, <3>1, <4>1, LadderAssumption
        <4>3. Ladder[i] = w \/ Precedes(w, Ladder[i])
          BY <1>1, <3>1, LadderAssumption
        <4>4. SameFamily(op, Ladder[i], w)
          BY <1>1, <1>3, <3>1, <4>2, <4>3, BelowUpperIsFamily DEF u
        <4> QED BY <3>1, <4>4
      <3> QED BY <2>3, <3>1, <3>2
    <2>9. others \subseteq Nat
      BY <1>1, <2>6
    <2>10. OnLadder(clause, v) <=> here >= from /\ \A i \in others : here < i
      BY <1>3 DEF OnLadder, here, from
    <2> HIDE DEF others
    <2>11. OnLadder(clause, v) <=> here >= from /\ here < up
      BY <1>1, <2>3, <2>7, <2>8, <2>9, <2>10
    <2>12. ClauseSatisfied(v, clause) <=> Sign(here, from) >= 0 /\ Sign(here, up) < 0
      BY <1>2, <1>3, <1>5, <2>4 DEF ClauseHolds
    <2> QED BY <1>1, <2>3, <2>11, <2>12 DEF Sign
  <1>4. CASE op \notin {"^", "~"}
    <2>1. ClauseSatisfied(v, clause) <=>
              CASE op = ">=" -> Sign(here, from) >= 0
                [] op = ">" -> Sign(here, from) > 0
                [] op = "<=" -> Sign(here, from) <= 0
                [] op = "<" -> Sign(here, from) < 0
                [] OTHER -> Sign(here, from) = 0
      BY <1>2, <1>4, <1>5 DEF ClauseHolds
    <2>2. OnLadder(clause, v) <=>
              CASE op = ">=" -> here >= from
                [] op = ">" -> here > from
                [] op = "<=" -> here <= from
                [] op = "<" -> here < from
                [] OTHER -> here = from
      BY <1>4 DEF OnLadder, here, from
    <2> QED BY <1>1, <2>1, <2>2 DEF Sign
  <1> QED BY <1>3, <1>4

-----------------------------------------------------------------------------
(* What the judge and the host leave behind.                               *)

\* The manifest is that of a document that was accepted; a service is bound under
\* an accepted one only, with the operations it declares.
Judged ==
    manifest = Manifest(raw) /\ Accepts(raw, Manifest(raw)) /\ ~Throws(raw)

Admitted ==
    /\ IsDocument(raw) /\ raw.service \in Services
    /\ manifest # None => Judged /\ verdict # "draft"
    /\ verdict = "accepted" => Judged
    /\ hello # None => verdict = "accepted" /\ hello \in Hellos /\ manifest.service # Absent
    /\ bound => verdict = "accepted" /\ OpsMatch(hello.ops, ServiceOps(manifest.commands))

LEMMA AdmittedInit == Init => Admitted
  <1> SUFFICES ASSUME Init PROVE Admitted
    OBVIOUS
  <1>1. PICK start \in Starts : raw = start.raw
    BY DEF Init
  <1>2. IsDocument(raw) /\ raw.service \in Services
    BY <1>1, DocumentsAssumption DEF Services
  <1> QED BY <1>2 DEF Init, Admitted

LEMMA AdmittedStep == Admitted /\ [Next]_vars => Admitted'
  <1> SUFFICES ASSUME Admitted, [Next]_vars PROVE Admitted'
    OBVIOUS
  <1>1. CASE Declare
    <2> PICK field \in DOMAIN Values : \E value \in Values[field] :
                  raw' = [raw EXCEPT ![field] = value]
      BY <1>1 DEF Declare
    <2> PICK value \in Values[field] : raw' = [raw EXCEPT ![field] = value]
      OBVIOUS
    <2>1. /\ raw' = [raw EXCEPT ![field] = value] /\ verdict = "draft" /\ verdict' = "draft"
          /\ hello' = hello /\ manifest' = manifest /\ bound' = bound
      BY <1>1 DEF Declare
    <2>2. IsDocument(raw) /\ raw.service \in Services /\ field \in DOMAIN PluginManifest
          /\ value \in PluginManifest[field]
      BY DocumentsAssumption DEF Admitted
    <2>3. "service" \in DOMAIN raw /\ DOMAIN raw = DOMAIN PluginManifest
      BY <2>2, Fields DEF IsDocument
    <2>4. raw'.service \in Services
      <3>1. CASE field = "service"
        <4>1. raw'.service = value /\ value \in Services
          BY <2>1, <2>3, <3>1 DEF Services
        <4> QED BY <4>1
      <3>2. CASE field # "service"
        BY <2>1, <2>2, <2>3, <3>2
      <3> QED BY <3>1, <3>2
    <2>5. IsDocument(raw')
      BY <2>1, <2>2 DEF IsDocument
    <2>6. manifest = None /\ hello = None /\ bound = FALSE
      BY <2>1 DEF Admitted
    <2> QED BY <2>1, <2>4, <2>5 DEF Admitted
  <1>2. CASE Judge
    <2>1. /\ verdict' = "accepted" \/ manifest' # None =>
                manifest' = Manifest(raw) /\ Accepts(raw, Manifest(raw)) /\ ~Throws(raw)
          /\ verdict' # "draft"
      BY <1>2 DEF Judge
    <2>2. verdict = "draft" /\ raw' = raw /\ hello' = hello /\ bound' = bound
      BY <1>2 DEF Judge
    <2>3. hello = None /\ ~bound
      BY <2>2 DEF Admitted
    <2> QED BY <2>1, <2>2, <2>3 DEF Admitted, Judged
  <1>3. ASSUME NEW frame \in Hellos, Hello(frame) PROVE Admitted'
    <2>1. /\ verdict = "accepted" /\ manifest.service # Absent /\ hello' = frame
          /\ raw' = raw /\ verdict' = verdict /\ manifest' = manifest
          /\ bound' => OpsMatch(frame.ops, ServiceOps(manifest.commands))
      BY <1>3 DEF Hello
    <2> QED BY <2>1 DEF Admitted, Judged
  <1>4. CASE UNCHANGED vars
    BY <1>4 DEF Admitted, Judged, vars
  <1> QED BY <1>1, <1>2, <1>3, <1>4 DEF Next

\* What the host binds to is the manifest of the document that was judged.
THEOREM AdmittedInductive == Spec => []Admitted
  BY AdmittedInit, AdmittedStep, PTL DEF Spec

LEMMA OfferedFollows ==
    ASSUME Admitted
    PROVE  OfferedIsCarriedOut
  <1> SUFFICES ASSUME Accepted PROVE OfferedIsCarriedOut
    BY DEF OfferedIsCarriedOut
  <1> DEFINE m == manifest
  <1>1. m = Manifest(raw) /\ Accepts(raw, Manifest(raw)) /\ ~Throws(raw) /\ IsDocument(raw)
    BY DEF Accepted, Admitted, Judged
  <1>2. /\ Given(m.headerActions) = m.headerActions /\ Given(m.statusItems) = m.statusItems
        /\ Entries(m.headerActions) = Range(Given(m.headerActions))
        /\ Entries(m.statusItems) = Range(Given(m.statusItems))
        /\ Entries(m.headerActions) \subseteq SettledActions(m.commands)
        /\ Entries(m.statusItems) \subseteq SettledItems(m.commands)
        /\ Entries(m.configuration) = Range(Given(m.configuration))
        /\ Entries(m.configuration) \subseteq SettledSettings
    BY <1>1, SectionsSettle DEF Settled
  <1>3. ~ServiceRulesBroken(m)
    BY <1>1 DEF Accepts
  <1>4. bound => Range(hello.ops) = ServiceOps(m.commands)
    BY DEF Admitted, OpsMatch
  <1> HIDE DEF m
  <1>5. \A name : DeclaredCommand(name, m.commands) => name \in {c.name : c \in Range(m.commands)}
    BY DEF DeclaredCommand, Range
  <1>6. Offered(m) \subseteq {c.name : c \in Range(m.commands)}
    <2>1. \A a \in Range(m.headerActions) : DeclaredCommand(a.command, m.commands)
      BY <1>2 DEF SettledActions, ActionKept
    <2>2. \A t \in Range(m.statusItems) : DeclaredCommand(t.command, m.commands)
      BY <1>2 DEF SettledItems, ItemKept
    <2>3. \A s \in Range(Given(m.schedules)) : DeclaredCommand(s.command, m.commands)
      BY <1>3 DEF ServiceRulesBroken
    <2> QED BY <1>5, <2>1, <2>2, <2>3 DEF Offered
  <1>7. ASSUME m.entry = "null"
        PROVE  /\ m.service # Absent
               /\ bound => \A c \in Range(m.commands) : c.name \in Range(hello.ops)
    <2>1. m.service # Absent /\ \A c \in Range(m.commands) : c.bind = "service"
      BY <1>3, <1>7 DEF ServiceRulesBroken
    <2>2. \A c \in Range(m.commands) : c.name \in ServiceOps(m.commands)
      BY <2>1 DEF ServiceOps
    <2> QED BY <1>4, <2>1, <2>2
  <1>8. ASSUME NEW s \in Range(Given(m.configuration)), s.type # "number"
        PROVE  ValidateSettingValue(s, s.default)
    <2>1. SettingKept(s)
      BY <1>2 DEF SettledSettings
    <2> QED BY <1>8, <2>1 DEF SettingKept, ValidateSettingValue
  <1> QED BY <1>4, <1>6, <1>7, <1>8 DEF OfferedIsCarriedOut, m

\* Behind everything an accepted manifest offers there is someone to do it: a command
\* of the manifest, and without an entry an operation of the bound binary, which has
\* no others.  Every default but a number's passes validateSettingValue.
THEOREM CarriedOut == Spec => []OfferedIsCarriedOut
  BY AdmittedInductive, OfferedFollows, PTL

\* A document as it is read.
LEMMA ReadIs ==
    ASSUME NEW doc, IsDocument(doc)
    PROVE  LET w == Read(doc) IN
           /\ \A f \in DOMAIN PluginManifest \ {"views", "configuration", "schedules", "skill"} :
                 w[f] = doc[f]
           /\ w.views = ReadViews(Given(doc.views))
           /\ w.configuration = SettingsRead(doc.configuration)
           /\ w.schedules = SchedulesRead(doc.schedules)
           /\ w.skill = IF doc.skill = Absent THEN doc.skill ELSE [doc.skill EXCEPT !.extra = FALSE]
  <1>1. DOMAIN doc = DOMAIN PluginManifest
    BY DocumentFields
  <1> QED BY <1>1, Fields DEF Read, SettingsRead, SchedulesRead

LEMMA KeptWhole ==
    ASSUME NEW doc, IsDocument(doc), Accepts(doc, Manifest(doc)), ~Throws(doc)
    PROVE  WhollyKept(Read(doc), Manifest(doc))
  <1> DEFINE m == Manifest(doc)
             w == Read(doc)
  <1>1. /\ \A f \in DOMAIN PluginManifest \ {"views", "configuration", "schedules", "skill"} :
              w[f] = doc[f]
        /\ w.views = ReadViews(Given(doc.views))
        /\ w.configuration = SettingsRead(doc.configuration)
        /\ w.schedules = SchedulesRead(doc.schedules)
        /\ w.skill = IF doc.skill = Absent THEN doc.skill ELSE [doc.skill EXCEPT !.extra = FALSE]
    BY ReadIs
  <1>2. /\ EachKept(Given(doc.libraries), Given(m.libraries))
        /\ EachKept(Given(SettingsRead(doc.configuration)), Given(m.configuration))
        /\ EachKept(Given(ReadViews(Given(doc.views))), Given(m.views))
        /\ EachKept(Given(doc.commands), Given(m.commands))
        /\ EachKept(Given(doc.overlays), Given(m.overlays))
        /\ EachKept(Given(doc.headerActions), Given(m.headerActions))
        /\ EachKept(Given(doc.statusItems), Given(m.statusItems))
        /\ EachKept(Given(doc.iconSets), Given(m.iconSets))
        /\ EachKept(Given(doc.fileViewers), Given(m.fileViewers))
        /\ EachKept(Given(doc.nodes), Given(m.nodes))
        /\ EachKept(Given(doc.programs), Given(m.programs))
        /\ EachKept(Given(SchedulesRead(doc.schedules)), Given(m.schedules))
    BY SectionsSettle
  <1>3. /\ Given(m.implements) = Given(doc.implements) /\ Given(m.consumes) = Given(doc.consumes)
        /\ m.events = Given(doc.events) /\ Given(m.events) = m.events
    BY FieldsSettle
  <1>4. /\ \A f \in {"id", "version", "renamedFrom", "appVersionRequirement",
                     "requiresEngine"} : m[f] = doc[f]
        /\ \A f \in {"name", "description", "author", "requiresNativeChildWebview",
                     "requiresEngineModules", "template", "entry"} :
              ValueKept(f, doc[f], m[f])
        /\ m.runtimeDependencies = doc.runtimeDependencies
        /\ PolicyKept(doc.runtime, m.runtime)
        /\ m.service = Absent <=> doc.service = Absent
        /\ doc.service # Absent => PartKept(doc.service, m.service)
        /\ m.skill = Absent <=> doc.skill = Absent
        /\ doc.skill # Absent => PartKept([doc.skill EXCEPT !.extra = FALSE], m.skill)
        /\ Given(m.permissions) = Given(doc.permissions)
    BY FieldsKept
  <1> HIDE DEF m, w
  <1>5. ASSUME NEW f \in {"id", "name", "version", "description", "author", "renamedFrom",
                          "appVersionRequirement", "requiresEngine", "requiresNativeChildWebview",
                          "requiresEngineModules", "template", "entry"}
        PROVE  ValueKept(f, w[f], m[f])
    <2>1. w[f] = doc[f]
      BY <1>1, Fields
    <2>2. CASE f \in {"id", "version", "renamedFrom", "appVersionRequirement", "requiresEngine"}
      BY <1>4, <2>1, <2>2, ValueStays
    <2>3. CASE f \in {"name", "description", "author", "requiresNativeChildWebview",
                      "requiresEngineModules", "template", "entry"}
      BY <1>4, <2>1, <2>3
    <2> QED BY <2>2, <2>3
  <1>6. ASSUME NEW list \in {"libraries", "configuration", "views", "commands", "overlays",
                             "headerActions", "statusItems", "iconSets", "fileViewers", "nodes",
                             "programs", "schedules"}
        PROVE  EachKept(Given(w[list]), Given(m[list]))
    <2>1. CASE list \in {"configuration", "views", "schedules"}
      BY <1>1, <1>2, <2>1
    <2>2. CASE list \notin {"configuration", "views", "schedules"}
      <3>1. w[list] = doc[list]
        BY <1>1, <2>2, Fields
      <3> QED BY <1>2, <2>2, <3>1
    <2> QED BY <2>1, <2>2
  <1>7. ASSUME NEW list \in {"implements", "consumes", "permissions", "events"}
        PROVE  Given(m[list]) = Given(w[list])
    <2>1. w[list] = doc[list]
      BY <1>1, Fields
    <2> QED BY <1>3, <1>4, <2>1
  <1>8. /\ w.runtimeDependencies = doc.runtimeDependencies /\ w.runtime = doc.runtime
        /\ w.service = doc.service
    BY <1>1, Fields
  <1>9. ASSUME NEW part \in {"service", "skill"}
        PROVE  IF w[part] = Absent THEN m[part] = Absent ELSE PartKept(w[part], m[part])
    <2>1. CASE part = "service"
      BY <1>4, <1>8, <2>1
    <2>2. CASE part = "skill"
      <3>1. CASE doc.skill = Absent
        BY <1>1, <1>4, <2>2, <3>1
      <3>2. CASE doc.skill # Absent
        <4>1. PartKept(w.skill, m.skill) /\ m.skill # Absent
          BY <1>1, <1>4, <3>2
        <4>2. w.skill # Absent
          <5>1. doc.skill \in ContributedSkill
            BY <3>2, DocumentFields, AcceptedSections DEF Maybe, SkillBlamed
          <5>2. w.skill \in ContributedSkill
            BY <1>1, <3>2, <5>1 DEF ContributedSkill
          <5> QED BY <5>2, NotNothing DEF Parts
        <4> QED BY <2>2, <4>1, <4>2
      <3> QED BY <3>1, <3>2
    <2> QED BY <2>1, <2>2
  <1>10. WhollyKept(w, m)
    BY <1>4, <1>5, <1>6, <1>7, <1>8, <1>9 DEF WhollyKept
  <1> QED BY <1>10 DEF m, w

LEMMA KeptFollows ==
    ASSUME Admitted
    PROVE  AcceptedIsKept
  <1> SUFFICES ASSUME manifest # None PROVE AcceptedIsKept
    BY DEF AcceptedIsKept
  <1>1. manifest = Manifest(raw) /\ Accepts(raw, Manifest(raw)) /\ ~Throws(raw) /\ IsDocument(raw)
    BY DEF Admitted, Judged
  <1>2. WhollyKept(Read(raw), manifest)
    BY <1>1, KeptWhole
  <1>3. Accepts(manifest, Manifest(manifest)) /\ ~Throws(manifest)
    BY <1>1, ManifestAccepted
  <1>4. Manifest(manifest) = manifest
    BY <1>1, ManifestSettles
  <1> QED BY <1>2, <1>3, <1>4 DEF AcceptedIsKept

\* Every value of an accepted document is in its manifest, as it was written or meant,
\* but for the four things parseManifest does not read; and the manifest is accepted
\* again and parsed to itself.
THEOREM KeptAsWritten == Spec => []AcceptedIsKept
  BY AdmittedInductive, KeptFollows, PTL

LEMMA RangesFollow ==
    ASSUME Admitted
    PROVE  RangesAgree
  <1> SUFFICES ASSUME hello # None PROVE RangesAgree
    BY DEF RangesAgree
  <1> DEFINE v == hello.interface.version
             range == manifest.service.interface.requirement
  <1>0. /\ hello \in Hellos /\ IsDocument(raw) /\ raw.service \in Services
        /\ manifest = Manifest(raw) /\ manifest.service # Absent
    BY DEF Admitted, Judged
  <1>1. manifest.service = Service(raw) /\ Service(raw) # Absent
    BY <1>0, DocumentFields, ManifestFields
  <1>2. range \in Declared /\ IsDependencyRange(range)
    BY <1>0, <1>1, DocumentFields, ServiceKept
  <1>3. v \in Range(Ladder) /\ v \in Versions
    BY <1>0, LadderAssumption, OnRung
  <1> HIDE DEF v, range
  <1>4. ASSUME NEW i \in DOMAIN range
        PROVE  /\ range[i].version \in Versions
               /\ OnLadder(range[i], v) <=> ClauseSatisfied(v, range[i])
    <2> DEFINE clause == range[i]
    <2>1. /\ clause.version \in Range(Ladder)
          /\ clause.operator \in {"^", "~"} =>
                \A u \in Successors(clause.version) :
                    SameFamily(clause.operator, u, clause.version) \/ u \in Range(Ladder)
      BY <1>2, LadderAssumption
    <2> HIDE DEF clause
    <2>2. OnLadder(clause, v) <=> ClauseSatisfied(v, clause)
      BY <1>3, <2>1, ClauseOnLadder
    <2>3. clause.version \in Versions
      BY <2>1, OnRung
    <2> QED BY <2>2, <2>3 DEF clause
  <1>5. /\ DependencyRequirementSatisfied(v, range) = RustSatisfies(v, range)
        /\ SemverSatisfies(v, range) =
               (RustSatisfies(v, range) /\ \A i \in DOMAIN range : BoundReadable(range[i]))
    BY <1>2, <1>3, <1>4, RequirementCounted
  <1>6. PrereleaseNamed(InDigits(v), BoundariesInDigits(range)) =
            PrereleaseNamed(v, [i \in DOMAIN range |-> range[i].version])
    BY <1>3, <1>4, PrereleaseNamedAlike
  <1>7. PrereleaseNamed(v, [i \in DOMAIN range |-> range[i].version]) <=>
            v.pre = <<>> \/ \E i \in DOMAIN range :
                                range[i].version.pre # <<>> /\ range[i].version.core = v.core
    BY DEF PrereleaseNamed
  <1>8. range # Star /\ IsUnitDependencyRange(range)
    BY <1>2 DEF IsDependencyRange, IsUnitDependencyRange
  <1>9. IsStrictSemver(v)
    BY <1>0, LadderAssumption DEF v
  <1>10. RustSatisfies(v, range) =
            /\ \A i \in DOMAIN range : OnLadder(range[i], v)
            /\ v.pre = <<>> \/ \E i \in DOMAIN range :
                                  range[i].version.pre # <<>> /\ range[i].version.core = v.core
    BY <1>4, <1>6, <1>7, <1>8, <1>9 DEF RustSatisfies
  <1> QED BY <1>5, <1>10 DEF RangesAgree, v, range

\* Of every requirement a manifest got past the TypeScript parser the host, which
\* counts in digits, and Go, which compares texts, say what the order of versions
\* says: clause_satisfied and dependencyClauseSatisfied agree, and satisfiesClause
\* with them where the bound of ^ or ~ is no longer than a version may be.
THEOREM AllAnswerAlike == Spec => []RangesAgree
  BY AdmittedInductive, RangesFollow, PTL
=============================================================================
