---------------------------- MODULE CsvImportProofs ----------------------------
(***************************************************************************)
(* Proofs about CsvImport, for any text, any attendees and any number of   *)
(* faults and of edits by others.                                          *)
(***************************************************************************)
EXTENDS CsvImport, FiniteSetTheorems, TLAPS

-------------------------------------------------------------------------------
(* Counting places *)

LEMMA CountFinite ==
  ASSUME NEW A, NEW n \in Int
  PROVE  IsFiniteSet(A \cap (1..n)) /\ Count(A, n) \in Nat
<1>1. IsFiniteSet(1..n)
  BY FS_Interval
<1>2. IsFiniteSet(A \cap (1..n))
  BY <1>1, FS_Subset
<1> QED
  BY <1>2, FS_CardinalityType DEF Count

LEMMA CountType ==
  ASSUME NEW A, NEW n \in Int
  PROVE  Count(A, n) \in Nat
BY CountFinite

(* One place more.                                                         *)
LEMMA CountStep ==
  ASSUME NEW A, NEW n \in Nat
  PROVE  Count(A, n + 1) = Count(A, n) + (IF n + 1 \in A THEN 1 ELSE 0)
<1>1. CASE n + 1 \in A
  <2>1. A \cap (1..(n + 1)) = (A \cap (1..n)) \cup {n + 1}
    BY <1>1
  <2>2. n + 1 \notin A \cap (1..n)
    OBVIOUS
  <2>3. IsFiniteSet(A \cap (1..n))
    BY CountFinite
  <2>4. Cardinality((A \cap (1..n)) \cup {n + 1}) = Cardinality(A \cap (1..n)) + 1
    BY <2>2, <2>3, FS_AddElement
  <2> QED
    BY <1>1, <2>1, <2>4 DEF Count
<1>2. CASE n + 1 \notin A
  <2>1. A \cap (1..(n + 1)) = A \cap (1..n)
    BY <1>2
  <2> QED
    BY <1>2, <2>1, CountType DEF Count
<1> QED
  BY <1>1, <1>2

LEMMA CountSkips ==
  ASSUME NEW A, NEW n \in Nat, n + 1 \notin A
  PROVE  Count(A, n + 1) = Count(A, n)
<1>1. Count(A, n) \in Nat
  BY CountType
<1> QED
  BY <1>1, CountStep

LEMMA CountMonotone ==
  ASSUME NEW A, NEW m \in Int, NEW n \in Int, m =< n
  PROVE  Count(A, m) =< Count(A, n)
<1>1. A \cap (1..m) \subseteq A \cap (1..n)
  OBVIOUS
<1> QED
  BY <1>1, CountFinite, FS_Subset DEF Count

LEMMA CountNone ==
  ASSUME NEW A, NEW n \in Int, A \cap (1..n) = {}
  PROVE  Count(A, n) = 0
BY FS_EmptySet DEF Count

LEMMA CountSome ==
  ASSUME NEW A, NEW n \in Int, NEW k \in A \cap (1..n)
  PROVE  Count(A, n) > 0
<1>1. Count(A, n) # 0
  BY CountFinite, FS_EmptySet DEF Count
<1>2. Count(A, n) \in Nat
  BY CountType
<1> QED
  BY <1>1, <1>2

LEMMA CountSame ==
  ASSUME NEW A, NEW B, NEW n, A \cap (1..n) = B \cap (1..n)
  PROVE  Count(A, n) = Count(B, n)
BY DEF Count

(* A set of places of a sequence, counted up to its end.                   *)
LEMMA CountAll ==
  ASSUME NEW n \in Nat, NEW A \in SUBSET (1..n)
  PROVE  Count(A, n) = Cardinality(A)
<1>1. A \cap (1..n) = A
  OBVIOUS
<1> QED
  BY <1>1 DEF Count

-------------------------------------------------------------------------------
(* Where a place is *)

LEMMA LineBounds ==
  ASSUME NEW E, NEW n \in Nat, NEW k \in 1..(n + 1)
  PROVE  Line(E, k) \in Nat /\ 1 =< Line(E, k) /\ Line(E, k) =< 1 + Count(E, n)
<1>0. k - 1 \in Int /\ n \in Int /\ k - 1 =< n
  OBVIOUS
<1>1. Count(E, k - 1) \in Nat /\ Count(E, n) \in Nat
  BY <1>0, CountType
<1>2. Count(E, k - 1) =< Count(E, n)
  BY <1>0, CountMonotone
<1> QED
  BY <1>1, <1>2 DEF Line

LEMMA FieldBounds ==
  ASSUME NEW E, NEW C, NEW n \in Nat, NEW k \in 1..(n + 1)
  PROVE  /\ Field(E, C, k) \in Nat /\ 1 =< Field(E, C, k)
         /\ Field(E, C, k) =< 1 + Count(OnLine(E, C, Line(E, k)), n)
<1> DEFINE A == OnLine(E, C, Line(E, k))
<1>0. k - 1 \in Int /\ n \in Int /\ k - 1 =< n
  OBVIOUS
<1>1. Count(A, k - 1) \in Nat /\ Count(A, n) \in Nat
  BY <1>0, CountType
<1>2. Count(A, k - 1) =< Count(A, n)
  BY <1>0, CountMonotone
<1>3. Field(E, C, k) = 1 + Count(A, k - 1)
  BY DEF Field
<1> HIDE DEF A
<1> QED
  BY <1>1, <1>2, <1>3 DEF A

LEMMA PlaceBounds ==
  ASSUME NEW E, NEW C, NEW M, NEW n \in Nat, NEW k \in M \cap (1..n)
  PROVE  PlaceOf(E, C, M, k)
           \in 1..Count(InField(E, C, M, Line(E, k), Field(E, C, k)), n)
<1> DEFINE A == InField(E, C, M, Line(E, k), Field(E, C, k))
<1>0. k \in Int /\ n \in Int /\ k =< n
  OBVIOUS
<1>1. Count(A, k) \in Nat /\ Count(A, n) \in Nat
  BY <1>0, CountType
<1>2. Count(A, k) =< Count(A, n)
  BY <1>0, CountMonotone
<1>3. k \in A \cap (1..k)
  BY DEF InField
<1>4. Count(A, k) > 0
  BY <1>3, CountSome
<1>5. PlaceOf(E, C, M, k) = Count(A, k)
  BY DEF PlaceOf
<1> HIDE DEF A
<1> QED
  BY <1>1, <1>2, <1>4, <1>5 DEF A

(* Tables over characters of S.                                            *)
Fields(S) == Seq(Seq(S))
Tables(S) == Seq([values : Fields(S), rowNumber : Nat])

LEMMA ElementOf ==
  ASSUME NEW X, NEW s \in Seq(X), NEW k \in 1..Len(s)
  PROVE  s[k] \in X
OBVIOUS

LEMMA RecordOfTable ==
  ASSUME NEW S, NEW T \in Tables(S), NEW l \in 1..Len(T)
  PROVE  T[l].values \in Fields(S) /\ T[l].rowNumber \in Nat
<1>1. T \in Seq([values : Fields(S), rowNumber : Nat])
  BY DEF Tables
<1>2. T[l] \in [values : Fields(S), rowNumber : Nat]
  BY <1>1, ElementOf
<1> QED
  BY <1>2

(* The marks read so far are in the table.                                 *)
LEMMA Located ==
  ASSUME NEW S, NEW t, NEW E, NEW C, NEW M, NEW n \in Nat, NEW T \in Tables(S),
         Says(t, E, C, M, n, T), NEW k \in M \cap (1..n)
  PROVE  /\ Line(E, k) \in 1..Len(T)
         /\ Field(E, C, k) \in 1..Len(T[Line(E, k)].values)
         /\ PlaceOf(E, C, M, k) \in 1..Len(T[Line(E, k)].values[Field(E, C, k)])
<1> DEFINE l == Line(E, k)
           f == Field(E, C, k)
<1>1. l \in 1..Len(T)
  <2>1. Len(T) = 1 + Count(E, n)
    BY DEF Says
  <2> QED
    BY <2>1, LineBounds, CountType
<1>2. T[l].values \in Fields(S)
  BY <1>1, RecordOfTable
<1>3. /\ Len(T[l].values) = 1 + Count(OnLine(E, C, l), n)
      /\ \A g \in 1..Len(T[l].values) :
           Len(T[l].values[g]) = Count(InField(E, C, M, l, g), n)
  BY <1>1, <1>2 DEF Says, Tables, Fields
<1>4. f \in 1..Len(T[l].values)
  BY <1>2, <1>3, FieldBounds, CountType DEF Fields
<1> QED
  BY <1>1, <1>3, <1>4, PlaceBounds

-------------------------------------------------------------------------------
(* What one place more adds to what a table says *)

(* Says in two parts, with the domains of a table written as intervals.    *)
Shape(E, C, M, n, T) ==
  /\ Len(T) = 1 + Count(E, n)
  /\ \A l \in 1..Len(T) :
       /\ T[l].rowNumber = l
       /\ Len(T[l].values) = 1 + Count(OnLine(E, C, l), n)
       /\ \A f \in 1..Len(T[l].values) :
            Len(T[l].values[f]) = Count(InField(E, C, M, l, f), n)

Contents(t, E, C, M, n, T) ==
  \A k \in M \cap (1..n) :
    T[Line(E, k)].values[Field(E, C, k)][PlaceOf(E, C, M, k)] = t[k]

LEMMA SaysOf ==
  ASSUME NEW S, NEW t, NEW E, NEW C, NEW M, NEW n, NEW T \in Tables(S)
  PROVE  Says(t, E, C, M, n, T) <=> Shape(E, C, M, n, T) /\ Contents(t, E, C, M, n, T)
<1>1. DOMAIN T = 1..Len(T)
  BY DEF Tables
<1>2. \A l \in 1..Len(T) : DOMAIN T[l].values = 1..Len(T[l].values)
  BY RecordOfTable DEF Fields
<1> QED
  BY <1>1, <1>2 DEF Says, Shape, Contents

(* The place behind those read is at the end of the table.                 *)
LEMMA NextPlace ==
  ASSUME NEW S, NEW t, NEW E, NEW C, NEW M, NEW n \in Nat, NEW T \in Tables(S),
         Says(t, E, C, M, n, T)
  PROVE  /\ Len(T) \in Nat /\ Len(T) >= 1
         /\ Line(E, n + 1) = Len(T)
         /\ Len(T[Len(T)].values) \in Nat /\ Len(T[Len(T)].values) >= 1
         /\ Field(E, C, n + 1) = Len(T[Len(T)].values)
<1>0. Shape(E, C, M, n, T)
  BY SaysOf
<1>1. Len(T) = 1 + Count(E, n) /\ Count(E, n) \in Nat
  BY <1>0, CountType DEF Shape
<1>2. (n + 1) - 1 = n
  OBVIOUS
<1>3. Line(E, n + 1) = Len(T)
  BY <1>1, <1>2 DEF Line
<1>4. Len(T) \in 1..Len(T)
  BY <1>1
<1>5. /\ Len(T[Len(T)].values) = 1 + Count(OnLine(E, C, Len(T)), n)
      /\ Count(OnLine(E, C, Len(T)), n) \in Nat
  BY <1>0, <1>4, CountType DEF Shape
<1>6. Field(E, C, n + 1) = Len(T[Len(T)].values)
  BY <1>2, <1>3, <1>5 DEF Field
<1> QED
  BY <1>1, <1>3, <1>5, <1>6

(* A place that is neither separates nor marks adds nothing.               *)
LEMMA SaysNothing ==
  ASSUME NEW S, NEW t, NEW E, NEW C, NEW M, NEW n \in Nat, NEW T \in Tables(S),
         Says(t, E, C, M, n, T), n + 1 \notin E \cup C \cup M
  PROVE  Says(t, E, C, M, n + 1, T)
<1>1. \A A : n + 1 \notin A => Count(A, n + 1) = Count(A, n)
  BY CountSkips
<1>2. Count(E, n + 1) = Count(E, n)
  BY <1>1
<1>3. \A l : Count(OnLine(E, C, l), n + 1) = Count(OnLine(E, C, l), n)
  BY <1>1 DEF OnLine
<1>4. \A l, f : Count(InField(E, C, M, l, f), n + 1)
                  = Count(InField(E, C, M, l, f), n)
  BY <1>1 DEF InField
<1>5. M \cap (1..(n + 1)) = M \cap (1..n)
  OBVIOUS
<1>6. Shape(E, C, M, n, T) /\ Contents(t, E, C, M, n, T)
  BY SaysOf
<1>7. Shape(E, C, M, n + 1, T)
  BY <1>2, <1>3, <1>4, <1>6 DEF Shape
<1>8. Contents(t, E, C, M, n + 1, T)
  BY <1>5, <1>6 DEF Contents
<1> QED
  BY <1>7, <1>8, SaysOf

(* A mark is put at the end of the last field.                             *)
LEMMA SaysMark ==
  ASSUME NEW S, NEW t, NEW E, NEW C, NEW M, NEW n \in Nat,
         NEW T \in Tables(S), NEW U \in Tables(S),
         Says(t, E, C, M, n, T), n + 1 \in M, n + 1 \notin E \cup C,
         Len(U) = Len(T),
         \A l \in 1..Len(T) :
            /\ U[l].rowNumber = T[l].rowNumber
            /\ Len(U[l].values) = Len(T[l].values)
            /\ \A f \in 1..Len(T[l].values) :
                 U[l].values[f] =
                   IF l = Len(T) /\ f = Len(T[l].values)
                     THEN Append(T[l].values[f], t[n + 1]) ELSE T[l].values[f]
  PROVE  Says(t, E, C, M, n + 1, U)
<1> DEFINE L == Len(T)
           G == Len(T[L].values)
<1>0. Shape(E, C, M, n, T) /\ Contents(t, E, C, M, n, T)
  BY SaysOf
<1>1. /\ L \in 1..L /\ Line(E, n + 1) = L
      /\ G \in 1..G /\ Field(E, C, n + 1) = G
  BY NextPlace
<1>2. /\ Count(E, n + 1) = Count(E, n)
      /\ \A l : Count(OnLine(E, C, l), n + 1) = Count(OnLine(E, C, l), n)
  <2>1. \A A : n + 1 \notin A => Count(A, n + 1) = Count(A, n)
    BY CountSkips
  <2> QED
    BY <2>1 DEF OnLine
<1>3. \A l, f : Count(InField(E, C, M, l, f), n + 1)
                  = Count(InField(E, C, M, l, f), n)
                    + IF l = L /\ f = G THEN 1 ELSE 0
  <2> TAKE l, f
  <2>1. n + 1 \in InField(E, C, M, l, f) <=> l = L /\ f = G
    BY <1>1 DEF InField
  <2> QED
    BY <2>1, CountStep
<1>4. \A l \in 1..L : T[l].values \in Fields(S)
  BY RecordOfTable
<1>5. \A l \in 1..L : \A f \in 1..Len(T[l].values) : T[l].values[f] \in Seq(S)
  BY <1>4, ElementOf DEF Fields
<1>6. \A l \in 1..L : \A f \in 1..Len(T[l].values) :
        Len(U[l].values[f]) = Len(T[l].values[f])
                              + IF l = L /\ f = G THEN 1 ELSE 0
  <2> TAKE l \in 1..L
  <2> TAKE f \in 1..Len(T[l].values)
  <2>1. T[l].values[f] \in Seq(S)
    BY <1>5
  <2>2. CASE l = L /\ f = G
    <3>1. U[l].values[f] = Append(T[l].values[f], t[n + 1])
      BY <2>2
    <3> QED
      BY <2>1, <2>2, <3>1
  <2>3. CASE ~(l = L /\ f = G)
    <3>1. U[l].values[f] = T[l].values[f]
      BY <2>3
    <3>2. Len(T[l].values[f]) \in Nat
      BY <2>1
    <3>3. Len(T[l].values[f]) = Len(T[l].values[f]) + 0
      BY <3>2
    <3> QED
      BY <2>3, <3>1, <3>3
  <2> QED
    BY <2>2, <2>3
<1>7. Len(U) = 1 + Count(E, n + 1)
  BY <1>0, <1>2 DEF Shape
<1>8. ASSUME NEW l \in 1..Len(U)
      PROVE  /\ U[l].rowNumber = l
             /\ Len(U[l].values) = 1 + Count(OnLine(E, C, l), n + 1)
             /\ \A f \in 1..Len(U[l].values) :
                  Len(U[l].values[f]) = Count(InField(E, C, M, l, f), n + 1)
  <2>1. /\ T[l].rowNumber = l
        /\ Len(T[l].values) = 1 + Count(OnLine(E, C, l), n)
        /\ \A f \in 1..Len(T[l].values) :
             Len(T[l].values[f]) = Count(InField(E, C, M, l, f), n)
    BY <1>0 DEF Shape
  <2>2. /\ l \in 1..L
        /\ U[l].rowNumber = T[l].rowNumber
        /\ Len(U[l].values) = Len(T[l].values)
    OBVIOUS
  <2>3. ASSUME NEW f \in 1..Len(T[l].values)
        PROVE  Len(U[l].values[f]) = Count(InField(E, C, M, l, f), n + 1)
    <3>1. Len(U[l].values[f]) = Len(T[l].values[f])
                                + IF l = L /\ f = G THEN 1 ELSE 0
      BY <1>6, <2>2
    <3>2. Len(T[l].values[f]) = Count(InField(E, C, M, l, f), n)
      BY <2>1
    <3> HIDE DEF L, G
    <3> QED
      BY <1>3, <3>1, <3>2
  <2> QED
    BY <1>2, <2>1, <2>2, <2>3
<1>9. ASSUME NEW k \in M \cap (1..(n + 1))
      PROVE  U[Line(E, k)].values[Field(E, C, k)][PlaceOf(E, C, M, k)] = t[k]
  <2>1. CASE k \in 1..n
    <3>1. /\ Line(E, k) \in 1..L
          /\ Field(E, C, k) \in 1..Len(T[Line(E, k)].values)
          /\ PlaceOf(E, C, M, k) \in 1..Len(T[Line(E, k)].values[Field(E, C, k)])
      BY <2>1, Located
    <3>2. T[Line(E, k)].values[Field(E, C, k)][PlaceOf(E, C, M, k)] = t[k]
      BY <1>0, <2>1 DEF Contents
    <3>3. T[Line(E, k)].values[Field(E, C, k)] \in Seq(S)
      BY <1>5, <3>1
    <3>4. U[Line(E, k)].values[Field(E, C, k)]
            \in {T[Line(E, k)].values[Field(E, C, k)],
                 Append(T[Line(E, k)].values[Field(E, C, k)], t[n + 1])}
      BY <3>1
    <3> QED
      BY <3>1, <3>2, <3>3, <3>4
  <2>2. CASE k = n + 1
    <3>1. PlaceOf(E, C, M, k) = Count(InField(E, C, M, L, G), n + 1)
      BY <1>1, <2>2 DEF PlaceOf
    <3>2. Len(T[L].values[G]) = Count(InField(E, C, M, L, G), n)
      BY <1>0, <1>1 DEF Shape
    <3>3. PlaceOf(E, C, M, k) = Len(T[L].values[G]) + 1
      BY <1>3, <3>1, <3>2
    <3>4. U[L].values[G] = Append(T[L].values[G], t[n + 1])
      BY <1>1
    <3> QED
      BY <1>1, <1>5, <2>2, <3>3, <3>4
  <2> QED
    BY <2>1, <2>2
<1>10. Shape(E, C, M, n + 1, U) /\ Contents(t, E, C, M, n + 1, U)
  BY <1>7, <1>8, <1>9 DEF Shape, Contents
<1> QED
  BY <1>10, SaysOf

(* A comma begins a field on the last line.                                *)
LEMMA SaysComma ==
  ASSUME NEW S, NEW t, NEW E, NEW C, NEW M, NEW n \in Nat,
         NEW T \in Tables(S), NEW U \in Tables(S),
         Says(t, E, C, M, n, T), n + 1 \in C, n + 1 \notin E \cup M,
         Len(U) = Len(T),
         \A l \in 1..Len(T) :
            /\ U[l].rowNumber = T[l].rowNumber
            /\ Len(U[l].values) = Len(T[l].values)
                                  + IF l = Len(T) THEN 1 ELSE 0
            /\ \A f \in 1..Len(T[l].values) : U[l].values[f] = T[l].values[f],
         U[Len(T)].values[Len(T[Len(T)].values) + 1] = <<>>
  PROVE  Says(t, E, C, M, n + 1, U)
<1> DEFINE L == Len(T)
           G == Len(T[L].values)
<1>0. Shape(E, C, M, n, T) /\ Contents(t, E, C, M, n, T)
  BY SaysOf
<1>1. /\ L \in 1..L /\ Line(E, n + 1) = L
      /\ G \in Nat /\ Field(E, C, n + 1) = G
  BY NextPlace
<1>2. \A A : n + 1 \notin A => Count(A, n + 1) = Count(A, n)
  BY CountSkips
<1>3. /\ Count(E, n + 1) = Count(E, n)
      /\ \A l, f : Count(InField(E, C, M, l, f), n + 1)
                     = Count(InField(E, C, M, l, f), n)
  BY <1>2 DEF InField
<1>4. \A l : Count(OnLine(E, C, l), n + 1)
               = Count(OnLine(E, C, l), n) + IF l = L THEN 1 ELSE 0
  <2> TAKE l
  <2>1. n + 1 \in OnLine(E, C, l) <=> l = L
    BY <1>1 DEF OnLine
  <2> QED
    BY <2>1, CountStep
<1>5. Count(InField(E, C, M, L, G + 1), n) = 0
  <2>1. G = 1 + Count(OnLine(E, C, L), n)
    BY <1>0, <1>1 DEF Shape
  <2>2. ASSUME NEW k \in 1..n, Line(E, k) = L
        PROVE  Field(E, C, k) # G + 1
    <3>1. k \in 1..(n + 1)
      OBVIOUS
    <3>2. Field(E, C, k) \in Nat /\ Field(E, C, k) =< 1 + Count(OnLine(E, C, L), n)
      BY <2>2, <3>1, FieldBounds
    <3> QED
      BY <1>1, <2>1, <3>2
  <2>3. InField(E, C, M, L, G + 1) \cap (1..n) = {}
    BY <2>2 DEF InField
  <2> QED
    BY <2>3, CountNone
<1>6. Len(U) = 1 + Count(E, n + 1)
  BY <1>0, <1>3 DEF Shape
<1>7. ASSUME NEW l \in 1..Len(U)
      PROVE  /\ U[l].rowNumber = l
             /\ Len(U[l].values) = 1 + Count(OnLine(E, C, l), n + 1)
             /\ \A f \in 1..Len(U[l].values) :
                  Len(U[l].values[f]) = Count(InField(E, C, M, l, f), n + 1)
  <2>1. /\ T[l].rowNumber = l
        /\ Len(T[l].values) = 1 + Count(OnLine(E, C, l), n)
        /\ \A f \in 1..Len(T[l].values) :
             Len(T[l].values[f]) = Count(InField(E, C, M, l, f), n)
    BY <1>0 DEF Shape
  <2>2. /\ l \in 1..L
        /\ U[l].rowNumber = T[l].rowNumber
        /\ Len(U[l].values) = Len(T[l].values) + IF l = L THEN 1 ELSE 0
        /\ \A f \in 1..Len(T[l].values) : U[l].values[f] = T[l].values[f]
    OBVIOUS
  <2>3. Count(OnLine(E, C, l), n) \in Nat
    BY CountType
  <2>4. Len(U[l].values) = 1 + Count(OnLine(E, C, l), n + 1)
    BY <1>4, <2>1, <2>2, <2>3
  <2>5. ASSUME NEW f \in 1..Len(U[l].values)
        PROVE  Len(U[l].values[f]) = Count(InField(E, C, M, l, f), n + 1)
    <3>1. CASE f \in 1..Len(T[l].values)
      BY <1>3, <2>1, <2>2, <3>1
    <3>2. CASE f \notin 1..Len(T[l].values)
      <4>1. l = L /\ f = G + 1
        BY <1>1, <2>1, <2>2, <2>3, <3>2
      <4>2. Len(U[L].values[G + 1]) = 0
        OBVIOUS
      <4>3. Count(InField(E, C, M, L, G + 1), n + 1) = 0
        BY <1>3, <1>5
      <4> QED
        BY <4>1, <4>2, <4>3
    <3> QED
      BY <3>1, <3>2
  <2> QED
    BY <2>1, <2>2, <2>4, <2>5
<1>8. ASSUME NEW k \in M \cap (1..(n + 1))
      PROVE  U[Line(E, k)].values[Field(E, C, k)][PlaceOf(E, C, M, k)] = t[k]
  <2>1. k \in M \cap (1..n)
    OBVIOUS
  <2>2. /\ Line(E, k) \in 1..L
        /\ Field(E, C, k) \in 1..Len(T[Line(E, k)].values)
    BY <2>1, Located
  <2>3. U[Line(E, k)].values[Field(E, C, k)] = T[Line(E, k)].values[Field(E, C, k)]
    BY <2>2
  <2> QED
    BY <1>0, <2>1, <2>3 DEF Contents
<1>9. Shape(E, C, M, n + 1, U) /\ Contents(t, E, C, M, n + 1, U)
  BY <1>6, <1>7, <1>8 DEF Shape, Contents
<1> QED
  BY <1>9, SaysOf

(* The end of a line begins the next, with a field.                        *)
LEMMA SaysEnd ==
  ASSUME NEW S, NEW t, NEW E, NEW C, NEW M, NEW n \in Nat,
         NEW T \in Tables(S), NEW U \in Tables(S),
         Says(t, E, C, M, n, T), n + 1 \in E, n + 1 \notin C \cup M,
         Len(U) = Len(T) + 1,
         \A l \in 1..Len(T) : U[l] = T[l],
         U[Len(T) + 1].rowNumber = Len(T) + 1,
         U[Len(T) + 1].values = <<<<>>>>
  PROVE  Says(t, E, C, M, n + 1, U)
<1> DEFINE L == Len(T)
<1>0. Shape(E, C, M, n, T) /\ Contents(t, E, C, M, n, T)
  BY SaysOf
<1>1. L \in Nat /\ L = 1 + Count(E, n) /\ Count(E, n) \in Nat
  BY <1>0, NextPlace, CountType DEF Shape
<1>2. \A A : n + 1 \notin A => Count(A, n + 1) = Count(A, n)
  BY CountSkips
<1>3. /\ \A l : Count(OnLine(E, C, l), n + 1) = Count(OnLine(E, C, l), n)
      /\ \A l, f : Count(InField(E, C, M, l, f), n + 1)
                     = Count(InField(E, C, M, l, f), n)
  BY <1>2 DEF OnLine, InField
<1>4. \A k \in 1..n : Line(E, k) # L + 1
  <2> TAKE k \in 1..n
  <2>1. k \in 1..(n + 1)
    OBVIOUS
  <2>2. Line(E, k) \in Nat /\ Line(E, k) =< 1 + Count(E, n)
    BY <2>1, LineBounds
  <2> QED
    BY <1>1, <2>2
<1>5. /\ Count(OnLine(E, C, L + 1), n) = 0
      /\ Count(InField(E, C, M, L + 1, 1), n) = 0
  <2>1. /\ OnLine(E, C, L + 1) \cap (1..n) = {}
        /\ InField(E, C, M, L + 1, 1) \cap (1..n) = {}
    BY <1>4 DEF OnLine, InField
  <2> QED
    BY <2>1, CountNone
<1>6. Len(U) = 1 + Count(E, n + 1)
  BY <1>1, CountStep
<1>7. ASSUME NEW l \in 1..Len(U)
      PROVE  /\ U[l].rowNumber = l
             /\ Len(U[l].values) = 1 + Count(OnLine(E, C, l), n + 1)
             /\ \A f \in 1..Len(U[l].values) :
                  Len(U[l].values[f]) = Count(InField(E, C, M, l, f), n + 1)
  <2>1. CASE l \in 1..L
    <3>1. U[l] = T[l]
      BY <2>1
    <3> QED
      BY <1>0, <1>3, <2>1, <3>1 DEF Shape
  <2>2. CASE l = L + 1
    <3>1. /\ U[l].rowNumber = l
          /\ U[l].values = <<<<>>>>
      BY <2>2
    <3>2. /\ Len(U[l].values) = 1
          /\ Len(U[l].values[1]) = 0
      BY <3>1
    <3>3. /\ Count(OnLine(E, C, l), n + 1) = 0
          /\ Count(InField(E, C, M, l, 1), n + 1) = 0
      BY <1>3, <1>5, <2>2
    <3> QED
      BY <3>1, <3>2, <3>3
  <2> QED
    BY <1>1, <2>1, <2>2
<1>8. ASSUME NEW k \in M \cap (1..(n + 1))
      PROVE  U[Line(E, k)].values[Field(E, C, k)][PlaceOf(E, C, M, k)] = t[k]
  <2>1. k \in M \cap (1..n)
    OBVIOUS
  <2>2. Line(E, k) \in 1..L
    BY <2>1, Located
  <2>3. U[Line(E, k)] = T[Line(E, k)]
    BY <2>2
  <2> QED
    BY <1>0, <2>1, <2>3 DEF Contents
<1>9. Shape(E, C, M, n + 1, U) /\ Contents(t, E, C, M, n + 1, U)
  BY <1>6, <1>7, <1>8 DEF Shape, Contents
<1> QED
  BY <1>9, SaysOf

(* Before the first place there is one line with one empty field.          *)
LEMMA SaysFirst ==
  ASSUME NEW S, NEW t, NEW E, NEW C, NEW M, NEW T \in Tables(S),
         Len(T) = 1, T[1].rowNumber = 1, T[1].values = <<<<>>>>
  PROVE  Says(t, E, C, M, 0, T)
<1>1. \A A : Count(A, 0) = 0
  BY CountNone
<1>2. /\ Len(T[1].values) = 1
      /\ Len(T[1].values[1]) = 0
  OBVIOUS
<1>3. Shape(E, C, M, 0, T)
  <2>1. Len(T) = 1 + Count(E, 0)
    BY <1>1
  <2>2. /\ Len(T[1].values) = 1 + Count(OnLine(E, C, 1), 0)
        /\ Len(T[1].values[1]) = Count(InField(E, C, M, 1, 1), 0)
    BY <1>1, <1>2
  <2>3. /\ \A l \in 1..Len(T) : l = 1
        /\ \A f \in 1..Len(T[1].values) : f = 1
    BY <1>2
  <2> QED
    BY <2>1, <2>2, <2>3 DEF Shape
<1>4. Contents(t, E, C, M, 0, T)
  BY DEF Contents
<1> QED
  BY <1>3, <1>4, SaysOf

-------------------------------------------------------------------------------
(* The table of the parser *)

(* The records R, and behind them the fields W and the last, F.            *)
Tab(R, W, F) == Append(R, [values |-> Append(W, F), rowNumber |-> Len(R) + 1])

LEMMA TabType ==
  ASSUME NEW S, NEW R \in Tables(S), NEW W \in Fields(S), NEW F \in Seq(S)
  PROVE  /\ Tab(R, W, F) \in Tables(S)
         /\ Len(R) \in Nat /\ Len(Tab(R, W, F)) = Len(R) + 1
         /\ \A l \in 1..Len(R) : Tab(R, W, F)[l] = R[l]
         /\ Tab(R, W, F)[Len(R) + 1]
              = [values |-> Append(W, F), rowNumber |-> Len(R) + 1]
<1>1. Append(W, F) \in Fields(S)
  BY DEF Fields
<1>2. Len(R) \in Nat
  BY DEF Tables
<1>3. [values |-> Append(W, F), rowNumber |-> Len(R) + 1]
        \in [values : Fields(S), rowNumber : Nat]
  BY <1>1, <1>2
<1> QED
  BY <1>2, <1>3 DEF Tab, Tables

LEMMA LastFields ==
  ASSUME NEW S, NEW W \in Fields(S), NEW F \in Seq(S)
  PROVE  /\ Append(W, F) \in Fields(S)
         /\ Len(W) \in Nat /\ Len(Append(W, F)) = Len(W) + 1
         /\ \A f \in 1..Len(W) : Append(W, F)[f] = W[f]
         /\ Append(W, F)[Len(W) + 1] = F
BY DEF Fields

LEMMA TabMark ==
  ASSUME NEW S, NEW R \in Tables(S), NEW W \in Fields(S), NEW F \in Seq(S),
         NEW t, NEW E, NEW C, NEW M, NEW n \in Nat,
         Says(t, E, C, M, n, Tab(R, W, F)),
         n + 1 \in M, n + 1 \notin E \cup C, t[n + 1] \in S
  PROVE  Says(t, E, C, M, n + 1, Tab(R, W, Append(F, t[n + 1])))
<1> DEFINE G == Append(F, t[n + 1])
           T == Tab(R, W, F)
           U == Tab(R, W, G)
<1>0. G \in Seq(S)
  OBVIOUS
<1> HIDE DEF G
<1>1. /\ T \in Tables(S) /\ Len(R) \in Nat /\ Len(T) = Len(R) + 1
      /\ \A l \in 1..Len(R) : T[l] = R[l]
      /\ T[Len(R) + 1] = [values |-> Append(W, F), rowNumber |-> Len(R) + 1]
  BY TabType
<1>2. /\ U \in Tables(S) /\ Len(U) = Len(R) + 1
      /\ \A l \in 1..Len(R) : U[l] = R[l]
      /\ U[Len(R) + 1] = [values |-> Append(W, G), rowNumber |-> Len(R) + 1]
  BY <1>0, TabType
<1>3. /\ Len(W) \in Nat /\ Len(Append(W, F)) = Len(W) + 1
      /\ \A f \in 1..Len(W) : Append(W, F)[f] = W[f]
      /\ Append(W, F)[Len(W) + 1] = F
  BY LastFields
<1>4. /\ Len(Append(W, G)) = Len(W) + 1
      /\ \A f \in 1..Len(W) : Append(W, G)[f] = W[f]
      /\ Append(W, G)[Len(W) + 1] = G
  BY <1>0, LastFields
<1>5. ASSUME NEW l \in 1..Len(T)
      PROVE  /\ U[l].rowNumber = T[l].rowNumber
             /\ Len(U[l].values) = Len(T[l].values)
             /\ \A f \in 1..Len(T[l].values) :
                  U[l].values[f] =
                    IF l = Len(T) /\ f = Len(T[l].values)
                      THEN Append(T[l].values[f], t[n + 1]) ELSE T[l].values[f]
  <2>1. CASE l \in 1..Len(R)
    <3>1. U[l] = T[l] /\ l # Len(T)
      BY <1>1, <1>2, <2>1
    <3> QED
      BY <3>1
  <2>2. CASE l = Len(R) + 1
    <3>1. /\ T[l].values = Append(W, F) /\ T[l].rowNumber = l
          /\ U[l].values = Append(W, G) /\ U[l].rowNumber = l
      BY <1>1, <1>2, <2>2
    <3>2. l = Len(T)
      BY <1>1, <2>2
    <3>3. Len(Append(W, G)) = Len(Append(W, F))
      BY <1>3, <1>4
    <3>4. ASSUME NEW f \in 1..Len(Append(W, F))
          PROVE  Append(W, G)[f] =
                   IF f = Len(Append(W, F))
                     THEN Append(Append(W, F)[f], t[n + 1]) ELSE Append(W, F)[f]
      <4>1. CASE f \in 1..Len(W)
        <5>1. f # Len(Append(W, F))
          BY <1>3, <4>1
        <5> QED
          BY <1>3, <1>4, <4>1, <5>1
      <4>2. CASE f = Len(W) + 1
        BY <1>3, <1>4, <4>2 DEF G
      <4> QED
        BY <1>3, <4>1, <4>2
    <3> HIDE DEF T, U
    <3> QED
      BY <3>1, <3>2, <3>3, <3>4
  <2> HIDE DEF T, U
  <2> QED
    BY <1>1, <2>1, <2>2
<1>6. Len(U) = Len(T)
  BY <1>1, <1>2
<1> HIDE DEF T, U
<1>7. Says(t, E, C, M, n, T)
  BY DEF T
<1>8. Says(t, E, C, M, n + 1, U)
  BY <1>1, <1>2, <1>5, <1>6, <1>7, SaysMark
<1> QED
  BY <1>8 DEF U, G

LEMMA TabComma ==
  ASSUME NEW S, NEW R \in Tables(S), NEW W \in Fields(S), NEW F \in Seq(S),
         NEW t, NEW E, NEW C, NEW M, NEW n \in Nat,
         Says(t, E, C, M, n, Tab(R, W, F)),
         n + 1 \in C, n + 1 \notin E \cup M
  PROVE  Says(t, E, C, M, n + 1, Tab(R, Append(W, F), <<>>))
<1> DEFINE V == Append(W, F)
           Z == <<>>
           T == Tab(R, W, F)
           U == Tab(R, V, Z)
<1>1. /\ T \in Tables(S) /\ Len(R) \in Nat /\ Len(T) = Len(R) + 1
      /\ \A l \in 1..Len(R) : T[l] = R[l]
      /\ T[Len(R) + 1] = [values |-> V, rowNumber |-> Len(R) + 1]
  BY TabType
<1>2. V \in Fields(S) /\ Len(V) \in Nat /\ Z \in Seq(S)
  BY LastFields
<1> HIDE DEF V, Z
<1>3. /\ U \in Tables(S) /\ Len(U) = Len(R) + 1
      /\ \A l \in 1..Len(R) : U[l] = R[l]
      /\ U[Len(R) + 1] = [values |-> Append(V, Z), rowNumber |-> Len(R) + 1]
  BY <1>2, TabType
<1>4. /\ Len(Append(V, Z)) = Len(V) + 1
      /\ \A f \in 1..Len(V) : Append(V, Z)[f] = V[f]
      /\ Append(V, Z)[Len(V) + 1] = Z
  BY <1>2, LastFields
<1> HIDE DEF T, U
<1>5. ASSUME NEW l \in 1..Len(T)
      PROVE  /\ U[l].rowNumber = T[l].rowNumber
             /\ Len(U[l].values) = Len(T[l].values) + IF l = Len(T) THEN 1 ELSE 0
             /\ \A f \in 1..Len(T[l].values) : U[l].values[f] = T[l].values[f]
  <2>1. CASE l \in 1..Len(R)
    <3>1. U[l] = T[l] /\ l # Len(T)
      BY <1>1, <1>3, <2>1
    <3>2. Len(T[l].values) \in Nat
      BY <1>1, RecordOfTable DEF Fields
    <3>3. Len(T[l].values) = Len(T[l].values) + 0
      BY <3>2
    <3> QED
      BY <3>1, <3>3
  <2>2. CASE l = Len(R) + 1
    <3>1. /\ T[l].values = V /\ T[l].rowNumber = l
          /\ U[l].values = Append(V, Z) /\ U[l].rowNumber = l
      BY <1>1, <1>3, <2>2
    <3>2. l = Len(T)
      BY <1>1, <2>2
    <3> QED
      BY <1>4, <3>1, <3>2
  <2>3. l \in 1..Len(R) \/ l = Len(R) + 1
    BY <1>1
  <2> QED
    BY <2>1, <2>2, <2>3
<1>6. Len(U) = Len(T)
  BY <1>1, <1>3
<1>7. U[Len(T)].values[Len(T[Len(T)].values) + 1] = <<>>
  BY <1>1, <1>3, <1>4 DEF Z
<1>8. Says(t, E, C, M, n, T)
  BY DEF T
<1>9. Says(t, E, C, M, n + 1, U)
  BY <1>1, <1>3, <1>5, <1>6, <1>7, <1>8, SaysComma
<1> QED
  BY <1>9 DEF U, V, Z

LEMMA TabEnd ==
  ASSUME NEW S, NEW R \in Tables(S), NEW W \in Fields(S), NEW F \in Seq(S),
         NEW t, NEW E, NEW C, NEW M, NEW n \in Nat,
         Says(t, E, C, M, n, Tab(R, W, F)),
         n + 1 \in E, n + 1 \notin C \cup M
  PROVE  Says(t, E, C, M, n + 1, Tab(Tab(R, W, F), <<>>, <<>>))
<1> DEFINE T == Tab(R, W, F)
           Z == <<>>
           U == Tab(T, Z, Z)
<1>1. T \in Tables(S)
  BY TabType
<1> HIDE DEF T
<1>2. Z \in Fields(S) /\ Z \in Seq(S)
  BY DEF Fields
<1> HIDE DEF Z
<1>3. /\ U \in Tables(S) /\ Len(T) \in Nat /\ Len(U) = Len(T) + 1
      /\ \A l \in 1..Len(T) : U[l] = T[l]
      /\ U[Len(T) + 1]
           = [values |-> Append(Z, Z), rowNumber |-> Len(T) + 1]
  BY <1>1, <1>2, TabType
<1> HIDE DEF U
<1>4. Append(Z, Z) = <<<<>>>>
  BY DEF Z
<1>5. /\ U[Len(T) + 1].rowNumber = Len(T) + 1
      /\ U[Len(T) + 1].values = <<<<>>>>
  BY <1>3, <1>4
<1>6. Says(t, E, C, M, n, T)
  BY DEF T
<1>7. Says(t, E, C, M, n + 1, U)
  BY <1>1, <1>3, <1>5, <1>6, SaysEnd
<1> QED
  BY <1>7 DEF U, T, Z

-------------------------------------------------------------------------------
(* What the characters of a text are for *)

Chars(t) == {t[k] : k \in DOMAIN t}

LEMMA WithinFirst ==
  ASSUME NEW t
  PROVE  ~Within(t, 1)
<1>1. Count({j \in DOMAIN t : t[j] = Quote}, 0) = 0
  BY CountNone
<1>2. 1 - 1 = 0 /\ 0 % 2 # 1
  OBVIOUS
<1> QED
  BY <1>1, <1>2 DEF Within

LEMMA WithinNext ==
  ASSUME NEW t, t \in Seq(Chars(t)), NEW k \in 1..Len(t)
  PROVE  Within(t, k + 1) <=> (Within(t, k) <=> t[k] # Quote)
<1> DEFINE Q == {j \in DOMAIN t : t[j] = Quote}
<1>1. k - 1 \in Nat /\ (k - 1) + 1 = k /\ (k + 1) - 1 = k
  OBVIOUS
<1>2. k \in Q <=> t[k] = Quote
  OBVIOUS
<1> HIDE DEF Q
<1>3. Count(Q, k - 1) \in Nat
  BY <1>1, CountType
<1>4. Count(Q, k) = Count(Q, k - 1) + IF k \in Q THEN 1 ELSE 0
  BY <1>1, CountStep
<1>5. \A x \in Nat : (x + 1) % 2 = 1 <=> x % 2 # 1
  OBVIOUS
<1>6. Count(Q, k) % 2 = 1 <=> (Count(Q, k - 1) % 2 = 1 <=> t[k] # Quote)
  BY <1>2, <1>3, <1>4, <1>5
<1> QED
  BY <1>1, <1>6 DEF Within, Q

(* Every place has one role or none.                                       *)
LEMMA Roles ==
  ASSUME NEW t, t \in Seq(Chars(t)), NEW k \in 1..Len(t)
  PROVE  /\ k \notin Separators(t, LF) \/ k \notin Separators(t, Comma)
         /\ k \notin Separators(t, LF) \cup Separators(t, Comma) \/ k \notin Marks(t)
         /\ k \in Separators(t, Comma) <=> t[k] = Comma /\ ~Within(t, k)
         /\ k \in Separators(t, LF) <=> t[k] = LF /\ ~Within(t, k)
         /\ t[k] # Quote =>
              (k \in Marks(t) <=> (t[k] \in {Comma, LF} => Within(t, k)))
         /\ t[k] = Quote =>
              /\ k \notin Separators(t, LF) \cup Separators(t, Comma)
              /\ k \in Marks(t) <=> k > 1 /\ t[k - 1] = Quote /\ ~Within(t, k)
<1>1. k \in DOMAIN t
  OBVIOUS
<1>2. Comma # LF /\ Quote # Comma /\ Quote # LF
  BY DEF Comma, LF, Quote
<1>3. /\ k \in Separators(t, Comma) <=> t[k] = Comma /\ ~Within(t, k)
      /\ k \in Separators(t, LF) <=> t[k] = LF /\ ~Within(t, k)
  BY <1>1 DEF Separators
<1>4. /\ t[k] # Quote =>
           (k \in Marks(t) <=> (t[k] \in {Comma, LF} => Within(t, k)))
      /\ t[k] = Quote =>
           (k \in Marks(t) <=> k > 1 /\ t[k - 1] = Quote /\ ~Within(t, k))
  BY <1>1 DEF Marks
<1> QED
  BY <1>2, <1>3, <1>4

(* What the first n places of t say.                                       *)
Said(t, n, T) ==
  Says(t, Separators(t, LF), Separators(t, Comma), Marks(t), n, T)

LEMMA SaidMark ==
  ASSUME NEW t, t \in Seq(Chars(t)), NEW R \in Tables(Chars(t)),
         NEW W \in Fields(Chars(t)), NEW F \in Seq(Chars(t)),
         NEW k \in 1..Len(t), k \in Marks(t), Said(t, k - 1, Tab(R, W, F))
  PROVE  Said(t, k, Tab(R, W, Append(F, t[k])))
<1>1. k - 1 \in Nat /\ (k - 1) + 1 = k /\ t[k] \in Chars(t)
  BY DEF Chars
<1>2. k \notin Separators(t, LF) \cup Separators(t, Comma)
  BY Roles
<1> QED
  BY <1>1, <1>2, TabMark DEF Said

LEMMA SaidNothing ==
  ASSUME NEW t, t \in Seq(Chars(t)), NEW T \in Tables(Chars(t)),
         NEW k \in 1..Len(t),
         k \notin Marks(t) \cup Separators(t, LF) \cup Separators(t, Comma),
         Said(t, k - 1, T)
  PROVE  Said(t, k, T)
<1>1. k - 1 \in Nat /\ (k - 1) + 1 = k
  OBVIOUS
<1> QED
  BY <1>1, SaysNothing DEF Said

LEMMA SaidComma ==
  ASSUME NEW t, t \in Seq(Chars(t)), NEW R \in Tables(Chars(t)),
         NEW W \in Fields(Chars(t)), NEW F \in Seq(Chars(t)),
         NEW k \in 1..Len(t), k \in Separators(t, Comma),
         Said(t, k - 1, Tab(R, W, F))
  PROVE  Said(t, k, Tab(R, Append(W, F), <<>>))
<1>1. k - 1 \in Nat /\ (k - 1) + 1 = k
  OBVIOUS
<1>2. k \notin Separators(t, LF) \cup Marks(t)
  BY Roles
<1> QED
  BY <1>1, <1>2, TabComma DEF Said

LEMMA SaidEnd ==
  ASSUME NEW t, t \in Seq(Chars(t)), NEW R \in Tables(Chars(t)),
         NEW W \in Fields(Chars(t)), NEW F \in Seq(Chars(t)),
         NEW k \in 1..Len(t), k \in Separators(t, LF),
         Said(t, k - 1, Tab(R, W, F))
  PROVE  Said(t, k, Tab(Tab(R, W, F), <<>>, <<>>))
<1>1. k - 1 \in Nat /\ (k - 1) + 1 = k
  OBVIOUS
<1>2. k \notin Separators(t, Comma) \cup Marks(t)
  BY Roles
<1> QED
  BY <1>1, <1>2, TabEnd DEF Said

(* The last line of a text is empty exactly if the parser has read nothing *)
(* since the last end of a line.                                           *)
LEMMA LastLine ==
  ASSUME NEW t, t \in Seq(Chars(t)), NEW R \in Tables(Chars(t)),
         NEW W \in Fields(Chars(t)), NEW F \in Seq(Chars(t)),
         Said(t, Len(t), Tab(R, W, F))
  PROVE  OnLine(Separators(t, LF), Separators(t, Comma) \cup Marks(t),
                1 + Cardinality(Separators(t, LF))) = {}
           <=> W = <<>> /\ F = <<>>
<1> DEFINE n == Len(t)
           S == Chars(t)
           E == Separators(t, LF)
           C == Separators(t, Comma)
           M == Marks(t)
           T == Tab(R, W, F)
           L == 1 + Cardinality(E)
           A == OnLine(E, C, L)
           B == InField(E, C, M, L, Len(W) + 1)
<1>1. n \in Nat /\ E \in SUBSET (1..n) /\ C \in SUBSET (1..n) /\ M \in SUBSET (1..n)
  BY DEF Separators, Marks
<1>2. /\ T \in Tables(S) /\ Len(R) \in Nat /\ Len(T) = Len(R) + 1
      /\ T[Len(R) + 1] = [values |-> Append(W, F), rowNumber |-> Len(R) + 1]
  BY TabType
<1>3. /\ Len(W) \in Nat /\ Len(Append(W, F)) = Len(W) + 1
      /\ Append(W, F)[Len(W) + 1] = F
  BY LastFields
<1>4. Says(t, E, C, M, n, T)
  BY DEF Said
<1> HIDE DEF n, S, E, C, M, T
<1>5. Shape(E, C, M, n, T)
  BY <1>2, <1>4, SaysOf
<1>6. Count(E, n) = Cardinality(E)
  BY <1>1, CountAll
<1>7. L = Len(T) /\ L \in 1..Len(T)
  BY <1>2, <1>5, <1>6 DEF Shape
<1>8. Len(T[L].values) = Len(W) + 1 /\ T[L].values[Len(W) + 1] = F
  BY <1>2, <1>3, <1>7
<1>9. /\ Len(W) + 1 = 1 + Count(A, n)
      /\ Len(F) = Count(B, n)
  <2> HIDE DEF L
  <2>1. Len(W) + 1 \in 1..Len(T[L].values)
    BY <1>3, <1>8
  <2> QED
    BY <1>5, <1>7, <1>8, <2>1 DEF Shape
<1>10. Count(A, n) \in Nat
  BY <1>1, CountType
<1>11. ASSUME OnLine(E, C \cup M, L) = {}
       PROVE  W = <<>> /\ F = <<>>
  <2>1. A \cap (1..n) = {} /\ B \cap (1..n) = {}
    BY <1>11 DEF OnLine, InField
  <2>2. Count(A, n) = 0 /\ Count(B, n) = 0
    BY <1>1, <2>1, CountNone
  <2>3. Len(W) = 0 /\ Len(F) = 0
    BY <1>3, <1>9, <2>2
  <2> QED
    BY <2>3 DEF Fields
<1>12. ASSUME W = <<>>, F = <<>>
       PROVE  OnLine(E, C \cup M, L) = {}
  <2>1. Count(A, n) = 0 /\ Count(B, n) = 0 /\ Len(W) = 0
    BY <1>9, <1>10, <1>12
  <2>2. ASSUME NEW k \in C
        PROVE  Line(E, k) # L
    <3>1. k \notin A \cap (1..n)
      BY <1>1, <2>1, CountSome
    <3> QED
      BY <1>1, <3>1 DEF OnLine
  <2>3. ASSUME NEW k \in M, Line(E, k) = L
        PROVE  FALSE
    <3>1. k \in 1..n /\ k \in 1..(n + 1)
      BY <1>1
    <3>2. /\ Field(E, C, k) \in Nat /\ 1 =< Field(E, C, k)
          /\ Field(E, C, k) =< 1 + Count(OnLine(E, C, L), n)
      BY <1>1, <2>3, <3>1, FieldBounds
    <3>3. Field(E, C, k) = Len(W) + 1
      BY <2>1, <3>2
    <3>4. k \in B \cap (1..n)
      BY <2>3, <3>1, <3>3 DEF InField
    <3> QED
      BY <1>1, <2>1, <3>4, CountSome
  <2> QED
    BY <2>2, <2>3 DEF OnLine
<1> QED
  BY <1>11, <1>12 DEF E, C, M

-------------------------------------------------------------------------------
(* The parser *)

(* The records R are what t says, with a last empty line left out.         *)
Parsed(t, R) ==
  LET last == OnLine(Separators(t, LF), Separators(t, Comma) \cup Marks(t),
                     1 + Cardinality(Separators(t, LF)))
  IN  Said(t, Len(t), IF last = {} THEN Tab(R, <<>>, <<>>) ELSE R)

Phases == {"parse", "map", "look", "insert", "done"}

(* While the parser reads, its records, its fields and the field it is in  *)
(* are what the text says up to the place it is at; it is within quotes    *)
(* where the text is, and never outside between the two quotes of a pair.  *)
Reading ==
  /\ i \in 1..(Len(text) + 1)
  /\ inQuotes <=> Within(text, i)
  /\ ~inQuotes /\ i > 1 /\ i =< Len(text) /\ text[i - 1] = Quote => text[i] # Quote
  /\ Said(text, i - 1, Tab(rows, row, field))

ParserType ==
  /\ at \in Phases
  /\ text \in Seq(Chars(text))
  /\ inQuotes \in BOOLEAN
  /\ field \in Seq(Chars(text)) /\ row \in Fields(Chars(text))
  /\ rows \in Tables(Chars(text))
  /\ \A r \in 1..Len(rows) : rows[r].rowNumber = r

ParserInv ==
  /\ ParserType
  /\ at = "parse" => Reading
  /\ at # "parse" => Parsed(text, rows)

LEMMA PickType ==
  ASSUME NEW s, NEW A, IsFiniteSet(A)
  PROVE  \E n \in Nat : DOMAIN Pick(s, A) = 1..n
BY FS_CardinalityType DEF Pick

(* What is left of an upload is a sequence of its characters.              *)
LEMMA CleanType ==
  ASSUME NEW s, s \in Seq(Chars(s))
  PROVE  Clean(s) \in Seq(Chars(Clean(s)))
<1> DEFINE FirstOfPair(k) == s[k] = CR /\ k < Len(s) /\ s[k + 1] = LF
           A == {k \in DOMAIN s : ~FirstOfPair(k) /\ ~(k = 1 /\ s[k] = BOM)}
           kept == Pick(s, A)
           c == [k \in DOMAIN kept |-> IF kept[k] = CR THEN LF ELSE kept[k]]
<1>1. Clean(s) = c
  BY DEF Clean
<1>2. IsFiniteSet(DOMAIN s)
  <2>1. DOMAIN s = 1..Len(s) /\ Len(s) \in Nat
    OBVIOUS
  <2> QED
    BY <2>1, FS_Interval
<1>3. IsFiniteSet(A)
  BY <1>2, FS_Subset
<1> HIDE DEF A
<1>4. PICK n \in Nat : DOMAIN kept = 1..n
  BY <1>3, PickType
<1>5. c \in [1..n -> Chars(c)]
  BY <1>4 DEF Chars
<1> HIDE DEF c
<1>6. c \in Seq(Chars(c))
  BY <1>5
<1> QED
  BY <1>1, <1>6

LEMMA InitParser == Init => ParserInv
<1> SUFFICES ASSUME Init PROVE ParserInv
  OBVIOUS
<1> DEFINE Z == <<>>
<1>1. text \in Seq(Chars(text))
  <2>1. PICK upload \in Texts : text = Clean(upload)
    BY DEF Init
  <2>2. upload \in Seq(Chars(upload))
    BY CsvAssumption DEF Chars
  <2> QED
    BY <2>1, <2>2, CleanType
<1>2. Z \in Seq(Chars(text)) /\ Z \in Fields(Chars(text)) /\ Z \in Tables(Chars(text))
  BY DEF Fields, Tables
<1>3. field = Z /\ row = Z /\ rows = Z /\ i = 1 /\ inQuotes = FALSE /\ at = "parse"
  BY DEF Init
<1>4. ParserType
  <2>1. \A r \in 1..Len(Z) : rows[r].rowNumber = r
    OBVIOUS
  <2> HIDE DEF Z
  <2> QED
    BY <1>1, <1>2, <1>3, <2>1 DEF ParserType, Phases
<1>5. Said(text, 0, Tab(Z, Z, Z))
  <2> HIDE DEF Z
  <2>1. /\ Tab(Z, Z, Z) \in Tables(Chars(text))
        /\ Len(Tab(Z, Z, Z)) = Len(Z) + 1
        /\ Tab(Z, Z, Z)[Len(Z) + 1]
             = [values |-> Append(Z, Z), rowNumber |-> Len(Z) + 1]
    BY <1>2, TabType
  <2>2. Len(Z) = 0 /\ Append(Z, Z) = <<<<>>>>
    BY DEF Z
  <2>3. /\ Len(Tab(Z, Z, Z)) = 1
        /\ Tab(Z, Z, Z)[1].rowNumber = 1 /\ Tab(Z, Z, Z)[1].values = <<<<>>>>
    BY <2>1, <2>2
  <2> QED
    BY <2>1, <2>3, SaysFirst DEF Said
<1>6. Reading
  BY <1>1, <1>3, <1>5, WithinFirst DEF Reading
<1> QED
  BY <1>3, <1>4, <1>6 DEF ParserInv

LEMMA ReadEscapedQuote == ParserInv /\ EscapedQuote => ParserInv'
<1> SUFFICES ASSUME ParserInv, EscapedQuote PROVE ParserInv'
  OBVIOUS
<1>1. /\ at = "parse" /\ i < Len(text) /\ text[i] = Quote /\ text[i + 1] = Quote
      /\ inQuotes /\ field' = Append(field, Quote) /\ i' = i + 2
      /\ UNCHANGED <<text, at, inQuotes, row, rows>>
  BY DEF EscapedQuote, Reads, Doubled, Skip
<1>2. ParserType /\ Reading
  BY <1>1 DEF ParserInv
<1>3. /\ text \in Seq(Chars(text)) /\ i \in 1..Len(text) /\ i + 1 \in 1..Len(text)
      /\ (i + 1) - 1 = i /\ (i + 2) - 1 = i + 1 /\ (i + 1) + 1 = i + 2
      /\ i + 1 > 1
  BY <1>1, <1>2 DEF ParserType, Reading
<1>4. Within(text, i) /\ ~Within(text, i + 1) /\ Within(text, i + 2)
  BY <1>1, <1>2, <1>3, WithinNext DEF Reading
<1>5. Said(text, i, Tab(rows, row, field))
  <2>1. i \notin Marks(text) \cup Separators(text, LF) \cup Separators(text, Comma)
    BY <1>1, <1>3, <1>4, Roles
  <2>2. Tab(rows, row, field) \in Tables(Chars(text))
    BY <1>2, TabType DEF ParserType
  <2> QED
    BY <1>2, <1>3, <2>1, <2>2, SaidNothing DEF Reading
<1>6. Said(text, i + 1, Tab(rows, row, Append(field, text[i + 1])))
  <2>1. i + 1 \in Marks(text)
    BY <1>1, <1>3, <1>4, Roles
  <2> QED
    BY <1>2, <1>3, <1>5, <2>1, SaidMark DEF ParserType
<1>7. field' \in Seq(Chars(text))
  <2>1. Quote \in Chars(text)
    BY <1>1, <1>3 DEF Chars
  <2> QED
    BY <1>1, <1>2, <2>1 DEF ParserType
<1>8. ParserType'
  BY <1>1, <1>2, <1>7 DEF ParserType
<1>9. Reading'
  <2>1. i' \in 1..(Len(text) + 1)
    BY <1>1, <1>3
  <2>2. Said(text, i' - 1, Tab(rows, row, field'))
    BY <1>1, <1>3, <1>6
  <2> QED
    BY <1>1, <1>4, <2>1, <2>2 DEF Reading
<1> QED
  BY <1>1, <1>8, <1>9 DEF ParserInv

LEMMA ReadPlainQuote == ParserInv /\ PlainQuote => ParserInv'
<1> SUFFICES ASSUME ParserInv, PlainQuote PROVE ParserInv'
  OBVIOUS
<1>1. /\ at = "parse" /\ i =< Len(text) /\ text[i] = Quote
      /\ ~(inQuotes /\ Doubled) /\ inQuotes' = ~inQuotes /\ i' = i + 1
      /\ UNCHANGED <<text, at, field, row, rows>>
  BY DEF PlainQuote, Reads, Skip
<1>2. ParserType /\ Reading
  BY <1>1 DEF ParserInv
<1>3. /\ text \in Seq(Chars(text)) /\ i \in 1..Len(text) /\ (i + 1) - 1 = i
  BY <1>1, <1>2 DEF ParserType, Reading
<1>4. inQuotes <=> Within(text, i)
  BY <1>2 DEF Reading
<1>5. Within(text, i + 1) <=> ~Within(text, i)
  BY <1>1, <1>3, WithinNext
<1>6. Said(text, i, Tab(rows, row, field))
  <2>1. i \notin Marks(text)
    <3>1. i > 1 /\ text[i - 1] = Quote => Within(text, i)
      BY <1>1, <1>2 DEF Reading
    <3> QED
      BY <1>1, <1>3, <3>1, Roles
  <2>2. i \notin Separators(text, LF) \cup Separators(text, Comma)
    BY <1>1, <1>3, Roles
  <2>3. Tab(rows, row, field) \in Tables(Chars(text))
    BY <1>2, TabType DEF ParserType
  <2> QED
    BY <1>2, <1>3, <2>1, <2>2, <2>3, SaidNothing DEF Reading
<1>7. ParserType'
  BY <1>1, <1>2 DEF ParserType
<1>8. Reading'
  <2>1. i' \in 1..(Len(text) + 1)
    BY <1>1, <1>3
  <2>2. Said(text, i' - 1, Tab(rows, row, field))
    BY <1>1, <1>3, <1>6
  <2>3. inQuotes' <=> Within(text, i')
    BY <1>1, <1>4, <1>5
  <2>4. ~inQuotes' /\ i' =< Len(text) => text[i'] # Quote
    <3> SUFFICES ASSUME ~inQuotes', i' =< Len(text) PROVE text[i'] # Quote
      OBVIOUS
    <3>1. inQuotes
      BY <1>1
    <3>2. ~Doubled
      BY <1>1, <3>1
    <3>3. i < Len(text) /\ i' = i + 1
      BY <1>1, <1>3
    <3> QED
      BY <3>2, <3>3 DEF Doubled
  <2> QED
    BY <1>1, <2>1, <2>2, <2>3, <2>4 DEF Reading
<1> QED
  BY <1>1, <1>7, <1>8 DEF ParserInv

LEMMA ReadComma == ParserInv /\ EndField => ParserInv'
<1> SUFFICES ASSUME ParserInv, EndField PROVE ParserInv'
  OBVIOUS
<1>1. /\ at = "parse" /\ i =< Len(text) /\ text[i] = Comma /\ ~inQuotes
      /\ row' = Append(row, field) /\ field' = <<>> /\ i' = i + 1
      /\ UNCHANGED <<text, at, inQuotes, rows>>
  BY DEF EndField, Reads, Skip
<1>2. ParserType /\ Reading
  BY <1>1 DEF ParserInv
<1>3. /\ text \in Seq(Chars(text)) /\ i \in 1..Len(text) /\ (i + 1) - 1 = i
      /\ text[i] # Quote
  BY <1>1, <1>2 DEF ParserType, Reading, Comma, Quote
<1>4. ~Within(text, i) /\ ~Within(text, i + 1)
  BY <1>1, <1>2, <1>3, WithinNext DEF Reading
<1>5. Said(text, i, Tab(rows, Append(row, field), <<>>))
  <2>1. i \in Separators(text, Comma)
    BY <1>1, <1>3, <1>4, Roles
  <2> QED
    BY <1>2, <1>3, <2>1, SaidComma DEF ParserType, Reading
<1>6. row' \in Fields(Chars(text)) /\ field' \in Seq(Chars(text))
  BY <1>1, <1>2, LastFields DEF ParserType
<1>7. ParserType'
  BY <1>1, <1>2, <1>6 DEF ParserType
<1>8. Reading'
  <2>1. i' \in 1..(Len(text) + 1)
    BY <1>1, <1>3
  <2>2. Said(text, i' - 1, Tab(rows, row', field'))
    BY <1>1, <1>3, <1>5
  <2> QED
    BY <1>1, <1>3, <1>4, <2>1, <2>2 DEF Reading
<1> QED
  BY <1>1, <1>7, <1>8 DEF ParserInv

(* The records behind which one is put stay numbered.                      *)
LEMMA TabNumbered ==
  ASSUME NEW S, NEW R \in Tables(S), NEW W \in Fields(S), NEW F \in Seq(S),
         \A r \in 1..Len(R) : R[r].rowNumber = r
  PROVE  \A r \in 1..Len(Tab(R, W, F)) : Tab(R, W, F)[r].rowNumber = r
<1> DEFINE T == Tab(R, W, F)
<1>1. /\ Len(R) \in Nat /\ Len(T) = Len(R) + 1
      /\ \A l \in 1..Len(R) : T[l] = R[l]
      /\ T[Len(R) + 1] = [values |-> Append(W, F), rowNumber |-> Len(R) + 1]
  BY TabType
<1> HIDE DEF T
<1>2. T[Len(R) + 1].rowNumber = Len(R) + 1
  BY <1>1
<1>3. \A r \in 1..Len(T) : T[r].rowNumber = r
  <2> TAKE r \in 1..Len(T)
  <2>1. CASE r \in 1..Len(R)
    BY <1>1, <2>1
  <2>2. CASE r = Len(R) + 1
    BY <1>2, <2>2
  <2>3. r \in 1..Len(R) \/ r = Len(R) + 1
    BY <1>1
  <2> QED
    BY <2>1, <2>2, <2>3
<1> QED
  BY <1>3 DEF T

LEMMA RecordEnded ==
  ASSUME ParserType
  PROVE  /\ Tab(rows, row, field) \in Tables(Chars(text))
         /\ \A r \in 1..Len(Tab(rows, row, field)) :
              Tab(rows, row, field)[r].rowNumber = r
<1>1. /\ rows \in Tables(Chars(text)) /\ row \in Fields(Chars(text))
      /\ field \in Seq(Chars(text)) /\ \A r \in 1..Len(rows) : rows[r].rowNumber = r
  BY DEF ParserType
<1>2. Tab(rows, row, field) \in Tables(Chars(text))
  BY <1>1, TabType
<1>3. \A r \in 1..Len(Tab(rows, row, field)) : Tab(rows, row, field)[r].rowNumber = r
  BY <1>1, TabNumbered
<1> QED
  BY <1>2, <1>3

LEMMA ReadLineFeed == ParserInv /\ EndRecord => ParserInv'
<1> SUFFICES ASSUME ParserInv, EndRecord PROVE ParserInv'
  OBVIOUS
<1>1. /\ at = "parse" /\ i =< Len(text) /\ text[i] = LF /\ ~inQuotes
      /\ rows' = Tab(rows, row, field) /\ row' = <<>> /\ field' = <<>> /\ i' = i + 1
      /\ UNCHANGED <<text, at, inQuotes>>
  BY DEF EndRecord, Reads, Skip, Record, Tab
<1>2. ParserType /\ Reading
  BY <1>1 DEF ParserInv
<1>3. /\ text \in Seq(Chars(text)) /\ i \in 1..Len(text) /\ (i + 1) - 1 = i
      /\ text[i] # Quote
  BY <1>1, <1>2 DEF ParserType, Reading, LF, Quote
<1>4. ~Within(text, i) /\ ~Within(text, i + 1)
  BY <1>1, <1>2, <1>3, WithinNext DEF Reading
<1>5. Said(text, i, Tab(Tab(rows, row, field), <<>>, <<>>))
  <2>1. i \in Separators(text, LF)
    BY <1>1, <1>3, <1>4, Roles
  <2> QED
    BY <1>2, <1>3, <2>1, SaidEnd DEF ParserType, Reading
<1>6. row' \in Fields(Chars(text)) /\ field' \in Seq(Chars(text))
  BY <1>1 DEF Fields
<1>7. rows' \in Tables(Chars(text)) /\ \A r \in 1..Len(rows') : rows'[r].rowNumber = r
  BY <1>1, <1>2, RecordEnded
<1>8. ParserType'
  BY <1>1, <1>2, <1>6, <1>7 DEF ParserType
<1>9. Reading'
  <2>1. i' \in 1..(Len(text) + 1)
    BY <1>1, <1>3
  <2>2. Said(text, i' - 1, Tab(rows', row', field'))
    BY <1>1, <1>3, <1>5
  <2> QED
    BY <1>1, <1>3, <1>4, <2>1, <2>2 DEF Reading
<1> QED
  BY <1>1, <1>8, <1>9 DEF ParserInv

LEMMA ReadCharacter == ParserInv /\ Character => ParserInv'
<1> SUFFICES ASSUME ParserInv, Character PROVE ParserInv'
  OBVIOUS
<1>1. /\ at = "parse" /\ i =< Len(text) /\ text[i] # Quote
      /\ text[i] \in {Comma, LF} => inQuotes
      /\ field' = Append(field, text[i]) /\ i' = i + 1
      /\ UNCHANGED <<text, at, inQuotes, row, rows>>
  BY DEF Character, Reads, Skip
<1>2. ParserType /\ Reading
  BY <1>1 DEF ParserInv
<1>3. text \in Seq(Chars(text)) /\ i \in 1..Len(text) /\ (i + 1) - 1 = i
  BY <1>1, <1>2 DEF ParserType, Reading
<1>4. /\ inQuotes <=> Within(text, i)
      /\ Within(text, i + 1) <=> Within(text, i)
  BY <1>1, <1>2, <1>3, WithinNext DEF Reading
<1>5. Said(text, i, Tab(rows, row, Append(field, text[i])))
  <2>1. i \in Marks(text)
    BY <1>1, <1>3, <1>4, Roles
  <2> QED
    BY <1>2, <1>3, <2>1, SaidMark DEF ParserType, Reading
<1>6. field' \in Seq(Chars(text))
  <2>1. text[i] \in Chars(text)
    BY <1>3 DEF Chars
  <2> QED
    BY <1>1, <1>2, <2>1 DEF ParserType
<1>7. ParserType'
  BY <1>1, <1>2, <1>6 DEF ParserType
<1>8. Reading'
  <2>1. i' \in 1..(Len(text) + 1)
    BY <1>1, <1>3
  <2>2. Said(text, i' - 1, Tab(rows, row, field'))
    BY <1>1, <1>3, <1>5
  <2> QED
    BY <1>1, <1>3, <1>4, <2>1, <2>2 DEF Reading
<1> QED
  BY <1>1, <1>7, <1>8 DEF ParserInv

LEMMA ReadEnd == ParserInv /\ EndOfText => ParserInv'
<1> SUFFICES ASSUME ParserInv, EndOfText PROVE ParserInv'
  OBVIOUS
<1>1. /\ at = "parse" /\ i > Len(text) /\ at' = "map"
      /\ rows' = IF field # <<>> \/ row # <<>> THEN Tab(rows, row, field) ELSE rows
      /\ UNCHANGED <<text, inQuotes, field, row>>
  BY DEF EndOfText, Record, Tab
<1>2. ParserType /\ Reading
  BY <1>1 DEF ParserInv
<1>3. text \in Seq(Chars(text)) /\ i - 1 = Len(text)
  BY <1>1, <1>2 DEF ParserType, Reading
<1>4. Said(text, Len(text), Tab(rows, row, field))
  BY <1>2, <1>3 DEF Reading
<1>5. OnLine(Separators(text, LF), Separators(text, Comma) \cup Marks(text),
             1 + Cardinality(Separators(text, LF))) = {}
        <=> row = <<>> /\ field = <<>>
  BY <1>2, <1>3, <1>4, LastLine DEF ParserType
<1>6. Parsed(text, rows')
  BY <1>1, <1>4, <1>5 DEF Parsed
<1>7. rows' \in Tables(Chars(text)) /\ \A r \in 1..Len(rows') : rows'[r].rowNumber = r
  <2>1. CASE rows' = rows
    BY <1>2, <2>1 DEF ParserType
  <2>2. CASE rows' = Tab(rows, row, field)
    BY <1>2, <2>2, RecordEnded
  <2> QED
    BY <1>1, <2>1, <2>2
<1>8. ParserType'
  BY <1>1, <1>2, <1>7 DEF ParserType, Phases
<1> QED
  BY <1>1, <1>6, <1>8 DEF ParserInv

(* The steps behind the parser leave alone what it has read.               *)
LEMMA ReadNothing ==
  ASSUME ParserInv, UNCHANGED parserVars, at' \in Phases,
         at = "parse" <=> at' = "parse"
  PROVE  ParserInv'
<1>1. UNCHANGED <<text, i, inQuotes, field, row, rows>>
  BY DEF parserVars
<1>2. ParserType'
  BY <1>1 DEF ParserInv, ParserType
<1>3. Reading => Reading'
  BY <1>1 DEF Reading
<1>4. Parsed(text, rows) => Parsed(text, rows)'
  BY <1>1
<1> QED
  BY <1>2, <1>3, <1>4 DEF ParserInv

LEMMA NextParser == ParserInv /\ [Next]_vars => ParserInv'
<1> SUFFICES ASSUME ParserInv, [Next]_vars PROVE ParserInv'
  OBVIOUS
<1>0. at \in Phases
  BY DEF ParserInv, ParserType
<1>1. CASE Parse
  BY <1>1, ReadEscapedQuote, ReadPlainQuote, ReadComma, ReadLineFeed, ReadCharacter,
     ReadEnd DEF Parse
<1>2. CASE Map
  <2>1. UNCHANGED parserVars /\ at = "map" /\ at' \in {"map", "look"}
    BY <1>2 DEF Map, ReadRecord, SkipBlank, ReportWrong, TakeRow, StartImport
  <2> QED
    BY <2>1, ReadNothing DEF Phases
<1>3. CASE Import
  <2>1. UNCHANGED parserVars /\ at \in {"look", "insert"}
    BY <1>3 DEF Import, FoundDuplicate, FoundNone, InsertRow, RowRefused, RowFails,
                Respond
  <2>2. at' \in {"look", "insert", "done"}
    BY <1>3 DEF Import, FoundDuplicate, FoundNone, InsertRow, RowRefused, RowFails,
                Respond, NextRow
  <2> QED
    BY <2>1, <2>2, ReadNothing DEF Phases
<1>4. CASE Others
  <2>1. UNCHANGED <<parserVars, at>>
    BY <1>4 DEF Others
  <2> QED
    BY <1>0, <2>1, ReadNothing
<1>5. CASE UNCHANGED vars
  <2>1. UNCHANGED <<parserVars, at>>
    BY <1>5 DEF vars
  <2> QED
    BY <1>0, <2>1, ReadNothing
<1> QED
  BY <1>1, <1>2, <1>3, <1>4, <1>5 DEF Next

LEMMA ParserInvariant == Spec => []ParserInv
<1>1. Init => ParserInv
  BY InitParser
<1>2. ParserInv /\ [Next]_vars => ParserInv'
  BY NextParser
<1> QED
  BY <1>1, <1>2, PTL DEF Spec

(* ParsedAsWritten: whatever the text, the records the parser hands over   *)
(* are the lines, fields and characters the text says, record for record,  *)
(* numbered from 1 (csv.util.ts:14).                                       *)
THEOREM ReadsWhatIsWritten == Spec => []ParsedAsWritten
<1>1. ParserInv => ParsedAsWritten
  <2> SUFFICES ASSUME Parsed(text, rows) PROVE ParsedAsWritten
    BY DEF ParserInv, ParsedAsWritten
  <2>1. Append(<<>>, <<>>) = <<<<>>>>
    OBVIOUS
  <2> QED
    BY <2>1 DEF ParsedAsWritten, Parsed, Said, Tab, Record
<1> QED
  BY <1>1, ParserInvariant, PTL

-------------------------------------------------------------------------------
(* The records behind the header *)

RangeOf(s) == {s[k] : k \in DOMAIN s}
Zeros(s) == {k \in DOMAIN s : s[k] = 0}

LEMMA RangeAppend ==
  ASSUME NEW X, NEW s \in Seq(X), NEW e \in X
  PROVE  /\ Append(s, e) \in Seq(X) /\ Len(Append(s, e)) = Len(s) + 1
         /\ RangeOf(Append(s, e)) = RangeOf(s) \cup {e}
<1>1. /\ Append(s, e) \in Seq(X) /\ Len(s) \in Nat
      /\ Len(Append(s, e)) = Len(s) + 1
      /\ DOMAIN s = 1..Len(s) /\ DOMAIN Append(s, e) = 1..(Len(s) + 1)
      /\ \A k \in 1..Len(s) : Append(s, e)[k] = s[k]
      /\ Append(s, e)[Len(s) + 1] = e
  OBVIOUS
<1>2. DOMAIN Append(s, e) = DOMAIN s \cup {Len(s) + 1}
  BY <1>1
<1> QED
  BY <1>1, <1>2 DEF RangeOf

LEMMA RangeTail ==
  ASSUME NEW X, NEW s \in Seq(X), s # <<>>
  PROVE  /\ Tail(s) \in Seq(X) /\ Len(Tail(s)) = Len(s) - 1 /\ Head(s) \in RangeOf(s)
         /\ RangeOf(s) = RangeOf(Tail(s)) \cup {Head(s)}
<1>1. /\ Tail(s) \in Seq(X) /\ Len(s) \in Nat /\ Len(s) > 0
      /\ Len(Tail(s)) = Len(s) - 1 /\ Head(s) = s[1]
      /\ DOMAIN s = 1..Len(s) /\ DOMAIN Tail(s) = 1..(Len(s) - 1)
      /\ \A k \in 1..(Len(s) - 1) : Tail(s)[k] = s[k + 1]
  OBVIOUS
<1>2. ASSUME NEW k \in DOMAIN s
      PROVE  s[k] \in RangeOf(Tail(s)) \cup {Head(s)}
  <2>1. CASE k = 1
    BY <1>1, <2>1
  <2>2. CASE k # 1
    <3>1. k - 1 \in 1..(Len(s) - 1) /\ (k - 1) + 1 = k
      BY <1>1, <2>2
    <3>2. Tail(s)[k - 1] = s[k]
      BY <1>1, <3>1
    <3> QED
      BY <1>1, <3>1, <3>2 DEF RangeOf
  <2> QED
    BY <2>1, <2>2
<1>3. RangeOf(s) \subseteq RangeOf(Tail(s)) \cup {Head(s)}
  BY <1>2 DEF RangeOf
<1>4. RangeOf(Tail(s)) \subseteq RangeOf(s)
  BY <1>1 DEF RangeOf
<1>5. Head(s) \in RangeOf(s)
  BY <1>1 DEF RangeOf
<1> QED
  BY <1>1, <1>3, <1>4, <1>5

LEMMA ZerosFinite ==
  ASSUME NEW X, NEW s \in Seq(X)
  PROVE  IsFiniteSet(Zeros(s)) /\ Cardinality(Zeros(s)) \in Nat
<1>1. DOMAIN s = 1..Len(s) /\ Len(s) \in Nat
  OBVIOUS
<1>2. Zeros(s) \in SUBSET (1..Len(s))
  BY <1>1 DEF Zeros
<1>3. IsFiniteSet(1..Len(s))
  BY <1>1, FS_Interval
<1>4. IsFiniteSet(Zeros(s))
  BY <1>2, <1>3, FS_Subset
<1> QED
  BY <1>4, FS_CardinalityType

LEMMA ZerosAppend ==
  ASSUME NEW s \in Seq(Nat)
  PROVE  Cardinality(Zeros(Append(s, 0))) = Cardinality(Zeros(s)) + 1
<1>1. /\ Len(s) \in Nat
      /\ DOMAIN s = 1..Len(s) /\ DOMAIN Append(s, 0) = 1..(Len(s) + 1)
      /\ \A k \in 1..Len(s) : Append(s, 0)[k] = s[k]
      /\ Append(s, 0)[Len(s) + 1] = 0
  OBVIOUS
<1>2. Zeros(Append(s, 0)) = Zeros(s) \cup {Len(s) + 1} /\ Len(s) + 1 \notin Zeros(s)
  BY <1>1 DEF Zeros
<1> QED
  BY <1>2, ZerosFinite, FS_AddElement

(* The data rows are records of the file, with their numbers.              *)
LEMMA DataRowsOf ==
  ASSUME NEW S, NEW R \in Tables(S), \A r \in 1..Len(R) : R[r].rowNumber = r
  PROVE  /\ DataRows(R) \in Tables(S) /\ Len(DataRows(R)) \in Nat
         /\ \A k \in 1..Len(DataRows(R)) :
              /\ DataRows(R)[k].rowNumber \in 1..Len(R)
              /\ R[DataRows(R)[k].rowNumber] = DataRows(R)[k]
<1>1. CASE HasHeader(R)
  <2>1. R # <<>>
    BY <1>1 DEF HasHeader
  <2>2. DataRows(R) = Tail(R)
    BY <1>1 DEF DataRows
  <2>3. /\ Tail(R) \in Tables(S) /\ Len(R) \in Nat /\ Len(R) > 0
        /\ Len(Tail(R)) = Len(R) - 1
        /\ \A k \in 1..(Len(R) - 1) : Tail(R)[k] = R[k + 1]
    BY <2>1 DEF Tables
  <2>4. \A k \in 1..(Len(R) - 1) : k + 1 \in 1..Len(R) /\ R[k + 1].rowNumber = k + 1
    BY <2>3
  <2> QED
    BY <2>2, <2>3, <2>4
<1>2. CASE ~HasHeader(R)
  <2>1. DataRows(R) = R /\ Len(R) \in Nat
    BY <1>2 DEF DataRows, Tables
  <2> QED
    BY <2>1
<1> QED
  BY <1>1, <1>2

(* Every data row is blank, faulty or wanted.                              *)
LEMMA RowsAccounted ==
  ASSUME NEW R, Len(DataRows(R)) \in Nat
  PROVE  /\ IsFiniteSet(Wanted(R)) /\ Cardinality(Wanted(R)) \in Nat
         /\ Cardinality(Faulty(R)) \in Nat /\ Cardinality(Blanks(R)) \in Nat
         /\ Len(DataRows(R))
              = Cardinality(Blanks(R)) + Cardinality(Faulty(R)) + Cardinality(Wanted(R))
<1> DEFINE P == Places(R)
           B == Blanks(R)
           F == Faulty(R)
           W == Wanted(R)
<1>1. IsFiniteSet(P) /\ Cardinality(P) = Len(DataRows(R))
  BY FS_Interval DEF Places
<1>2. /\ B \subseteq P /\ F \subseteq P /\ B \cap F = {} /\ W = P \ (B \cup F)
  BY DEF Blanks, Faulty, Wanted
<1> HIDE DEF P, B, F, W
<1>3. IsFiniteSet(B) /\ IsFiniteSet(F) /\ IsFiniteSet(W)
  BY <1>1, <1>2, FS_Subset
<1>4. Cardinality(B) \in Nat /\ Cardinality(F) \in Nat /\ Cardinality(W) \in Nat
  BY <1>3, FS_CardinalityType
<1>5. IsFiniteSet(B \cup F) /\ Cardinality(B \cup F) = Cardinality(B) + Cardinality(F)
  <2>1. Cardinality(B \cap F) = 0
    BY <1>2, FS_EmptySet
  <2> QED
    <3>1. /\ IsFiniteSet(B \cup F)
          /\ Cardinality(B \cup F)
               = Cardinality(B) + Cardinality(F) - Cardinality(B \cap F)
      BY <1>3, FS_Union
    <3> QED
      BY <1>4, <2>1, <3>1
<1>6. P \cap (B \cup F) = B \cup F
  BY <1>2
<1>7. Cardinality(W) = Cardinality(P) - Cardinality(B \cup F)
  BY <1>1, <1>2, <1>6, FS_Difference
<1>8. Len(DataRows(R)) = Cardinality(B) + Cardinality(F) + Cardinality(W)
  BY <1>1, <1>4, <1>5, <1>7
<1> QED
  BY <1>3, <1>4, <1>8 DEF B, F, W

-------------------------------------------------------------------------------
(* The mapping and the import *)

ImportType ==
  /\ mapped \in Nat /\ todo \in Seq(Nat) /\ errors \in Seq(Nat)
  /\ created \in Nat /\ duplicates \in Nat /\ lost \in Nat

Numbers(R, A) == {DataRows(R)[k].rowNumber : k \in A}

(* The records mapped so far are written down where they belong.           *)
Mapping ==
  /\ mapped \in 0..Len(DataRows(rows))
  /\ Len(todo) = Count(Wanted(rows), mapped)
  /\ RangeOf(todo) = Wanted(rows) \cap (1..mapped)
  /\ Len(errors) = Count(Faulty(rows), mapped)
  /\ RangeOf(errors) = Numbers(rows, Faulty(rows) \cap (1..mapped))

(* The wanted records, those still to import aside, whose attendee is not  *)
(* in A.                                                                   *)
Missing(R, rest, A) == {k \in Wanted(R) : Address(R, k) \notin A} \ RangeOf(rest)

(* Every wanted or faulty record is counted once, and a commit that failed *)
(* twice; only faulty records have been reported by number; and no more    *)
(* attendees are missing than there are errors without a number.           *)
Importing ==
  /\ Cardinality(Wanted(rows)) + Cardinality(Faulty(rows)) + lost
       = created + duplicates + Len(errors) + Len(todo)
  /\ RangeOf(errors) \ {0} = Numbers(rows, Faulty(rows))
  /\ Cardinality(Missing(rows, todo, attendees \cup removed))
       =< Cardinality(Zeros(errors))
  /\ at = "insert" => todo # <<>>
  /\ at = "done" => todo = <<>>

ImportInv ==
  /\ ImportType
  /\ at = "parse" => mapped = 0 /\ todo = <<>> /\ errors = <<>>
  /\ at \in {"parse", "map"} => created = 0 /\ duplicates = 0 /\ lost = 0
  /\ at = "map" => Mapping
  /\ at \in {"look", "insert", "done"} => Importing

LEMMA InitImport == Init => ImportInv
<1> SUFFICES ASSUME Init PROVE ImportInv
  OBVIOUS
<1>1. /\ at = "parse" /\ mapped = 0 /\ todo = <<>> /\ errors = <<>>
      /\ created = 0 /\ duplicates = 0 /\ lost = 0
  BY DEF Init
<1>2. ImportType
  BY <1>1 DEF ImportType
<1> QED
  BY <1>1, <1>2 DEF ImportInv

LEMMA MissingFinite ==
  ASSUME NEW R, Len(DataRows(R)) \in Nat, NEW rest, NEW A
  PROVE  /\ IsFiniteSet(Missing(R, rest, A))
         /\ Cardinality(Missing(R, rest, A)) \in Nat
<1>1. IsFiniteSet(Wanted(R))
  BY RowsAccounted
<1>2. Missing(R, rest, A) \in SUBSET Wanted(R)
  BY DEF Missing
<1>3. IsFiniteSet(Missing(R, rest, A))
  BY <1>1, <1>2, FS_Subset
<1> QED
  BY <1>3, FS_CardinalityType

(* Nobody goes missing while attendees are added, or removed on record.    *)
LEMMA MissingFewer ==
  ASSUME NEW R, Len(DataRows(R)) \in Nat, NEW rest, NEW A, NEW B, A \subseteq B
  PROVE  Cardinality(Missing(R, rest, B)) =< Cardinality(Missing(R, rest, A))
<1>1. Missing(R, rest, B) \in SUBSET Missing(R, rest, A)
  BY DEF Missing
<1> QED
  BY <1>1, MissingFinite, FS_Subset

(* A row that is done with adds at most itself, and nothing if its         *)
(* attendee is registered.                                                 *)
LEMMA MissingNext ==
  ASSUME NEW R, Len(DataRows(R)) \in Nat, NEW rest \in Seq(Nat), rest # <<>>,
         NEW A, NEW B, A \subseteq B
  PROVE  /\ Cardinality(Missing(R, Tail(rest), B))
              =< Cardinality(Missing(R, rest, A)) + 1
         /\ Address(R, Head(rest)) \in B =>
              Cardinality(Missing(R, Tail(rest), B)) =< Cardinality(Missing(R, rest, A))
<1> DEFINE h == Head(rest)
           M == Missing(R, rest, A)
           N == Missing(R, Tail(rest), B)
<1>1. RangeOf(rest) = RangeOf(Tail(rest)) \cup {h}
  BY RangeTail
<1>2. N \subseteq M \cup {h}
  BY <1>1 DEF Missing
<1>3. Address(R, h) \in B => N \subseteq M
  BY <1>1 DEF Missing
<1>4. /\ IsFiniteSet(M) /\ Cardinality(M) \in Nat
      /\ IsFiniteSet(N) /\ Cardinality(N) \in Nat
  BY MissingFinite
<1> HIDE DEF M, N, h
<1>5. /\ IsFiniteSet(M \cup {h})
      /\ Cardinality(M \cup {h}) = IF h \in M THEN Cardinality(M) ELSE Cardinality(M) + 1
  BY <1>4, FS_AddElement
<1>6. Cardinality(N) =< Cardinality(M \cup {h})
  BY <1>2, <1>5, FS_Subset
<1>7. Cardinality(N) =< Cardinality(M) + 1
  BY <1>4, <1>5, <1>6
<1>8. Address(R, h) \in B => Cardinality(N) =< Cardinality(M)
  BY <1>3, <1>4, FS_Subset
<1> QED
  BY <1>7, <1>8 DEF M, N, h

(* While the request is behind the parser, its data rows are records.      *)
DataInv ==
  /\ Len(DataRows(rows)) \in Nat
  /\ \A k \in 1..Len(DataRows(rows)) :
       /\ DataRows(rows)[k].rowNumber \in 1..Len(rows)
       /\ rows[DataRows(rows)[k].rowNumber] = DataRows(rows)[k]
       /\ DataRows(rows)[k].rowNumber \in Nat \ {0}

LEMMA DataRowsKnown == ParserInv => DataInv
<1> SUFFICES ASSUME ParserInv PROVE DataInv
  OBVIOUS
<1>1. rows \in Tables(Chars(text)) /\ \A r \in 1..Len(rows) : rows[r].rowNumber = r
  BY DEF ParserInv, ParserType
<1>2. /\ Len(DataRows(rows)) \in Nat
      /\ \A k \in 1..Len(DataRows(rows)) :
           /\ DataRows(rows)[k].rowNumber \in 1..Len(rows)
           /\ rows[DataRows(rows)[k].rowNumber] = DataRows(rows)[k]
  BY <1>1, DataRowsOf
<1>3. Len(rows) \in Nat
  BY <1>1 DEF Tables
<1> QED
  BY <1>2, <1>3 DEF DataInv

LEMMA DataRowsKnownNext == ParserInv' => DataInv'
BY DataRowsKnown, PTL

(* The parts of the mapping that the three outcomes of a record share.     *)
LEMMA ReadsRecord ==
  ASSUME ImportInv, DataInv, ReadRecord
  PROVE  /\ at = "map" /\ mapped \in Nat /\ mapped' = mapped + 1
         /\ ImportType /\ Mapping
         /\ mapped' \in 0..Len(DataRows(rows)) /\ mapped' \in Places(rows)
         /\ Current = DataRows(rows)[mapped']
         /\ UNCHANGED <<text, i, inQuotes, field, row, rows, at, created, duplicates,
                         attendees, lost, removed>>
         /\ 1..mapped' = (1..mapped) \cup {mapped'}
<1>1. /\ at = "map" /\ mapped < Len(DataRows(rows)) /\ mapped' = mapped + 1
      /\ UNCHANGED <<text, i, inQuotes, field, row, rows, at, created, duplicates,
                      attendees, lost, removed>>
  BY DEF ReadRecord, parserVars, envVars
<1>2. ImportType /\ Mapping /\ mapped \in Nat /\ Len(DataRows(rows)) \in Nat
  BY <1>1 DEF ImportInv, ImportType, DataInv
<1>3. /\ mapped + 1 \in 0..Len(DataRows(rows))
      /\ mapped + 1 \in 1..Len(DataRows(rows))
      /\ 1..(mapped + 1) = (1..mapped) \cup {mapped + 1}
  BY <1>1, <1>2
<1> QED
  BY <1>1, <1>2, <1>3 DEF Places, Current

LEMMA BlankSkipped ==
  ASSUME ImportInv, DataInv, SkipBlank
  PROVE  ImportInv'
<1>1. ReadRecord /\ Blank(rows, Current) /\ UNCHANGED <<todo, errors>>
  BY DEF SkipBlank
<1>2. /\ at = "map" /\ mapped \in Nat /\ mapped' = mapped + 1
      /\ ImportType /\ Mapping
      /\ mapped' \in 0..Len(DataRows(rows)) /\ mapped' \in Places(rows)
      /\ Current = DataRows(rows)[mapped']
      /\ UNCHANGED <<rows, at, created, duplicates, lost>>
      /\ 1..mapped' = (1..mapped) \cup {mapped'}
  BY <1>1, ReadsRecord
<1>3. mapped' \notin Wanted(rows) /\ mapped' \notin Faulty(rows)
  BY <1>1, <1>2 DEF Wanted, Faulty, Blanks
<1>4. /\ Count(Wanted(rows), mapped') = Count(Wanted(rows), mapped)
      /\ Count(Faulty(rows), mapped') = Count(Faulty(rows), mapped)
  BY <1>2, <1>3, CountSkips
<1>5. /\ Wanted(rows) \cap (1..mapped') = Wanted(rows) \cap (1..mapped)
      /\ Faulty(rows) \cap (1..mapped') = Faulty(rows) \cap (1..mapped)
  BY <1>2, <1>3
<1>6. Mapping'
  BY <1>1, <1>2, <1>4, <1>5 DEF Mapping
<1>7. ImportType'
  BY <1>1, <1>2 DEF ImportType
<1> QED
  BY <1>2, <1>6, <1>7 DEF ImportInv

LEMMA WrongReported ==
  ASSUME ImportInv, DataInv, ReportWrong
  PROVE  ImportInv'
<1>1. /\ ReadRecord /\ ~Blank(rows, Current) /\ Wrong(rows, Current)
      /\ errors' = Append(errors, Current.rowNumber) /\ UNCHANGED todo
  BY DEF ReportWrong
<1>2. /\ at = "map" /\ mapped \in Nat /\ mapped' = mapped + 1
      /\ ImportType /\ Mapping
      /\ mapped' \in 0..Len(DataRows(rows)) /\ mapped' \in Places(rows)
      /\ Current = DataRows(rows)[mapped']
      /\ UNCHANGED <<rows, at, created, duplicates, lost>>
      /\ 1..mapped' = (1..mapped) \cup {mapped'}
  BY <1>1, ReadsRecord
<1>3. mapped' \notin Wanted(rows) /\ mapped' \in Faulty(rows)
  BY <1>1, <1>2 DEF Wanted, Faulty, Blanks
<1>4. /\ Count(Wanted(rows), mapped') = Count(Wanted(rows), mapped)
      /\ Count(Faulty(rows), mapped') = Count(Faulty(rows), mapped) + 1
  BY <1>2, <1>3, CountSkips, CountStep
<1>5. /\ Wanted(rows) \cap (1..mapped') = Wanted(rows) \cap (1..mapped)
      /\ Faulty(rows) \cap (1..mapped') = (Faulty(rows) \cap (1..mapped)) \cup {mapped'}
  BY <1>2, <1>3
<1>6. Current.rowNumber \in Nat
  BY <1>2 DEF DataInv, Places
<1>7. /\ errors' \in Seq(Nat) /\ Len(errors') = Len(errors) + 1
      /\ RangeOf(errors') = RangeOf(errors) \cup {Current.rowNumber}
  <2> DEFINE e == Current.rowNumber
  <2>1. errors \in Seq(Nat) /\ e \in Nat /\ errors' = Append(errors, e)
    BY <1>1, <1>2, <1>6 DEF ImportType
  <2> HIDE DEF e
  <2>2. /\ errors' \in Seq(Nat) /\ Len(errors') = Len(errors) + 1
        /\ RangeOf(errors') = RangeOf(errors) \cup {e}
    BY <2>1, RangeAppend
  <2> QED
    BY <2>2 DEF e
<1>8. RangeOf(errors') = Numbers(rows, Faulty(rows) \cap (1..mapped'))
  BY <1>2, <1>5, <1>7 DEF Mapping, Numbers
<1>9. Mapping'
  <2>1. Len(errors') = Count(Faulty(rows), mapped')
    BY <1>2, <1>4, <1>7 DEF Mapping
  <2> QED
    BY <1>1, <1>2, <1>4, <1>5, <1>8, <2>1 DEF Mapping
<1>10. ImportType'
  BY <1>1, <1>2, <1>7 DEF ImportType
<1> QED
  BY <1>2, <1>9, <1>10 DEF ImportInv

LEMMA RowTaken ==
  ASSUME ImportInv, DataInv, TakeRow
  PROVE  ImportInv'
<1>1. /\ ReadRecord /\ ~Blank(rows, Current) /\ ~Wrong(rows, Current)
      /\ todo' = Append(todo, mapped') /\ UNCHANGED errors
  BY ReadsRecord DEF TakeRow
<1>2. /\ at = "map" /\ mapped \in Nat /\ mapped' = mapped + 1
      /\ ImportType /\ Mapping
      /\ mapped' \in 0..Len(DataRows(rows)) /\ mapped' \in Places(rows)
      /\ Current = DataRows(rows)[mapped']
      /\ UNCHANGED <<rows, at, created, duplicates, lost>>
      /\ 1..mapped' = (1..mapped) \cup {mapped'}
  BY <1>1, ReadsRecord
<1>3. mapped' \in Wanted(rows) /\ mapped' \notin Faulty(rows)
  BY <1>1, <1>2 DEF Wanted, Faulty, Blanks
<1>4. /\ Count(Wanted(rows), mapped') = Count(Wanted(rows), mapped) + 1
      /\ Count(Faulty(rows), mapped') = Count(Faulty(rows), mapped)
  BY <1>2, <1>3, CountSkips, CountStep
<1>5. /\ Wanted(rows) \cap (1..mapped') = (Wanted(rows) \cap (1..mapped)) \cup {mapped'}
      /\ Faulty(rows) \cap (1..mapped') = Faulty(rows) \cap (1..mapped)
  BY <1>2, <1>3
<1>6. mapped' \in Nat
  BY <1>2
<1>7. /\ todo' \in Seq(Nat) /\ Len(todo') = Len(todo) + 1
      /\ RangeOf(todo') = RangeOf(todo) \cup {mapped'}
  BY <1>1, <1>2, <1>6, RangeAppend DEF ImportType
<1>8. Mapping'
  <2>1. Len(todo') = Count(Wanted(rows), mapped')
    BY <1>2, <1>4, <1>7 DEF Mapping
  <2>2. RangeOf(todo') = Wanted(rows) \cap (1..mapped')
    BY <1>2, <1>5, <1>7 DEF Mapping
  <2> QED
    BY <1>1, <1>2, <1>4, <1>5, <2>1, <2>2 DEF Mapping
<1>9. ImportType'
  BY <1>1, <1>2, <1>7 DEF ImportType
<1> QED
  BY <1>2, <1>8, <1>9 DEF ImportInv

(* Where the mapping ends, everything wanted is still to import.           *)
LEMMA ImportStarted ==
  ASSUME ImportInv, DataInv, StartImport
  PROVE  ImportInv'
<1>1. /\ at = "map" /\ mapped = Len(DataRows(rows)) /\ at' = "look"
      /\ UNCHANGED <<rows, mapped, todo, errors, created, duplicates, lost, attendees,
                      removed>>
  BY DEF StartImport, parserVars, importVars, envVars
<1>2. ImportType /\ Mapping /\ created = 0 /\ duplicates = 0 /\ lost = 0
  BY <1>1 DEF ImportInv
<1>3. /\ mapped \in Nat
      /\ Wanted(rows) \in SUBSET (1..mapped) /\ Faulty(rows) \in SUBSET (1..mapped)
  BY <1>1 DEF DataInv, Wanted, Faulty, Places
<1>4. /\ Len(todo) = Cardinality(Wanted(rows)) /\ Len(errors) = Cardinality(Faulty(rows))
  BY <1>2, <1>3, CountAll DEF Mapping
<1>5. /\ Cardinality(Wanted(rows)) \in Nat /\ Cardinality(Faulty(rows)) \in Nat
  BY RowsAccounted DEF DataInv
<1>6. /\ Wanted(rows) \cap (1..mapped) = Wanted(rows)
      /\ Faulty(rows) \cap (1..mapped) = Faulty(rows)
  BY <1>3
<1>7. RangeOf(errors) \ {0} = Numbers(rows, Faulty(rows))
  <2>1. RangeOf(errors) = Numbers(rows, Faulty(rows))
    BY <1>2, <1>6 DEF Mapping
  <2>2. 0 \notin Numbers(rows, Faulty(rows))
    BY <1>1, <1>3 DEF Numbers, DataInv
  <2> QED
    BY <2>1, <2>2
<1>8. Cardinality(Missing(rows, todo, attendees \cup removed))
        =< Cardinality(Zeros(errors))
  <2>1. RangeOf(todo) = Wanted(rows)
    BY <1>2, <1>6 DEF Mapping
  <2>2. Missing(rows, todo, attendees \cup removed) = {}
    BY <2>1 DEF Missing
  <2>3. Cardinality(Missing(rows, todo, attendees \cup removed)) = 0
    BY <2>2, FS_EmptySet
  <2>4. Cardinality(Zeros(errors)) \in Nat
    BY <1>2, ZerosFinite DEF ImportType
  <2> QED
    BY <2>3, <2>4
<1>9. Importing'
  <2>1. Cardinality(Wanted(rows)) + Cardinality(Faulty(rows)) + lost
          = created + duplicates + Len(errors) + Len(todo)
    BY <1>2, <1>4, <1>5
  <2> QED
    BY <1>1, <1>7, <1>8, <2>1 DEF Importing
<1>10. ImportType'
  BY <1>1, <1>2 DEF ImportType
<1> QED
  BY <1>1, <1>9, <1>10 DEF ImportInv

(* What is known where an attendee is imported.                            *)
Underway ==
  /\ ImportType /\ Importing /\ Len(DataRows(rows)) \in Nat
  /\ Cardinality(Wanted(rows)) \in Nat /\ Cardinality(Faulty(rows)) \in Nat
  /\ Cardinality(Zeros(errors)) \in Nat
  /\ Cardinality(Missing(rows, todo, attendees \cup removed)) \in Nat
  /\ todo # <<>> =>
       /\ Tail(todo) \in Seq(Nat) /\ Len(Tail(todo)) = Len(todo) - 1
       /\ Len(todo) \in Nat /\ Len(todo) > 0

LEMMA ImportUnderway ==
  ASSUME ImportInv, DataInv, at \in {"look", "insert", "done"}
  PROVE  Underway
<1>1. ImportType /\ Importing
  BY DEF ImportInv
<1>2. Len(DataRows(rows)) \in Nat
  BY DEF DataInv
<1>3. Cardinality(Zeros(errors)) \in Nat
  BY <1>1, ZerosFinite DEF ImportType
<1>4. Cardinality(Wanted(rows)) \in Nat /\ Cardinality(Faulty(rows)) \in Nat
  BY <1>2, RowsAccounted
<1>5. Cardinality(Missing(rows, todo, attendees \cup removed)) \in Nat
  BY <1>2, MissingFinite
<1>6. todo # <<>> =>
        /\ Tail(todo) \in Seq(Nat) /\ Len(Tail(todo)) = Len(todo) - 1
        /\ Len(todo) \in Nat /\ Len(todo) > 0
  BY <1>1 DEF ImportType
<1> QED
  BY <1>1, <1>2, <1>3, <1>4, <1>5, <1>6 DEF Underway

(* A row that is counted, as a duplicate or created, and registered.       *)
LEMMA RowCounted ==
  ASSUME Underway, todo # <<>>, at' = "look", todo' = Tail(todo),
         UNCHANGED <<rows, mapped, errors, lost, removed>>,
         attendees \subseteq attendees', Wants \in attendees',
         \/ created' = created + 1 /\ duplicates' = duplicates
         \/ created' = created /\ duplicates' = duplicates + 1
  PROVE  ImportInv'
<1>1. /\ ImportType /\ Importing /\ Len(DataRows(rows)) \in Nat
      /\ Tail(todo) \in Seq(Nat) /\ Len(Tail(todo)) = Len(todo) - 1
      /\ Len(todo) \in Nat
      /\ Cardinality(Wanted(rows)) \in Nat /\ Cardinality(Faulty(rows)) \in Nat
  BY DEF Underway
<1>2. /\ created \in Nat /\ duplicates \in Nat /\ lost \in Nat
      /\ errors \in Seq(Nat) /\ Len(errors) \in Nat /\ todo \in Seq(Nat)
  BY <1>1 DEF ImportType
<1>3. ImportType'
  BY <1>1 DEF ImportType
<1>4. Cardinality(Missing(rows, todo', attendees' \cup removed))
        =< Cardinality(Zeros(errors))
  <2>1. /\ attendees \cup removed \subseteq attendees' \cup removed
        /\ Address(rows, Head(todo)) \in attendees' \cup removed
    BY DEF Wants
  <2>2. Cardinality(Missing(rows, Tail(todo), attendees' \cup removed))
          =< Cardinality(Missing(rows, todo, attendees \cup removed))
    BY <1>1, <1>2, <2>1, MissingNext
  <2>3. Cardinality(Missing(rows, Tail(todo), attendees' \cup removed)) \in Nat
    BY <1>1, MissingFinite
  <2> QED
    BY <1>1, <2>2, <2>3 DEF Importing, Underway
<1>5. Cardinality(Wanted(rows)) + Cardinality(Faulty(rows)) + lost
        = created' + duplicates' + Len(errors) + Len(todo')
  BY <1>1, <1>2 DEF Importing
<1>6. Importing'
  BY <1>1, <1>4, <1>5 DEF Importing
<1> QED
  BY <1>3, <1>6 DEF ImportInv

(* A row whose transaction failed: reported, and lost if it was counted.   *)
LEMMA RowReported ==
  ASSUME Underway, todo # <<>>, at' = "look", todo' = Tail(todo),
         errors' = Append(errors, 0),
         UNCHANGED <<rows, mapped, removed>>, attendees \subseteq attendees',
         \/ UNCHANGED <<created, duplicates, lost>>
         \/ created' = created + 1 /\ duplicates' = duplicates /\ lost' = lost + 1
         \/ created' = created /\ duplicates' = duplicates + 1 /\ lost' = lost + 1
  PROVE  ImportInv'
<1>1. /\ ImportType /\ Importing /\ Len(DataRows(rows)) \in Nat
      /\ Tail(todo) \in Seq(Nat) /\ Len(Tail(todo)) = Len(todo) - 1
      /\ Len(todo) \in Nat
      /\ Cardinality(Wanted(rows)) \in Nat /\ Cardinality(Faulty(rows)) \in Nat
      /\ Cardinality(Zeros(errors)) \in Nat
  BY DEF Underway
<1>2. /\ created \in Nat /\ duplicates \in Nat /\ lost \in Nat
      /\ errors \in Seq(Nat) /\ Len(errors) \in Nat /\ todo \in Seq(Nat)
  BY <1>1 DEF ImportType
<1>3. /\ errors' \in Seq(Nat) /\ Len(errors') = Len(errors) + 1
      /\ RangeOf(errors') = RangeOf(errors) \cup {0}
      /\ Cardinality(Zeros(errors')) = Cardinality(Zeros(errors)) + 1
  <2>1. 0 \in Nat
    OBVIOUS
  <2> QED
    BY <1>2, <2>1, RangeAppend, ZerosAppend
<1>0. /\ created' \in Nat /\ duplicates' \in Nat /\ lost' \in Nat
      /\ (created' + duplicates') - lost' = (created + duplicates) - lost
  <2>1. CASE UNCHANGED <<created, duplicates, lost>>
    BY <1>2, <2>1
  <2>2. CASE created' = created + 1 /\ duplicates' = duplicates /\ lost' = lost + 1
    BY <1>2, <2>2
  <2>3. CASE created' = created /\ duplicates' = duplicates + 1 /\ lost' = lost + 1
    BY <1>2, <2>3
  <2> QED
    BY <2>1, <2>2, <2>3
<1>4. ImportType'
  BY <1>0, <1>1, <1>2, <1>3 DEF ImportType
<1>5. Cardinality(Missing(rows, todo', attendees' \cup removed))
        =< Cardinality(Zeros(errors'))
  <2>1. attendees \cup removed \subseteq attendees' \cup removed
    OBVIOUS
  <2>2. Cardinality(Missing(rows, Tail(todo), attendees' \cup removed))
          =< Cardinality(Missing(rows, todo, attendees \cup removed)) + 1
    BY <1>1, <1>2, <2>1, MissingNext
  <2>3. /\ Cardinality(Missing(rows, Tail(todo), attendees' \cup removed)) \in Nat
        /\ Cardinality(Missing(rows, todo, attendees \cup removed)) \in Nat
    BY <1>1, MissingFinite
  <2>4. Cardinality(Missing(rows, todo, attendees \cup removed))
          =< Cardinality(Zeros(errors))
    BY <1>1 DEF Importing
  <2> QED
    BY <1>1, <1>3, <2>2, <2>3, <2>4
<1>6. Cardinality(Wanted(rows)) + Cardinality(Faulty(rows)) + lost'
        = created' + duplicates' + Len(errors') + Len(todo')
  <2>1. Cardinality(Wanted(rows)) + Cardinality(Faulty(rows)) + lost
          = created + duplicates + Len(errors) + Len(todo)
    BY <1>1 DEF Importing
  <2>2. Len(errors') = Len(errors) + 1 /\ Len(todo') = Len(todo) - 1
    BY <1>1, <1>3
  <2>3. Cardinality(Wanted(rows)) + Cardinality(Faulty(rows)) \in Int
    BY <1>1
  <2>4. /\ created \in Int /\ duplicates \in Int /\ lost \in Int
        /\ created' \in Int /\ duplicates' \in Int /\ lost' \in Int
        /\ Len(errors) \in Int /\ Len(todo) \in Int
    BY <1>0, <1>1, <1>2
  <2> DEFINE due == Cardinality(Wanted(rows)) + Cardinality(Faulty(rows))
             rest == Len(todo)
             told == Len(errors)
  <2>5. /\ due \in Int /\ rest \in Int /\ told \in Int
        /\ due + lost = created + duplicates + told + rest
    BY <2>1, <2>3, <2>4
  <2> HIDE DEF due, rest, told
  <2>6. due + lost' = created' + duplicates' + (told + 1) + (rest - 1)
    <3>1. CASE UNCHANGED <<created, duplicates, lost>>
      BY ONLY <2>4, <2>5, <3>1
    <3>2. CASE created' = created + 1 /\ duplicates' = duplicates /\ lost' = lost + 1
      BY ONLY <2>4, <2>5, <3>2
    <3>3. CASE created' = created /\ duplicates' = duplicates + 1 /\ lost' = lost + 1
      BY ONLY <2>4, <2>5, <3>3
    <3> QED
      BY <3>1, <3>2, <3>3
  <2> QED
    BY <2>2, <2>6 DEF due, rest, told
<1>7. RangeOf(errors') \ {0} = Numbers(rows, Faulty(rows))
  BY <1>1, <1>3 DEF Importing
<1>8. Importing'
  BY <1>1, <1>5, <1>6, <1>7 DEF Importing
<1> QED
  BY <1>4, <1>8 DEF ImportInv

(* Nothing of the import changes, except what others do to the attendees.  *)
LEMMA NothingImported ==
  ASSUME ImportInv, Len(DataRows(rows)) \in Nat,
         UNCHANGED <<rows, at, mapped, todo, errors, created, duplicates, lost>>,
         attendees \cup removed \subseteq attendees' \cup removed'
  PROVE  ImportInv'
<1>1. ImportType'
  BY DEF ImportInv, ImportType
<1>2. Mapping => Mapping'
  BY DEF Mapping
<1>3. Importing => Importing'
  <2> SUFFICES ASSUME Importing PROVE Importing'
    OBVIOUS
  <2>1. /\ Cardinality(Missing(rows, todo, attendees' \cup removed'))
              =< Cardinality(Missing(rows, todo, attendees \cup removed))
        /\ Cardinality(Missing(rows, todo, attendees' \cup removed')) \in Nat
        /\ Cardinality(Missing(rows, todo, attendees \cup removed)) \in Nat
    BY MissingFewer, MissingFinite
  <2>2. Cardinality(Zeros(errors)) \in Nat
    BY ZerosFinite DEF ImportInv, ImportType
  <2>3. Cardinality(Missing(rows, todo, attendees' \cup removed'))
          =< Cardinality(Zeros(errors))
    BY <2>1, <2>2 DEF Importing
  <2> QED
    BY <2>3 DEF Importing
<1> QED
  BY <1>1, <1>2, <1>3 DEF ImportInv

(* While the parser reads there is nothing to import, and where it ends    *)
(* nothing is mapped.                                                      *)
LEMMA ParseImport ==
  ASSUME ImportInv, DataInv', Parse
  PROVE  ImportInv'
<1>1. /\ at = "parse" /\ at' \in {"parse", "map"}
      /\ UNCHANGED <<mapped, todo, errors, created, duplicates, lost>>
  BY DEF Parse, EscapedQuote, PlainQuote, EndField, EndRecord, Character, EndOfText,
         Reads, Skip, importVars, envVars
<1>2. /\ ImportType /\ mapped = 0 /\ todo = <<>> /\ errors = <<>>
      /\ created = 0 /\ duplicates = 0 /\ lost = 0
  BY <1>1 DEF ImportInv
<1>3. ImportType'
  BY <1>1, <1>2 DEF ImportType
<1>4. Mapping'
  <2>1. Len(DataRows(rows')) \in Nat
    BY DEF DataInv
  <2>2. \A A : Count(A, 0) = 0 /\ A \cap (1..0) = {}
    BY CountNone
  <2>3. /\ Len(todo') = 0 /\ RangeOf(todo') = {}
        /\ Len(errors') = 0 /\ RangeOf(errors') = {}
    BY <1>1, <1>2 DEF RangeOf
  <2>4. mapped' = 0 /\ Numbers(rows', {}) = {}
    BY <1>1, <1>2 DEF Numbers
  <2> QED
    BY <2>1, <2>2, <2>3, <2>4 DEF Mapping
<1> QED
  BY <1>1, <1>2, <1>3, <1>4 DEF ImportInv

LEMMA MapImport == ImportInv /\ DataInv /\ Map => ImportInv'
BY BlankSkipped, WrongReported, RowTaken, ImportStarted DEF Map

LEMMA StepImport == ImportInv /\ DataInv /\ Import => ImportInv'
<1> SUFFICES ASSUME ImportInv, DataInv, Import PROVE ImportInv'
  OBVIOUS
<1>1. at \in {"look", "insert"}
  BY DEF Import, FoundDuplicate, FoundNone, InsertRow, RowRefused, RowFails, Respond
<1>2. Underway
  BY <1>1, ImportUnderway
<1>3. at = "insert" => todo # <<>>
  BY <1>2 DEF Underway, Importing
<1>4. CASE FoundDuplicate
  <2>1. /\ todo # <<>> /\ at' = "look" /\ todo' = Tail(todo) /\ Wants \in attendees
        /\ created' = created /\ duplicates' = duplicates + 1
        /\ UNCHANGED <<rows, mapped, errors, attendees, lost, removed>>
    BY <1>4 DEF FoundDuplicate, NextRow, parserVars, envVars
  <2> QED
    BY <1>2, <2>1, RowCounted
<1>5. CASE FoundNone
  <2>1. /\ at = "look" /\ todo # <<>> /\ at' = "insert"
        /\ UNCHANGED <<rows, mapped, todo, errors, created, duplicates, attendees, lost,
                        removed>>
    BY <1>5 DEF FoundNone, parserVars, importVars, envVars
  <2>2. ImportType' /\ Importing'
    BY <1>2, <2>1 DEF Underway, ImportType, Importing
  <2> QED
    BY <2>1, <2>2 DEF ImportInv
<1>6. CASE InsertRow
  <2>1. /\ todo # <<>> /\ at' = "look" /\ todo' = Tail(todo)
        /\ attendees' = attendees \cup {Wants}
        /\ created' = created + 1 /\ duplicates' = duplicates
        /\ UNCHANGED <<rows, mapped, errors, lost, removed>>
    BY <1>3, <1>6 DEF InsertRow, NextRow, parserVars, envVars
  <2> QED
    BY <1>2, <2>1, RowCounted
<1>7. CASE RowRefused
  <2>1. /\ todo # <<>> /\ at' = "look" /\ todo' = Tail(todo)
        /\ errors' = Append(errors, 0)
        /\ UNCHANGED <<rows, mapped, attendees, created, duplicates, lost, removed>>
    BY <1>3, <1>7 DEF RowRefused, NextRow, Report, parserVars, envVars
  <2> QED
    BY <1>2, <2>1, RowReported
<1>8. CASE RowFails
  <2>1. /\ todo # <<>> /\ at' = "look" /\ todo' = Tail(todo)
        /\ errors' = Append(errors, 0)
        /\ UNCHANGED <<rows, mapped, removed>>
    BY <1>8 DEF RowFails, NextRow, Report, parserVars
  <2>2. /\ attendees \subseteq attendees'
        /\ \/ UNCHANGED <<created, duplicates, lost>>
           \/ created' = created + 1 /\ duplicates' = duplicates /\ lost' = lost + 1
           \/ created' = created /\ duplicates' = duplicates + 1 /\ lost' = lost + 1
    BY <1>8 DEF RowFails
  <2> QED
    BY <1>2, <2>1, <2>2, RowReported
<1>9. CASE Respond
  <2>1. /\ at = "look" /\ todo = <<>> /\ at' = "done"
        /\ UNCHANGED <<rows, mapped, todo, errors, created, duplicates, attendees, lost,
                        removed>>
    BY <1>9 DEF Respond, parserVars, importVars, envVars
  <2>2. ImportType' /\ Importing'
    BY <1>2, <2>1 DEF Underway, ImportType, Importing
  <2> QED
    BY <2>1, <2>2 DEF ImportInv
<1> QED
  BY <1>4, <1>5, <1>6, <1>7, <1>8, <1>9 DEF Import

LEMMA OthersImport == ImportInv /\ DataInv /\ Others => ImportInv'
<1> SUFFICES ASSUME ImportInv, DataInv, Others PROVE ImportInv'
  OBVIOUS
<1>1. /\ UNCHANGED <<rows, at, mapped, todo, errors, created, duplicates, lost>>
      /\ attendees \cup removed \subseteq attendees' \cup removed'
  BY DEF Others, parserVars
<1> QED
  BY <1>1, NothingImported DEF DataInv

(* The invariant of the whole request.                                     *)
CsvInv == ParserInv /\ ImportInv

LEMMA NextImport == CsvInv /\ [Next]_vars => CsvInv'
<1> SUFFICES ASSUME CsvInv, [Next]_vars PROVE CsvInv'
  OBVIOUS
<1>1. ParserInv /\ ImportInv /\ ParserInv'
  BY NextParser DEF CsvInv
<1>2. DataInv /\ DataInv'
  BY <1>1, DataRowsKnown, DataRowsKnownNext
<1>3. CASE Parse
  BY <1>1, <1>2, <1>3, ParseImport DEF CsvInv
<1>4. CASE Map
  BY <1>1, <1>2, <1>4, MapImport DEF CsvInv
<1>5. CASE Import
  BY <1>1, <1>2, <1>5, StepImport DEF CsvInv
<1>6. CASE Others
  BY <1>1, <1>2, <1>6, OthersImport DEF CsvInv
<1>7. CASE UNCHANGED vars
  <2>1. /\ UNCHANGED <<rows, at, mapped, todo, errors, created, duplicates, lost>>
        /\ attendees \cup removed \subseteq attendees' \cup removed'
    BY <1>7 DEF vars, parserVars, importVars, envVars
  <2> QED
    BY <1>1, <1>2, <2>1, NothingImported DEF CsvInv, DataInv
<1> QED
  BY <1>3, <1>4, <1>5, <1>6, <1>7 DEF Next

LEMMA CsvInvariant == Spec => []CsvInv
<1>1. Init => CsvInv
  BY InitParser, InitImport DEF CsvInv
<1>2. CsvInv /\ [Next]_vars => CsvInv'
  BY NextImport
<1> QED
  BY <1>1, <1>2, PTL DEF Spec

(* EveryRowAnswered: the answer of importCsv accounts for every record,    *)
(* whatever rows and transactions fail and whatever others do meanwhile.   *)
THEOREM AnswerAddsUp == Spec => []EveryRowAnswered
<1>1. CsvInv => EveryRowAnswered
  <2> SUFFICES ASSUME CsvInv, at = "done" PROVE EveryRowAnswered
    BY DEF EveryRowAnswered
  <2>1. DataInv /\ ImportInv
    BY DataRowsKnown DEF CsvInv
  <2>2. ImportType /\ Importing
    BY <2>1 DEF ImportInv
  <2>3. /\ Len(DataRows(rows)) = Cardinality(Blanks(rows)) + Cardinality(Faulty(rows))
                                  + Cardinality(Wanted(rows))
        /\ Cardinality(Blanks(rows)) \in Nat /\ Cardinality(Faulty(rows)) \in Nat
        /\ Cardinality(Wanted(rows)) \in Nat
    BY <2>1, RowsAccounted DEF DataInv
  <2>4. Len(todo) = 0
    BY <2>2 DEF Importing
  <2>5. Cardinality(Wanted(rows)) + Cardinality(Faulty(rows)) + lost
          = created + duplicates + Len(errors)
    BY <2>2, <2>4 DEF Importing, ImportType
  <2>6. created \in Nat /\ duplicates \in Nat /\ lost \in Nat /\ Len(errors) \in Nat
    BY <2>2 DEF ImportType
  <2> QED
    BY <2>3, <2>5, <2>6 DEF EveryRowAnswered
<1> QED
  BY <1>1, CsvInvariant, PTL

(* ReportedByNumber: the numbers in the answer's errors are those of the   *)
(* faulty records of the file, all of them, counted from its first record. *)
THEOREM NumbersAreTheFiles == Spec => []ReportedByNumber
<1>1. CsvInv => ReportedByNumber
  <2> SUFFICES ASSUME CsvInv, at = "done" PROVE ReportedByNumber
    BY DEF ReportedByNumber
  <2>1. DataInv /\ ImportInv
    BY DataRowsKnown DEF CsvInv
  <2>2. ImportType /\ Importing
    BY <2>1 DEF ImportInv
  <2>3. {errors[k] : k \in DOMAIN errors} \ {0}
          = {DataRows(rows)[k].rowNumber : k \in Faulty(rows)}
    BY <2>2 DEF Importing, RangeOf, Numbers
  <2>4. ASSUME NEW k \in DOMAIN errors, errors[k] > 0
        PROVE  Wrong(rows, rows[errors[k]])
    <3>1. errors[k] # 0
      BY <2>4
    <3>2. PICK j \in Faulty(rows) : errors[k] = DataRows(rows)[j].rowNumber
      BY <2>3, <3>1
    <3>3. j \in 1..Len(DataRows(rows)) /\ Wrong(rows, DataRows(rows)[j])
      BY DEF Faulty, Places
    <3>4. rows[errors[k]] = DataRows(rows)[j]
      BY <2>1, <3>2, <3>3 DEF DataInv
    <3> QED
      BY <3>3, <3>4
  <2> QED
    BY <2>3, <2>4 DEF ReportedByNumber
<1> QED
  BY <1>1, CsvInvariant, PTL

(* NobodyForgotten: of the attendees of the file no more are missing from  *)
(* the event, unless somebody has removed them, than the answer reports    *)
(* transactions that failed.                                               *)
THEOREM NobodyIsForgotten == Spec => []NobodyForgotten
<1>1. CsvInv => NobodyForgotten
  <2> SUFFICES ASSUME CsvInv, at = "done" PROVE NobodyForgotten
    BY DEF NobodyForgotten
  <2>1. Importing /\ todo = <<>>
    BY DEF CsvInv, ImportInv, Importing
  <2>2. RangeOf(todo) = {}
    BY <2>1 DEF RangeOf
  <2>3. Missing(rows, todo, attendees \cup removed)
          = {k \in Wanted(rows) : Address(rows, k) \notin attendees \cup removed}
    BY <2>2 DEF Missing
  <2> QED
    BY <2>1, <2>3 DEF NobodyForgotten, Importing, Zeros
<1> QED
  BY <1>1, CsvInvariant, PTL

===============================================================================
