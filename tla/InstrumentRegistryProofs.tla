---------------------- MODULE InstrumentRegistryProofs ----------------------
(***************************************************************************)
(* Proofs about InstrumentRegistry: for every set of callers, types,       *)
(* names, ISINs and instruments.  The invariant is in three parts that     *)
(* need each other: a factory is found in factoryTypes only as far as the  *)
(* array has the keys of the mapping, and what unListInstrument deletes is *)
(* one entry only as far as the two indexes agree.                         *)
(***************************************************************************)
EXTENDS InstrumentRegistry, FiniteSetTheorems, WellFoundedInduction, TLAPS

FactoriesInv == RegistryTypeOK /\ TypesAreTheKeys
RegistryInv == RegistryTypeOK /\ TypesAreTheKeys /\ IndexesAgree

-----------------------------------------------------------------------------
(* Lemmas about arrays. *)

\* A loop that returns at the first match has a first match, if any.
LEMMA FirstExists ==
    ASSUME NEW P \in SUBSET Nat, P # {}
    PROVE  \E i \in P : IsFirst(P, i)
<1> DEFINE R == OpToRel(<, Nat)
<1>1. IsWellFoundedOn(R, Nat)
  BY NatLessThanWellFounded
<1>2. \A x, y \in Nat : <<y, x>> \in R <=> y < x
  BY DEF OpToRel
<1> HIDE DEF R
<1>3. PICK x \in P : \A y \in P : ~ (<<y, x>> \in R)
  BY <1>1, WFMin
<1>4. \A y \in P : ~ (y < x)
  BY <1>2, <1>3, Zenon
<1>5. \A y \in P : x <= y
  BY <1>4
<1>6. QED
  BY <1>5 DEF IsFirst

\* What is left after the swap and the pop, place by place.
LEMMA SwapPopType ==
    ASSUME NEW S, NEW arr \in Seq(S), NEW i \in DOMAIN arr
    PROVE  /\ SwapPop(arr, i) \in Seq(S)
           /\ DOMAIN SwapPop(arr, i) = 1..Len(arr) - 1
           /\ \A k \in 1..Len(arr) - 1 :
                 SwapPop(arr, i)[k] = IF k = i THEN arr[Len(arr)] ELSE arr[k]
<1> DEFINE swapped == [arr EXCEPT ![i] = arr[Len(arr)]]
<1>1. Len(arr) \in Nat /\ Len(arr) >= 1 /\ Len(arr) \in DOMAIN arr
  OBVIOUS
<1>2. swapped \in Seq(S) /\ Len(swapped) = Len(arr)
  BY <1>1
<1>3. \A k \in DOMAIN arr : swapped[k] = IF k = i THEN arr[Len(arr)] ELSE arr[k]
  OBVIOUS
<1> HIDE DEF swapped
<1>4. /\ SubSeq(swapped, 1, Len(arr) - 1) \in Seq(S)
      /\ Len(SubSeq(swapped, 1, Len(arr) - 1)) = Len(arr) - 1
      /\ \A k \in 1..Len(arr) - 1 : SubSeq(swapped, 1, Len(arr) - 1)[k] = swapped[k]
  BY <1>1, <1>2
<1>5. SwapPop(arr, i) = SubSeq(swapped, 1, Len(arr) - 1)
  BY DEF SwapPop, swapped
<1>6. QED
  BY <1>1, <1>3, <1>4, <1>5

Places(arr, a) == {k \in DOMAIN arr : arr[k] = a}

\* The places of an element in an array are finitely many.
LEMMA PlacesFinite ==
    ASSUME NEW S, NEW arr \in Seq(S), NEW a
    PROVE  /\ IsFiniteSet(Places(arr, a))
           /\ Cardinality(Places(arr, a)) \in Nat
<1>1. IsFiniteSet(1..Len(arr))
  BY FS_Interval
<1>2. Places(arr, a) \in SUBSET (1..Len(arr))
  BY DEF Places
<1>3. IsFiniteSet(Places(arr, a))
  BY <1>1, <1>2, FS_Subset
<1>4. QED
  BY <1>3, FS_CardinalityType

\* push adds one place of the element pushed.
LEMMA AppendPlaces ==
    ASSUME NEW S, NEW arr \in Seq(S), NEW b \in S, NEW a \in S
    PROVE  Cardinality(Places(Append(arr, b), a))
               = Cardinality(Places(arr, a)) + (IF b = a THEN 1 ELSE 0)
<1>1. IsFiniteSet(Places(arr, a)) /\ Cardinality(Places(arr, a)) \in Nat
  BY PlacesFinite
<1>2. CASE b = a
  <2>1. Places(Append(arr, b), a) = Places(arr, a) \cup {Len(arr) + 1}
    BY <1>2 DEF Places
  <2>2. Len(arr) + 1 \notin Places(arr, a)
    BY DEF Places
  <2>3. QED
    BY <1>1, <1>2, <2>1, <2>2, FS_AddElement
<1>3. CASE b # a
  <2>1. Places(Append(arr, b), a) = Places(arr, a)
    BY <1>3 DEF Places
  <2>2. QED
    BY <1>1, <1>3, <2>1
<1>4. QED
  BY <1>2, <1>3

\* The swap and the pop remove one place of the element at i, and as many
\* places of every other element remain.
LEMMA SwapPopPlaces ==
    ASSUME NEW S, NEW arr \in Seq(S), NEW i \in DOMAIN arr, NEW a \in S
    PROVE  Cardinality(Places(SwapPop(arr, i), a))
               = Cardinality(Places(arr, a)) - (IF arr[i] = a THEN 1 ELSE 0)
<1> DEFINE last == Len(arr)
           new == SwapPop(arr, i)
           before == Places(arr, a)
           after == Places(new, a)
<1>1. /\ last \in Nat /\ last >= 1 /\ i \in 1..last
      /\ DOMAIN new = 1..last - 1
      /\ \A k \in 1..last - 1 : new[k] = IF k = i THEN arr[last] ELSE arr[k]
  BY SwapPopType
<1>2. IsFiniteSet(before) /\ Cardinality(before) \in Nat
  BY PlacesFinite
<1>3. \A k : k \in before <=> k \in 1..last /\ arr[k] = a
  BY DEF Places
<1>4. \A k : k \in after <=> k \in 1..last - 1 /\ new[k] = a
  BY <1>1 DEF Places
<1> HIDE DEF new, before, after
<1>5. CASE arr[last] # a
  <2>1. after = before \ {i}
    BY <1>1, <1>3, <1>4, <1>5
  <2>2. i \in before <=> arr[i] = a
    BY <1>1, <1>3
  <2>3. Cardinality(after)
            = IF i \in before THEN Cardinality(before) - 1 ELSE Cardinality(before)
    BY <1>2, <2>1, FS_RemoveElement
  <2>4. QED
    BY <1>2, <2>2, <2>3 DEF before, after, new
<1>6. CASE arr[last] = a /\ arr[i] = a
  <2>1. after = before \ {last}
    BY <1>1, <1>3, <1>4, <1>6
  <2>2. last \in before
    BY <1>1, <1>3, <1>6
  <2>3. QED
    BY <1>2, <1>6, <2>1, <2>2, FS_RemoveElement DEF before, after, new
<1>7. CASE arr[last] = a /\ arr[i] # a
  <2>1. after = (before \ {last}) \cup {i}
    BY <1>1, <1>3, <1>4, <1>7
  <2>2. last \in before /\ i \notin before \ {last}
    BY <1>1, <1>3, <1>7
  <2>3. /\ IsFiniteSet(before \ {last})
        /\ Cardinality(before \ {last}) = Cardinality(before) - 1
    BY <1>2, <2>2, FS_RemoveElement
  <2>4. Cardinality(after) = Cardinality(before \ {last}) + 1
    BY <2>1, <2>2, <2>3, FS_AddElement
  <2>5. QED
    BY <1>2, <1>7, <2>3, <2>4 DEF before, after, new
<1>8. QED
  BY <1>5, <1>6, <1>7

-----------------------------------------------------------------------------
(* What a step is. *)

\* The loop of unAuthorizeFactory, as a step on the two arrays.
FactoriesStep ==
    \/ \E t \in FactoryTypes, f \in Addresses :
          /\ factories' = [factories EXCEPT ![t] = f]
          /\ factoryTypes' = IF factories[t] = NoAddress THEN Append(factoryTypes, t)
                                                         ELSE factoryTypes
    \/ \E i \in DOMAIN factoryTypes :
          /\ factories' = [factories EXCEPT ![factoryTypes[i]] = NoAddress]
          /\ factoryTypes' = SwapPop(factoryTypes, i)

\* A step is on the factories or on the instruments, never on both.
LEMMA StepKinds ==
    ASSUME [RegistryNext]_registryVars
    PROVE  \/ FactoriesStep /\ UNCHANGED instrumentVars
           \/ /\ UNCHANGED factoryVars
              /\ \E c \in Addresses, n \in Names, i \in Isins, a \in Instruments \cup {NoAddress} :
                    ListInstrument(c, n, i, a)
           \/ /\ UNCHANGED factoryVars
              /\ \E c \in Addresses, i \in Isins : UnListInstrument(c, i)
           \/ UNCHANGED registryVars
<1>1. CASE \E c, f \in Addresses, t \in FactoryTypes : AuthorizeFactory(c, t, f)
  BY <1>1 DEF AuthorizeFactory, FactoriesStep
<1>2. CASE \E c, f \in Addresses : UnAuthorizeFactory(c, f)
  BY <1>2 DEF UnAuthorizeFactory, FactoriesStep
<1>3. CASE \E c \in Addresses, n \in Names, i \in Isins, a \in Instruments \cup {NoAddress} :
              ListInstrument(c, n, i, a)
  BY <1>3 DEF ListInstrument
<1>4. CASE \E c \in Addresses, i \in Isins : UnListInstrument(c, i)
  BY <1>4 DEF UnListInstrument
<1>5. CASE UNCHANGED registryVars
  BY <1>5
<1>6. QED
  BY <1>1, <1>2, <1>3, <1>4, <1>5 DEF RegistryNext

\* The array of instruments after unListInstrument: nothing was found, or a
\* place of the instrument is gone.
LEMMA WithoutFirstIs ==
    ASSUME NEW S, instruments \in Seq(S), NEW a \in S
    PROVE  \/ Places(instruments, a) = {} /\ WithoutFirst(a) = instruments
           \/ \E i \in Places(instruments, a) : WithoutFirst(a) = SwapPop(instruments, i)
<1> DEFINE places == Places(instruments, a)
           i == CHOOSE k \in places : IsFirst(places, k)
<1>1. WithoutFirst(a) = IF places = {} THEN instruments ELSE SwapPop(instruments, i)
  BY DEF WithoutFirst, Places
<1>2. CASE places = {}
  BY <1>1, <1>2
<1>3. CASE places # {}
  <2>1. places \in SUBSET Nat
    BY DEF Places
  <2>2. \E k \in places : IsFirst(places, k)
    BY <1>3, <2>1, FirstExists
  <2>3. i \in places
    BY <2>2
  <2>4. QED
    BY <1>1, <1>3, <2>3
<1>4. QED
  BY <1>2, <1>3

-----------------------------------------------------------------------------
(* Types, and the factories. *)

LEMMA TypeStep == RegistryTypeOK /\ [RegistryNext]_registryVars => RegistryTypeOK'
<1> SUFFICES ASSUME RegistryTypeOK, [RegistryNext]_registryVars
             PROVE  RegistryTypeOK'
  OBVIOUS
<1> USE DEF RegistryTypeOK
<1>1. CASE FactoriesStep /\ UNCHANGED instrumentVars
  <2>1. factories' \in [FactoryTypes -> Addresses \cup {NoAddress}]
    BY <1>1 DEF FactoriesStep
  <2>2. factoryTypes' \in Seq(FactoryTypes)
    <3>1. \A i \in DOMAIN factoryTypes : SwapPop(factoryTypes, i) \in Seq(FactoryTypes)
      BY SwapPopType
    <3>2. \A t \in FactoryTypes : Append(factoryTypes, t) \in Seq(FactoryTypes)
      OBVIOUS
    <3>3. \/ \E t \in FactoryTypes : factoryTypes' = Append(factoryTypes, t)
          \/ factoryTypes' = factoryTypes
          \/ \E i \in DOMAIN factoryTypes : factoryTypes' = SwapPop(factoryTypes, i)
      BY <1>1 DEF FactoriesStep
    <3>4. QED
      BY <3>1, <3>2, <3>3
  <2>3. QED
    BY <1>1, <2>1, <2>2 DEF instrumentVars, indexVars
<1>2. ASSUME NEW c \in Addresses, NEW n \in Names, NEW i \in Isins,
             NEW a \in Instruments \cup {NoAddress},
             UNCHANGED factoryVars, ListInstrument(c, n, i, a)
      PROVE  RegistryTypeOK'
  BY <1>2 DEF ListInstrument, factoryVars
<1>3. ASSUME NEW c \in Addresses, NEW i \in Isins,
             UNCHANGED factoryVars, UnListInstrument(c, i)
      PROVE  RegistryTypeOK'
  <2>1. WithoutFirst(instrumentsByIsinCode[i]) \in Seq(Instruments \cup {NoAddress})
    <3>1. \A k \in DOMAIN instruments :
             SwapPop(instruments, k) \in Seq(Instruments \cup {NoAddress})
      BY SwapPopType
    <3>2. instrumentsByIsinCode[i] \in Instruments \cup {NoAddress}
      OBVIOUS
    <3>3. QED
      BY <3>1, <3>2, WithoutFirstIs DEF Places
  <2>2. QED
    BY <1>3, <2>1, RegistryAssumption DEF UnListInstrument, factoryVars
<1>4. CASE UNCHANGED registryVars
  BY <1>4 DEF registryVars, factoryVars, instrumentVars, indexVars
<1>5. QED
  BY <1>1, <1>2, <1>3, <1>4, StepKinds

LEMMA TypesStep == FactoriesInv /\ [RegistryNext]_registryVars => TypesAreTheKeys'
<1> SUFFICES ASSUME FactoriesInv, [RegistryNext]_registryVars
             PROVE  TypesAreTheKeys'
  OBVIOUS
<1>0. /\ factories \in [FactoryTypes -> Addresses \cup {NoAddress}]
      /\ factoryTypes \in Seq(FactoryTypes)
      /\ TypesAreTheKeys
      /\ NoAddress \notin Addresses
  BY RegistryAssumption DEF FactoriesInv, RegistryTypeOK
<1>1. ASSUME NEW t \in FactoryTypes, NEW f \in Addresses,
             factories' = [factories EXCEPT ![t] = f],
             factoryTypes' = IF factories[t] = NoAddress THEN Append(factoryTypes, t)
                                                         ELSE factoryTypes
      PROVE  TypesAreTheKeys'
  <2>1. CASE factories[t] # NoAddress
    BY <1>0, <1>1, <2>1 DEF TypesAreTheKeys
  <2>2. CASE factories[t] = NoAddress
    <3>1. \A i \in DOMAIN factoryTypes : factoryTypes[i] # t
      BY <1>0, <2>2 DEF TypesAreTheKeys
    <3>2. /\ DOMAIN factoryTypes' = 1..Len(factoryTypes) + 1
          /\ factoryTypes'[Len(factoryTypes) + 1] = t
          /\ \A i \in DOMAIN factoryTypes : factoryTypes'[i] = factoryTypes[i]
          /\ DOMAIN factoryTypes = 1..Len(factoryTypes) /\ Len(factoryTypes) \in Nat
      BY <1>0, <1>1, <2>2
    <3>3. ASSUME NEW i \in DOMAIN factoryTypes', NEW j \in DOMAIN factoryTypes',
                 factoryTypes'[i] = factoryTypes'[j]
          PROVE  i = j
      BY <1>0, <3>1, <3>2, <3>3 DEF TypesAreTheKeys
    <3>4. ASSUME NEW u \in FactoryTypes
          PROVE  factories'[u] # NoAddress <=> \E i \in DOMAIN factoryTypes' : factoryTypes'[i] = u
      <4>1. CASE u = t
        BY <1>0, <1>1, <3>2, <4>1
      <4>2. CASE u # t
        <5>1. factories'[u] = factories[u]
          BY <1>0, <1>1, <4>2
        <5>2. (\E i \in DOMAIN factoryTypes' : factoryTypes'[i] = u)
                  <=> (\E i \in DOMAIN factoryTypes : factoryTypes[i] = u)
          BY <3>2, <4>2
        <5>3. QED
          BY <1>0, <5>1, <5>2 DEF TypesAreTheKeys
      <4>3. QED
        BY <4>1, <4>2
    <3>5. QED
      BY <3>3, <3>4 DEF TypesAreTheKeys
  <2>3. QED
    BY <2>1, <2>2
<1>2. ASSUME NEW d \in DOMAIN factoryTypes,
             factories' = [factories EXCEPT ![factoryTypes[d]] = NoAddress],
             factoryTypes' = SwapPop(factoryTypes, d)
      PROVE  TypesAreTheKeys'
  <2> DEFINE last == Len(factoryTypes)
  <2>0. last \in Nat
    BY <1>0
  <2>1. /\ last \in Nat /\ last >= 1 /\ DOMAIN factoryTypes = 1..last
        /\ DOMAIN factoryTypes' = 1..last - 1
        /\ \A k \in 1..last - 1 :
              factoryTypes'[k] = IF k = d THEN factoryTypes[last] ELSE factoryTypes[k]
    BY <1>0, <1>2, SwapPopType
  <2>2. \A i, j \in 1..last : factoryTypes[i] = factoryTypes[j] => i = j
    BY <1>0, <2>1 DEF TypesAreTheKeys
  <2>3. ASSUME NEW i \in DOMAIN factoryTypes', NEW j \in DOMAIN factoryTypes',
               factoryTypes'[i] = factoryTypes'[j]
        PROVE  i = j
    BY <2>1, <2>2, <2>3
  <2>4. ASSUME NEW u \in FactoryTypes
        PROVE  factories'[u] # NoAddress <=> \E i \in DOMAIN factoryTypes' : factoryTypes'[i] = u
    <3>1. CASE u = factoryTypes[d]
      <4>1. factories'[u] = NoAddress
        BY <1>0, <1>2, <3>1
      <4>2. \A i \in 1..last - 1 : factoryTypes'[i] # u
        BY <2>1, <2>2, <3>1
      <4>3. QED
        BY <2>1, <4>1, <4>2
    <3>2. CASE u # factoryTypes[d]
      <4>1. factories'[u] = factories[u]
        BY <1>0, <1>2, <3>2
      <4>2. ASSUME NEW i \in 1..last, factoryTypes[i] = u
            PROVE  \E k \in 1..last - 1 : factoryTypes'[k] = u
        <5>1. CASE i = last
          BY <2>1, <3>2, <4>2, <5>1
        <5>2. CASE i # last
          <6>1. i # d
            BY <3>2, <4>2
          <6>2. i \in 1..last - 1
            BY <2>0, <5>2
          <6>3. factoryTypes'[i] = u
            BY <2>1, <4>2, <6>1, <6>2
          <6>4. QED
            BY <6>2, <6>3
        <5>3. QED
          BY <5>1, <5>2
      <4>3. ASSUME NEW k \in 1..last - 1, factoryTypes'[k] = u
            PROVE  \E i \in 1..last : factoryTypes[i] = u
        BY <2>1, <4>3
      <4>4. factories[u] # NoAddress <=> \E i \in 1..last : factoryTypes[i] = u
        BY <1>0, <2>1 DEF TypesAreTheKeys
      <4>5. QED
        BY <2>1, <4>1, <4>2, <4>3, <4>4
    <3>3. QED
      BY <3>1, <3>2
  <2>5. QED
    BY <2>3, <2>4 DEF TypesAreTheKeys
<1>3. CASE UNCHANGED factoryVars
  BY <1>0, <1>3 DEF factoryVars, TypesAreTheKeys
<1>4. QED
  BY <1>1, <1>2, <1>3, StepKinds DEF FactoriesStep, registryVars

-----------------------------------------------------------------------------
(* The indexes. *)

LEMMA IndexesStep == RegistryTypeOK /\ IndexesAgree /\ [RegistryNext]_registryVars => IndexesAgree'
<1> SUFFICES ASSUME RegistryTypeOK, IndexesAgree, [RegistryNext]_registryVars
             PROVE  IndexesAgree'
  OBVIOUS
<1>0. /\ instrumentsByName \in [Names -> Instruments \cup {NoAddress}]
      /\ instrumentsByIsinCode \in [Isins -> Instruments \cup {NoAddress}]
      /\ isinToName \in [Isins -> Names]
  BY DEF RegistryTypeOK
<1>1. CASE UNCHANGED instrumentVars
  BY <1>1 DEF instrumentVars, indexVars, IndexesAgree, Listed
<1>2. ASSUME NEW c \in Addresses, NEW n \in Names, NEW i \in Isins,
             NEW a \in Instruments \cup {NoAddress}, ListInstrument(c, n, i, a)
      PROVE  IndexesAgree'
  <2>1. /\ instrumentsByName[n] = NoAddress
        /\ instrumentsByIsinCode[i] = NoAddress
        /\ instrumentsByName' = [instrumentsByName EXCEPT ![n] = a]
        /\ instrumentsByIsinCode' = [instrumentsByIsinCode EXCEPT ![i] = a]
        /\ isinToName' = [isinToName EXCEPT ![i] = n]
    BY <1>2 DEF ListInstrument, Listable
  <2>2. \A j \in Isins : Listed(j) => isinToName[j] # n
    BY <2>1 DEF IndexesAgree, Listed
  <2>3. /\ \A m \in Names : instrumentsByName'[m] = IF m = n THEN a ELSE instrumentsByName[m]
        /\ \A j \in Isins : instrumentsByIsinCode'[j] = IF j = i THEN a ELSE instrumentsByIsinCode[j]
        /\ \A j \in Isins : isinToName'[j] = IF j = i THEN n ELSE isinToName[j]
    BY <1>0, <2>1
  <2>4. ASSUME NEW j \in Isins, Listed(j)'
        PROVE  instrumentsByName'[isinToName'[j]] = instrumentsByIsinCode'[j]
    BY <1>0, <2>2, <2>3, <2>4 DEF IndexesAgree, Listed
  <2>5. ASSUME NEW j \in Isins, NEW k \in Isins, Listed(j)', Listed(k)',
               isinToName'[j] = isinToName'[k]
        PROVE  j = k
    BY <2>2, <2>3, <2>5 DEF IndexesAgree, Listed
  <2>6. ASSUME NEW m \in Names, instrumentsByName'[m] # NoAddress
        PROVE  \E j \in Isins : Listed(j)' /\ isinToName'[j] = m
    <3>1. CASE m = n
      BY <2>3, <2>6, <3>1 DEF Listed
    <3>2. CASE m # n
      <4>1. PICK j \in Isins : Listed(j) /\ isinToName[j] = m
        BY <2>3, <2>6, <3>2 DEF IndexesAgree
      <4>2. j # i
        BY <2>1, <4>1 DEF Listed
      <4>3. QED
        BY <2>3, <4>1, <4>2 DEF Listed
    <3>3. QED
      BY <3>1, <3>2
  <2>7. QED
    BY <2>4, <2>5, <2>6 DEF IndexesAgree
<1>3. ASSUME NEW c \in Addresses, NEW i \in Isins, UnListInstrument(c, i)
      PROVE  IndexesAgree'
  <2>1. /\ Listed(i)
        /\ instrumentsByName' = [instrumentsByName EXCEPT ![isinToName[i]] = NoAddress]
        /\ instrumentsByIsinCode' = [instrumentsByIsinCode EXCEPT ![i] = NoAddress]
        /\ isinToName' = [isinToName EXCEPT ![i] = EmptyString]
    BY <1>3 DEF UnListInstrument, Listed
  <2>2. /\ \A m \in Names : instrumentsByName'[m] = IF m = isinToName[i] THEN NoAddress
                                                   ELSE instrumentsByName[m]
        /\ \A j \in Isins : instrumentsByIsinCode'[j] = IF j = i THEN NoAddress
                                                       ELSE instrumentsByIsinCode[j]
        /\ \A j \in Isins : j # i => isinToName'[j] = isinToName[j]
    BY <1>0, <2>1
  <2>3. \A j \in Isins : Listed(j)' => j # i /\ Listed(j) /\ isinToName[j] # isinToName[i]
    BY <2>1, <2>2 DEF IndexesAgree, Listed
  <2>4. ASSUME NEW j \in Isins, Listed(j)'
        PROVE  instrumentsByName'[isinToName'[j]] = instrumentsByIsinCode'[j]
    BY <1>0, <2>2, <2>3, <2>4 DEF IndexesAgree, Listed
  <2>5. ASSUME NEW j \in Isins, NEW k \in Isins, Listed(j)', Listed(k)',
               isinToName'[j] = isinToName'[k]
        PROVE  j = k
    BY <2>2, <2>3, <2>5 DEF IndexesAgree
  <2>6. ASSUME NEW m \in Names, instrumentsByName'[m] # NoAddress
        PROVE  \E j \in Isins : Listed(j)' /\ isinToName'[j] = m
    <3>1. m # isinToName[i] /\ instrumentsByName[m] # NoAddress
      BY <2>2, <2>6
    <3>2. PICK j \in Isins : Listed(j) /\ isinToName[j] = m
      BY <3>1 DEF IndexesAgree
    <3>3. j # i
      BY <3>1, <3>2
    <3>4. QED
      BY <2>2, <3>2, <3>3 DEF Listed
  <2>7. QED
    BY <2>4, <2>5, <2>6 DEF IndexesAgree
<1>4. QED
  BY <1>1, <1>2, <1>3, StepKinds DEF registryVars

LEMMA RegistryInvInit == RegistryInit => RegistryInv /\ AllInstrumentsAreListed
<1> SUFFICES ASSUME RegistryInit PROVE RegistryInv /\ AllInstrumentsAreListed
  OBVIOUS
<1>1. RegistryTypeOK
  BY RegistryAssumption DEF RegistryInit, RegistryTypeOK
<1>2. TypesAreTheKeys
  BY DEF RegistryInit, TypesAreTheKeys
<1>3. IndexesAgree
  BY DEF RegistryInit, IndexesAgree, Listed
<1>4. ASSUME NEW a \in Instruments
      PROVE  /\ {k \in DOMAIN instruments : instruments[k] = a} = {}
             /\ {i \in Isins : instrumentsByIsinCode[i] = a} = {}
  BY RegistryAssumption DEF RegistryInit
<1>5. QED
  BY <1>1, <1>2, <1>3, <1>4 DEF RegistryInv, AllInstrumentsAreListed

\* The arrays and mappings of the registry keep their types.
THEOREM RegistryTypeCorrect == RegistrySpec => []RegistryTypeOK
<1>1. RegistryInit => RegistryTypeOK
  BY RegistryInvInit DEF RegistryInv
<1>2. QED
  BY <1>1, TypeStep, PTL DEF RegistrySpec

LEMMA RegistryInvariant == RegistrySpec => []RegistryInv
<1>1. RegistryInit => RegistryInv
  BY RegistryInvInit
<1>2. RegistryInv /\ [RegistryNext]_registryVars => RegistryInv'
  BY TypeStep, TypesStep, IndexesStep DEF RegistryInv, FactoriesInv
<1>3. QED
  BY <1>1, <1>2, PTL DEF RegistrySpec

\* The array of types has the keys of the mapping, each once, whatever
\* factories are authorized, replaced and unauthorized.
THEOREM FactoryTypesAreTheKeys == RegistrySpec => []TypesAreTheKeys
BY RegistryInvariant, PTL DEF RegistryInv

\* The index by name and the index by ISIN are one relation.
THEOREM TheIndexesAgree == RegistrySpec => []IndexesAgree
BY RegistryInvariant, PTL DEF RegistryInv

-----------------------------------------------------------------------------
(* The array of instruments. *)

IsinsOf(a) == {i \in Isins : instrumentsByIsinCode[i] = a}

LEMMA ListedByPlaces ==
    AllInstrumentsAreListed <=>
        \A a \in Instruments : Cardinality(Places(instruments, a)) = Cardinality(IsinsOf(a))
BY DEF AllInstrumentsAreListed, Places, IsinsOf

LEMMA IsinsFinite ==
    ASSUME NEW a
    PROVE  IsFiniteSet(IsinsOf(a)) /\ Cardinality(IsinsOf(a)) \in Nat
<1>1. IsinsOf(a) \in SUBSET Isins
  BY DEF IsinsOf
<1>2. QED
  BY <1>1, RegistryAssumption, FS_Subset, FS_CardinalityType

LEMMA AllListedStep ==
    RegistryTypeOK /\ AllInstrumentsAreListed /\ [RegistryNext]_registryVars
        => AllInstrumentsAreListed'
<1> SUFFICES ASSUME RegistryTypeOK, AllInstrumentsAreListed, [RegistryNext]_registryVars,
                    NEW b \in Instruments
             PROVE  Cardinality(Places(instruments', b)) = Cardinality(IsinsOf(b)')
  BY DEF AllInstrumentsAreListed, Places, IsinsOf
<1> DEFINE S == Instruments \cup {NoAddress}
<1>0. /\ instrumentsByIsinCode \in [Isins -> S]
      /\ instruments \in Seq(S)
      /\ \A a \in Instruments : Cardinality(Places(instruments, a)) = Cardinality(IsinsOf(a))
      /\ NoAddress \notin Instruments
      /\ b \in S
  BY ListedByPlaces, RegistryAssumption DEF RegistryTypeOK
<1>1. CASE UNCHANGED instrumentVars
  BY <1>0, <1>1 DEF instrumentVars, indexVars, IsinsOf
<1>2. ASSUME NEW c \in Addresses, NEW n \in Names, NEW i \in Isins, NEW a \in S,
             ListInstrument(c, n, i, a)
      PROVE  Cardinality(Places(instruments', b)) = Cardinality(IsinsOf(b)')
  <2>1. /\ instrumentsByIsinCode[i] = NoAddress
        /\ \A j \in Isins : instrumentsByIsinCode'[j] = IF j = i THEN a ELSE instrumentsByIsinCode[j]
        /\ instruments' = Append(instruments, a)
    BY <1>0, <1>2 DEF ListInstrument, Listable
  <2>2. Cardinality(Places(instruments', b))
            = Cardinality(Places(instruments, b)) + (IF a = b THEN 1 ELSE 0)
    BY <1>0, <2>1, AppendPlaces
  <2>3. Cardinality(IsinsOf(b)') = Cardinality(IsinsOf(b)) + (IF a = b THEN 1 ELSE 0)
    <3>1. i \notin IsinsOf(b)
      BY <1>0, <2>1 DEF IsinsOf
    <3>2. CASE a = b
      <4>1. IsinsOf(b)' = IsinsOf(b) \cup {i}
        BY <2>1, <3>2 DEF IsinsOf
      <4>2. QED
        BY <3>1, <3>2, <4>1, IsinsFinite, FS_AddElement
    <3>3. CASE a # b
      <4>1. IsinsOf(b)' = IsinsOf(b)
        BY <2>1, <3>1, <3>3 DEF IsinsOf
      <4>2. QED
        BY <3>3, <4>1, IsinsFinite
    <3>4. QED
      BY <3>2, <3>3
  <2>4. QED
    BY <1>0, <2>2, <2>3
<1>3. ASSUME NEW c \in Addresses, NEW i \in Isins, UnListInstrument(c, i)
      PROVE  Cardinality(Places(instruments', b)) = Cardinality(IsinsOf(b)')
  <2> DEFINE a == instrumentsByIsinCode[i]
  <2>1. /\ a \in Instruments
        /\ \A j \in Isins : instrumentsByIsinCode'[j]
                                = IF j = i THEN NoAddress ELSE instrumentsByIsinCode[j]
        /\ instruments' = WithoutFirst(a)
        /\ i \in IsinsOf(a)
    BY <1>0, <1>3 DEF UnListInstrument, IsinsOf
  <2> HIDE DEF a
  <2>2. Cardinality(IsinsOf(b)') = Cardinality(IsinsOf(b)) - (IF a = b THEN 1 ELSE 0)
    <3>1. IsinsOf(b)' = IsinsOf(b) \ {i}
      BY <1>0, <2>1 DEF IsinsOf
    <3>2. i \in IsinsOf(b) <=> a = b
      BY <2>1 DEF IsinsOf
    <3>3. Cardinality(IsinsOf(b) \ {i})
              = IF i \in IsinsOf(b) THEN Cardinality(IsinsOf(b)) - 1 ELSE Cardinality(IsinsOf(b))
      BY IsinsFinite, FS_RemoveElement
    <3>4. QED
      BY <3>1, <3>2, <3>3, IsinsFinite
  <2>3. Places(instruments, a) # {}
    <3>1. Cardinality(IsinsOf(a)) # 0
      BY <2>1, IsinsFinite, FS_EmptySet
    <3>2. Cardinality(Places(instruments, a)) # 0
      BY <1>0, <2>1, <3>1
    <3>3. QED
      BY <3>2, FS_EmptySet
  <2>4. PICK k \in Places(instruments, a) : instruments' = SwapPop(instruments, k)
    BY <1>0, <2>1, <2>3, WithoutFirstIs
  <2>5. k \in DOMAIN instruments /\ instruments[k] = a
    BY <2>4 DEF Places
  <2>6. Cardinality(Places(SwapPop(instruments, k), b))
            = Cardinality(Places(instruments, b)) - (IF instruments[k] = b THEN 1 ELSE 0)
    BY <1>0, <2>5, SwapPopPlaces
  <2>7. QED
    BY <1>0, <2>2, <2>4, <2>5, <2>6
<1>4. QED
  BY <1>1, <1>2, <1>3, StepKinds DEF registryVars

\* getAllInstruments answers each instrument once for each ISIN it is listed
\* under: the array never keeps what was unlisted and never loses what was
\* not, whichever element the swap moves.
THEOREM AllListed == RegistrySpec => []AllInstrumentsAreListed
<1>1. RegistryInit => RegistryTypeOK /\ AllInstrumentsAreListed
  BY RegistryInvInit DEF RegistryInv
<1>2. RegistryTypeOK /\ AllInstrumentsAreListed /\ [RegistryNext]_registryVars
          => (RegistryTypeOK /\ AllInstrumentsAreListed)'
  BY TypeStep, AllListedStep
<1>3. QED
  BY <1>1, <1>2, PTL DEF RegistrySpec

-----------------------------------------------------------------------------
(* The registry implements the directory. *)

EntryOf(i) == [name |-> isinToName[i], isin |-> i, instrument |-> instrumentsByIsinCode[i]]
Entries == {EntryOf(i) : i \in {j \in Isins : Listed(j)}}

LEMMA DirectoryInit == RegistryInit => Directory!Init
<1> SUFFICES ASSUME RegistryInit PROVE Directory!Init
  OBVIOUS
<1>1. {j \in Isins : Listed(j)} = {}
  BY DEF RegistryInit, Listed
<1>2. QED
  BY <1>1 DEF RegistryInit, Directory!Init

\* A factory the loop over the array finds is one the mapping authorizes.
LEMMA FoundIsAuthorized ==
    ASSUME FactoriesInv, NEW c \in Addresses, IsFactoryAuthorized(c)
    PROVE  Directory!Authorized(c)
BY DEF FactoriesInv, RegistryTypeOK, IsFactoryAuthorized, TypesOf, Directory!Authorized

LEMMA DirectoryStep ==
    RegistryInv /\ [RegistryNext]_registryVars => [Directory!Next]_<<Entries, factories>>
<1> SUFFICES ASSUME RegistryInv, [RegistryNext]_registryVars
             PROVE  [Directory!Next]_<<Entries, factories>>
  OBVIOUS
<1>0. /\ instrumentsByName \in [Names -> Instruments \cup {NoAddress}]
      /\ instrumentsByIsinCode \in [Isins -> Instruments \cup {NoAddress}]
      /\ isinToName \in [Isins -> Names]
      /\ factories \in [FactoryTypes -> Addresses \cup {NoAddress}]
      /\ factoryTypes \in Seq(FactoryTypes)
      /\ NoAddress \notin Instruments
      /\ IndexesAgree
      /\ FactoriesInv
  BY RegistryAssumption DEF RegistryInv, RegistryTypeOK, FactoriesInv
<1>1. ASSUME UNCHANGED instrumentVars
      PROVE  Entries' = Entries
  BY <1>1 DEF Entries, EntryOf, Listed, instrumentVars, indexVars
<1>2. ASSUME NEW c \in Addresses, NEW t \in FactoryTypes, NEW f \in Addresses,
             AuthorizeFactory(c, t, f)
      PROVE  Directory!Authorize(t, f)
  BY <1>1, <1>2 DEF AuthorizeFactory, Directory!Authorize, Entries, EntryOf
<1>3. ASSUME NEW c \in Addresses, NEW f \in Addresses, UnAuthorizeFactory(c, f)
      PROVE  Directory!UnAuthorize(f)
  <2>1. PICK i \in DOMAIN factoryTypes :
            /\ i \in TypesOf(f)
            /\ factories' = [factories EXCEPT ![factoryTypes[i]] = NoAddress]
    BY <1>3 DEF UnAuthorizeFactory, IsFirst
  <2>2. factoryTypes[i] \in FactoryTypes /\ factories[factoryTypes[i]] = f
    BY <1>0, <2>1 DEF TypesOf
  <2>3. Entries' = Entries
    BY <1>1, <1>3 DEF UnAuthorizeFactory
  <2>4. /\ {factoryTypes[i]} \in SUBSET FactoryTypes
        /\ {factoryTypes[i]} # {}
        /\ \A t \in {factoryTypes[i]} : factories[t] = f
        /\ factories' = [t \in FactoryTypes |-> IF t \in {factoryTypes[i]} THEN NoAddress
                                                                          ELSE factories[t]]
    BY <1>0, <2>1, <2>2
  <2>5. QED
    BY <2>3, <2>4 DEF Directory!UnAuthorize, Entries, EntryOf
<1>4. ASSUME NEW c \in Addresses, NEW n \in Names, NEW i \in Isins,
             NEW a \in Instruments \cup {NoAddress}, ListInstrument(c, n, i, a)
      PROVE  [Directory!Next]_<<Entries, factories>>
  <2> DEFINE e == [name |-> n, isin |-> i, instrument |-> a]
  <2>1. /\ instrumentsByName[n] = NoAddress /\ ~Listed(i)
        /\ \A j \in Isins : instrumentsByIsinCode'[j] = IF j = i THEN a ELSE instrumentsByIsinCode[j]
        /\ \A j \in Isins : isinToName'[j] = IF j = i THEN n ELSE isinToName[j]
        /\ factories' = factories
        /\ IsFactoryAuthorized(c)
    BY <1>0, <1>4 DEF ListInstrument, Listable, Listed, factoryVars
  <2>2. /\ \A j \in Isins : Listed(j)' <=> Listed(j) \/ (j = i /\ a # NoAddress)
        /\ \A j \in Isins : j # i => EntryOf(j)' = EntryOf(j)
        /\ EntryOf(i)' = e
    BY <2>1 DEF Listed, EntryOf
  <2>3. CASE a = NoAddress
    <3>1. Entries' = Entries
      BY <2>1, <2>2, <2>3 DEF Entries
    <3>2. QED
      BY <2>1, <3>1
  <2>4. CASE a # NoAddress
    <3>1. Entries' = Entries \cup {e}
      BY <2>1, <2>2, <2>4 DEF Entries
    <3>2. \A other \in Entries : other.name # e.name /\ other.isin # e.isin
      BY <1>0, <2>1 DEF Entries, EntryOf, IndexesAgree, Listed
    <3>3. Directory!Authorized(c)
      BY <1>0, <2>1, FoundIsAuthorized
    <3>4. e \in Directory!Entry
      BY <2>4 DEF Directory!Entry
    <3> HIDE DEF e
    <3>5. Directory!List(c, e)
      BY <2>1, <3>1, <3>2, <3>3 DEF Directory!List, Entries, EntryOf
    <3>6. QED
      BY <3>4, <3>5 DEF Directory!Next
  <2>5. QED
    BY <2>3, <2>4
<1>5. ASSUME NEW c \in Addresses, NEW i \in Isins, UnListInstrument(c, i)
      PROVE  Directory!Next
  <2>0. PICK e : e = EntryOf(i)
    OBVIOUS
  <2>1. /\ Listed(i)
        /\ \A j \in Isins : instrumentsByIsinCode'[j] = IF j = i THEN NoAddress
                                                        ELSE instrumentsByIsinCode[j]
        /\ \A j \in Isins : j # i => isinToName'[j] = isinToName[j]
        /\ factories' = factories
        /\ IsFactoryAuthorized(c)
    BY <1>0, <1>5 DEF UnListInstrument, Listed, factoryVars
  <2>2. /\ \A j \in Isins : Listed(j)' <=> Listed(j) /\ j # i
        /\ \A j \in Isins : j # i => EntryOf(j)' = EntryOf(j)
        /\ \A j \in Isins : EntryOf(j) = EntryOf(i) => j = i
    BY <2>1 DEF Listed, EntryOf
  <2>3. Entries' = Entries \ {e}
    BY <2>0, <2>1, <2>2 DEF Entries
  <2>4. e \in Entries /\ e \in Directory!Entry
    BY <1>0, <2>0, <2>1 DEF Entries, EntryOf, Listed, Directory!Entry
  <2>5. Directory!Authorized(c)
    BY <1>0, <2>1, FoundIsAuthorized
  <2>6. Directory!UnList(c, e)
    BY <2>1, <2>3, <2>4, <2>5 DEF Directory!UnList, Entries, EntryOf
  <2>7. QED
    BY <2>4, <2>6 DEF Directory!Next
<1>6. CASE UNCHANGED registryVars
  BY <1>1, <1>6 DEF registryVars, factoryVars
<1>7. QED
  BY <1>2, <1>3, <1>4, <1>5, <1>6 DEF RegistryNext, Directory!Next

\* The registry is the directory: names and ISINs are unique, and only a
\* factory of some type in the mapping adds or removes an entry.
THEOREM RegistryIsADirectory == RegistrySpec => IsADirectory
<1>1. RegistryInv /\ [RegistryNext]_registryVars => [Directory!Next]_<<Entries, factories>>
  BY DirectoryStep
<1>2. QED
  BY <1>1, DirectoryInit, RegistryInvariant, PTL
     DEF RegistrySpec, IsADirectory, Directory!Spec, Entries, EntryOf
=============================================================================
