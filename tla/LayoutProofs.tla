----------------------------- MODULE LayoutProofs -----------------------------
(***************************************************************************)
(* Proofs about Layout, for every set of types, every size of each type     *)
(* and every number of variables.                                           *)
(***************************************************************************)
EXTENDS Layout, TLAPS

(* A variable has a bit number exactly when it is a bit.                    *)
Labelled ==
    \A k \in DOMAIN ctypes : ctypes[k] = Bit <=> offsets[k].bit # NoBit

Addressed == TypeOK /\ Labelled /\ FormAgrees

(* What one turn of the loop gives: an address, of the right kind, the same *)
(* in the form, at the first free place of the buffer for a bit after a bit *)
(* and at the start of the first free byte otherwise.                       *)
LEMMA AfterFollows ==
    ASSUME NEW prev \in Offset, NEW p \in CTypes, NEW c \in CTypes,
           p = Bit <=> prev.bit # NoBit
    PROVE  LET next == After(prev, p, c)
               free == 8 * prev.byte + BitOrZero(prev)
                         + (IF p = Bit THEN 1 ELSE 8 * ByteSize[p])
               start == 8 * next.byte + BitOrZero(next)
           IN  /\ next \in Offset
               /\ c = Bit <=> next.bit # NoBit
               /\ FormAfter(prev, p, c) = next
               /\ free <= start
               /\ start = IF c = Bit /\ p = Bit
                          THEN free ELSE 8 * ((free + 7) \div 8)
<1> USE LayoutAssumption DEF Offset
<1>1. ByteSize[p] \in Nat \ {0}
  OBVIOUS
<1>2. CASE p = Bit /\ c = Bit
  <2>1. prev.bit \in 0..7 /\ BitOrZero(prev) = prev.bit
    BY <1>2 DEF BitOrZero
  <2>2. CASE prev.bit >= 7
    BY <1>2, <2>1, <2>2 DEF After, FormAfter, BitOrZero
  <2>3. CASE ~(prev.bit >= 7)
    BY <1>2, <2>1, <2>3 DEF After, FormAfter, BitOrZero
  <2>4. QED
    BY <2>2, <2>3
<1>3. CASE ~(p = Bit /\ c = Bit)
  <2>1. /\ After(prev, p, c) = [byte |-> prev.byte + ByteSize[p],
                                bit |-> IF c = Bit THEN 0 ELSE NoBit]
        /\ FormAfter(prev, p, c) = After(prev, p, c)
    BY <1>3 DEF After, FormAfter
  <2>2. BitOrZero(After(prev, p, c)) = 0
    BY <2>1 DEF BitOrZero
  <2>3. CASE p = Bit
    BY <1>1, <1>3, <2>1, <2>2, <2>3 DEF BitOrZero
  <2>4. CASE p # Bit
    BY <1>1, <1>3, <2>1, <2>2, <2>4 DEF BitOrZero
  <2>5. QED
    BY <2>3, <2>4
<1>4. QED
  BY <1>2, <1>3

(* The first variable is at the start of the buffer.                        *)
LEMMA FirstFits ==
    ASSUME NEW c \in CTypes
    PROVE  /\ First(c) \in Offset
           /\ c = Bit <=> First(c).bit # NoBit
  BY LayoutAssumption DEF First, Offset

LEMMA AddressedInit == Init => Addressed
<1> SUFFICES ASSUME Init PROVE Addressed
  OBVIOUS
<1>1. /\ ctypes \in Seq(CTypes) /\ Len(ctypes) = 0 /\ DOMAIN ctypes = {}
      /\ offsets \in Seq(Offset) /\ Len(offsets) = 0
      /\ form \in Seq(Offset) /\ Len(form) = 0
  BY DEF Init
<1>2. ~bound /\ bound \in BOOLEAN /\ ones \subseteq Nat
  BY Zenon DEF Init
<1>3. TypeOK
  BY <1>1, <1>2, LayoutAssumption DEF TypeOK
<1>4. Labelled /\ FormAgrees
  BY <1>1 DEF Init, Labelled, FormAgrees
<1>5. QED
  BY <1>3, <1>4 DEF Addressed

(* The sizes a variable takes, once its type is known.                      *)
LEMMA Places ==
    ASSUME TypeOK, NEW k \in DOMAIN ctypes
    PROVE  Start(k) \in Nat /\ Width(k) \in Nat \ {0}
<1>1. ctypes[k] \in CTypes /\ offsets[k] \in Offset
  BY DEF TypeOK
<1>2. ByteSize[ctypes[k]] \in Nat \ {0}
  BY <1>1, LayoutAssumption
<1>3. QED
  BY <1>1, <1>2 DEF Start, Width, BitOrZero, Offset

LEMMA AddressedStep == Addressed /\ [Next]_vars => Addressed'
<1> SUFFICES ASSUME Addressed, [Next]_vars PROVE Addressed'
  OBVIOUS
<1> USE LayoutAssumption DEF Addressed
<1>1. ASSUME NEW c \in CTypes, TakeVariable(c) PROVE Addressed'
  <2> DEFINE n == Len(ctypes)
             next == IF n = 0 THEN First(c) ELSE After(offsets[n], ctypes[n], c)
  <2>1. /\ ctypes' = Append(ctypes, c)
        /\ offsets' = Append(offsets, next)
        /\ n < MaxVars /\ ~bound
        /\ UNCHANGED <<bound, ones, values>>
    BY <1>1 DEF TakeVariable
  <2>2. next \in Offset /\ (c = Bit <=> next.bit # NoBit) /\ form' = Append(form, next)
    <3>1. CASE n = 0
      BY <1>1, <3>1, FirstFits DEF TakeVariable
    <3>2. CASE n # 0
      <4>1. n \in DOMAIN ctypes /\ n \in DOMAIN offsets /\ form[n] = offsets[n]
        BY <3>2 DEF TypeOK, FormAgrees
      <4>2. /\ offsets[n] \in Offset
            /\ ctypes[n] \in CTypes
            /\ ctypes[n] = Bit <=> offsets[n].bit # NoBit
        BY <4>1 DEF TypeOK, Labelled
      <4>3. /\ next \in Offset
            /\ c = Bit <=> next.bit # NoBit
            /\ FormAfter(offsets[n], ctypes[n], c) = next
        BY <3>2, <4>2, AfterFollows
      <4>4. QED
        BY <1>1, <3>2, <4>1, <4>3 DEF TakeVariable
    <3>3. QED
      BY <3>1, <3>2
  <2> HIDE DEF next
  <2>3. TypeOK'
    BY <2>1, <2>2 DEF TypeOK
  <2>4. Labelled'
    <3> SUFFICES ASSUME NEW k \in DOMAIN ctypes'
                 PROVE  ctypes'[k] = Bit <=> offsets'[k].bit # NoBit
      BY DEF Labelled
    <3>1. CASE k = n + 1
      BY <2>1, <2>2, <3>1 DEF TypeOK
    <3>2. CASE k # n + 1
      <4>1. k \in DOMAIN ctypes /\ ctypes'[k] = ctypes[k] /\ offsets'[k] = offsets[k]
        BY <2>1, <3>2 DEF TypeOK
      <4>2. QED
        BY <4>1 DEF Labelled
    <3>3. QED
      BY <3>1, <3>2
  <2>5. FormAgrees'
    BY <2>1, <2>2 DEF FormAgrees
  <2>6. QED
    BY <2>3, <2>4, <2>5
<1>2. CASE Bind
  BY <1>2 DEF Bind, TypeOK, Labelled, FormAgrees
<1>3. ASSUME NEW k \in DOMAIN ctypes, NEW value \in {0, 1}, Set(k, value)
      PROVE  Addressed'
  <2>1. UNCHANGED <<ctypes, offsets, form, bound>> /\ bound
    BY <1>3 DEF Set
  <2>2. ones' \subseteq Nat
    <3>1. Start(k) \in Nat /\ Width(k) \in Nat
      BY Places
    <3>2. Region(k) \subseteq Nat
      BY <3>1 DEF Region
    <3>3. QED
      BY <1>3, <3>2 DEF Set, Store, TypeOK
  <2>3. values' \in [DOMAIN ctypes -> {0, 1}]
    BY <1>3, <2>1 DEF Set, TypeOK
  <2>4. QED
    BY <2>1, <2>2, <2>3 DEF TypeOK, Labelled, FormAgrees
<1>4. CASE UNCHANGED vars
  BY <1>4 DEF vars, TypeOK, Labelled, FormAgrees
<1>5. QED
  BY <1>1, <1>2, <1>3, <1>4 DEF Next

LEMMA AddressedInvariant == Spec => []Addressed
  BY AddressedInit, AddressedStep, PTL DEF Spec

(* The addresses, the buffer and the values keep their types; in particular *)
(* the loop never numbers a bit beyond the seventh.                         *)
THEOREM TypeCorrect == Spec => []TypeOK
  BY AddressedInvariant, PTL DEF Addressed

(* The loop of the frontend computes what the loop of the backend computes, *)
(* for every list of variables of every length.                             *)
THEOREM FormsAgree == Spec => []FormAgrees
  BY AddressedInvariant, PTL DEF Addressed

----------------------------------------------------------------------------
(* Where the variable just taken goes, in terms of the one before it.       *)
LEMMA TakenFollows ==
    ASSUME Addressed, Addressed', NEW c \in CTypes, TakeVariable(c),
           NEW n \in Nat \ {0}, n = Len(ctypes)
    PROVE  LET free == Start(n) + Width(n)
           IN  /\ n \in DOMAIN ctypes
               /\ free <= Start(n + 1)'
               /\ Start(n + 1)' = IF c = Bit /\ ctypes[n] = Bit
                                  THEN free ELSE 8 * ((free + 7) \div 8)
<1> DEFINE next == After(offsets[n], ctypes[n], c)
<1>1. n \in DOMAIN ctypes /\ n \in DOMAIN offsets
  BY DEF Addressed, TypeOK
<1>2. /\ offsets[n] \in Offset
      /\ ctypes[n] \in CTypes
      /\ ctypes[n] = Bit <=> offsets[n].bit # NoBit
  BY <1>1 DEF Addressed, TypeOK, Labelled
<1>3. Start(n + 1)' = 8 * next.byte + (IF next.bit = NoBit THEN 0 ELSE next.bit)
  <2>1. offsets' = Append(offsets, next)
    BY DEF TakeVariable
  <2>2. offsets'[n + 1] = next
    BY <2>1 DEF Addressed, TypeOK
  <2>3. QED
    BY <2>2 DEF Start, BitOrZero
<1> HIDE DEF next
<1>4. LET free == 8 * offsets[n].byte + BitOrZero(offsets[n])
                    + (IF ctypes[n] = Bit THEN 1 ELSE 8 * ByteSize[ctypes[n]])
          start == 8 * next.byte + BitOrZero(next)
      IN  /\ free <= start
          /\ start = IF c = Bit /\ ctypes[n] = Bit
                     THEN free ELSE 8 * ((free + 7) \div 8)
  BY <1>2, AfterFollows DEF next
<1>5. QED
  BY <1>1, <1>3, <1>4 DEF Start, Width, BitOrZero

(* The older variables stay where they are.                                 *)
LEMMA TakenKeeps ==
    ASSUME Addressed, NEW c \in CTypes, TakeVariable(c), NEW k \in DOMAIN ctypes
    PROVE  /\ k \in DOMAIN ctypes'
           /\ ctypes'[k] = ctypes[k]
           /\ Start(k)' = Start(k)
           /\ Width(k)' = Width(k)
<1>1. /\ k \in DOMAIN ctypes'
      /\ ctypes'[k] = ctypes[k]
      /\ offsets'[k] = offsets[k]
  BY DEF Addressed, TypeOK, TakeVariable
<1>2. QED
  BY <1>1 DEF Start, Width, BitOrZero

LEMMA DisjointStep == Addressed /\ Addressed' /\ Disjoint /\ [Next]_vars => Disjoint'
<1> SUFFICES ASSUME Addressed, Addressed', Disjoint, [Next]_vars PROVE Disjoint'
  OBVIOUS
<1>1. ASSUME NEW c \in CTypes, TakeVariable(c) PROVE Disjoint'
  <2>0. PICK n \in Nat : n = Len(ctypes)
    BY DEF Addressed, TypeOK
  <2> SUFFICES ASSUME NEW j \in DOMAIN ctypes', NEW k \in DOMAIN ctypes', j < k
               PROVE  Start(j)' + Width(j)' <= Start(k)'
    BY DEF Disjoint
  <2>1. DOMAIN ctypes' = 1..(n + 1) /\ DOMAIN ctypes = 1..n
    BY <1>1, <2>0 DEF Addressed, TypeOK, TakeVariable
  <2>2. j \in DOMAIN ctypes
    BY <2>1
  <2>3. Start(j)' = Start(j) /\ Width(j)' = Width(j)
    BY <1>1, <2>2, TakenKeeps
  <2>4. CASE k # n + 1
    <3>1. k \in DOMAIN ctypes
      BY <2>1, <2>4
    <3>2. Start(k)' = Start(k)
      BY <1>1, <3>1, TakenKeeps
    <3>3. Start(j) + Width(j) <= Start(k)
      BY <2>2, <3>1 DEF Disjoint
    <3>4. QED
      BY <2>3, <3>2, <3>3
  <2>5. CASE k = n + 1
    <3>1. n # 0
      BY <2>1, <2>5
    <3>2. n \in DOMAIN ctypes /\ Start(n) + Width(n) <= Start(n + 1)'
      BY <1>1, <2>0, <3>1, TakenFollows
    <3>3. Start(j) + Width(j) <= Start(n) + Width(n)
      <4>1. CASE j = n
        <5>1. Start(n) \in Nat /\ Width(n) \in Nat
          BY <3>2, Places DEF Addressed
        <5>2. QED
          BY <4>1, <5>1
      <4>2. CASE j # n
        <5>1. j < n
          BY <2>1, <2>2, <4>2
        <5>2. Start(j) + Width(j) <= Start(n)
          BY <2>2, <3>2, <5>1 DEF Disjoint
        <5>3. /\ Start(n) \in Nat /\ Width(n) \in Nat
              /\ Start(j) \in Nat /\ Width(j) \in Nat
          BY <2>2, <3>2, Places DEF Addressed
        <5>4. QED
          BY <5>2, <5>3
      <4>3. QED
        BY <4>1, <4>2
    <3>4. /\ Start(n) \in Nat /\ Width(n) \in Nat
          /\ Start(j) \in Nat /\ Width(j) \in Nat
      BY <2>2, <3>2, Places DEF Addressed
    <3>5. Start(n + 1)' \in Nat
      <4>1. n + 1 \in DOMAIN ctypes'
        BY <2>1
      <4>2. offsets'[n + 1] \in Offset
        BY <4>1 DEF Addressed, TypeOK
      <4>3. QED
        BY <4>2 DEF Start, BitOrZero, Offset
    <3>6. QED
      BY <2>3, <2>5, <3>2, <3>3, <3>4, <3>5
  <2>6. QED
    BY <2>4, <2>5
<1>2. CASE UNCHANGED <<ctypes, offsets>>
  BY <1>2 DEF Disjoint, Start, Width, BitOrZero
<1>3. QED
  BY <1>1, <1>2 DEF Next, Bind, Set, vars

(* No two variables share a bit of the buffer, for every list of variables. *)
THEOREM RegionsDisjoint == Spec => []Disjoint
<1>1. Init => Disjoint
  BY DEF Init, Disjoint
<1>2. QED
  BY <1>1, AddressedInvariant, DisjointStep, PTL DEF Spec

LEMMA PackedStep == Addressed /\ Addressed' /\ Packed /\ [Next]_vars => Packed'
<1> SUFFICES ASSUME Addressed, Addressed', Packed, [Next]_vars PROVE Packed'
  OBVIOUS
<1>1. ASSUME NEW c \in CTypes, TakeVariable(c) PROVE Packed'
  <2>0. PICK n \in Nat : n = Len(ctypes)
    BY DEF Addressed, TypeOK
  <2> SUFFICES ASSUME NEW k \in DOMAIN ctypes', k > 1
               PROVE  Start(k)' =
                        IF ctypes'[k] = Bit /\ ctypes'[k - 1] = Bit
                        THEN Start(k - 1)' + Width(k - 1)'
                        ELSE 8 * ((Start(k - 1)' + Width(k - 1)' + 7) \div 8)
    BY DEF Packed
  <2>1. DOMAIN ctypes' = 1..(n + 1) /\ DOMAIN ctypes = 1..n
    BY <1>1, <2>0 DEF Addressed, TypeOK, TakeVariable
  <2>2. k - 1 \in DOMAIN ctypes
    BY <2>1
  <2>3. /\ ctypes'[k - 1] = ctypes[k - 1]
        /\ Start(k - 1)' = Start(k - 1)
        /\ Width(k - 1)' = Width(k - 1)
    BY <1>1, <2>2, TakenKeeps
  <2>4. CASE k # n + 1
    <3>1. k \in DOMAIN ctypes
      BY <2>1, <2>4
    <3>2. Start(k)' = Start(k) /\ ctypes'[k] = ctypes[k]
      BY <1>1, <3>1, TakenKeeps
    <3>3. QED
      BY <2>3, <3>1, <3>2 DEF Packed
  <2>5. CASE k = n + 1
    <3>1. n # 0 /\ k - 1 = n
      BY <2>1, <2>5
    <3>2. Start(n + 1)' = IF c = Bit /\ ctypes[n] = Bit
                          THEN Start(n) + Width(n)
                          ELSE 8 * ((Start(n) + Width(n) + 7) \div 8)
      BY <1>1, <2>0, <3>1, TakenFollows
    <3>3. ctypes'[n + 1] = c
      BY <1>1, <2>0 DEF TakeVariable, Addressed, TypeOK
    <3>4. QED
      BY <2>3, <2>5, <3>1, <3>2, <3>3
  <2>6. QED
    BY <2>4, <2>5
<1>2. CASE UNCHANGED <<ctypes, offsets>>
  BY <1>2 DEF Packed, Start, Width, BitOrZero
<1>3. QED
  BY <1>1, <1>2 DEF Next, Bind, Set, vars

(* The addresses leave no gap but the one up to the next byte, for every    *)
(* list of variables.                                                       *)
THEOREM LayoutPacked == Spec => []Packed
<1>1. Init => Packed
  BY DEF Init, Packed
<1>2. QED
  BY <1>1, AddressedInvariant, PackedStep, PTL DEF Spec

----------------------------------------------------------------------------
(* Before the buffer is bound nothing is set in it.                         *)
Blank == ~bound => ones = {}

LEMMA ReadsBackStep ==
    Addressed /\ Disjoint /\ Blank /\ ReadsBack /\ [Next]_vars => (Blank /\ ReadsBack)'
<1> SUFFICES ASSUME Addressed, Disjoint, Blank, ReadsBack, [Next]_vars
             PROVE  Blank' /\ ReadsBack'
  OBVIOUS
<1>1. ASSUME NEW c \in CTypes, TakeVariable(c) PROVE Blank' /\ ReadsBack'
  BY <1>1 DEF TakeVariable, Blank, ReadsBack
<1>2. CASE Bind
  BY <1>2 DEF Bind, Blank, ReadsBack
<1>3. ASSUME NEW k \in DOMAIN ctypes, NEW value \in {0, 1}, Set(k, value)
      PROVE  Blank' /\ ReadsBack'
  <2>1. /\ UNCHANGED <<ctypes, offsets, form, bound>>
        /\ bound
        /\ ones' = Store(k, value)
        /\ values' = [values EXCEPT ![k] = value]
    BY <1>3 DEF Set
  <2> SUFFICES ASSUME NEW j \in DOMAIN ctypes
               PROVE  IF values'[j] = 1 THEN Region(j) \subseteq ones'
                      ELSE Region(j) \cap ones' = {}
    BY <2>1 DEF Blank, ReadsBack, Region, Start, Width, BitOrZero
  <2>2. DOMAIN values = DOMAIN ctypes
    BY <2>1 DEF Addressed, TypeOK
  <2>3. CASE j = k
    BY <2>1, <2>2, <2>3 DEF Store
  <2>4. CASE j # k
    <3>1. Region(j) \cap Region(k) = {}
      <4>1. /\ Start(j) \in Nat /\ Width(j) \in Nat
            /\ Start(k) \in Nat /\ Width(k) \in Nat
        BY Places DEF Addressed
      <4>2. \/ Start(j) + Width(j) <= Start(k)
            \/ Start(k) + Width(k) <= Start(j)
        <5>1. j \in Nat /\ k \in Nat
          BY DEF Addressed, TypeOK
        <5>2. j < k \/ k < j
          BY <2>4, <5>1
        <5>3. QED
          BY <5>2 DEF Disjoint
      <4>3. QED
        BY <4>1, <4>2 DEF Region
    <3>2. values'[j] = values[j]
      BY <2>1, <2>2, <2>4
    <3>3. IF values[j] = 1 THEN Region(j) \subseteq ones
          ELSE Region(j) \cap ones = {}
      BY <2>1 DEF ReadsBack
    <3>4. QED
      BY <2>1, <3>1, <3>2, <3>3 DEF Store
  <2>5. QED
    BY <2>3, <2>4
<1>4. CASE UNCHANGED vars
  BY <1>4 DEF vars, Blank, ReadsBack, Region, Start, Width, BitOrZero
<1>5. QED
  BY <1>1, <1>2, <1>3, <1>4 DEF Next

(* A variable reads back what was last written to it, however many others   *)
(* were written in between.                                                 *)
THEOREM WritesReadBack == Spec => []ReadsBack
<1>1. Init => Blank /\ ReadsBack
  BY DEF Init, Blank, ReadsBack
<1>2. QED
  BY <1>1, AddressedInvariant, RegionsDisjoint, ReadsBackStep, PTL DEF Spec

=============================================================================
