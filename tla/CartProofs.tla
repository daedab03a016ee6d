------------------------------ MODULE CartProofs ------------------------------
(***************************************************************************)
(* Proofs about module Cart, for any products, limits and number of        *)
(* overlapping requests.                                                   *)
(*                                                                         *)
(* The bounds count lines and the requests that are about to add one; a    *)
(* push moves one from the second to the first.  Exactness needs to know   *)
(* what the one request at work on a product is going to write.            *)
(***************************************************************************)
EXTENDS Cart, FiniteSetTheorems, TLAPS

(* What a request alone on its product has read is still so, or the        *)
(* product was removed since.                                              *)
AloneInv ==
    \A p \in exact : \A c \in AddersOf(p) :
        /\ AddersOf(p) = {c}
        /\ IF call[c].step = "merging"
           THEN LinesOf(p) = {} \/ call[c].qty = Capped(wanted[p] + call[c].ask)
           ELSE LinesOf(p) = {} /\ call[c].qty = Capped(call[c].ask)

IInv == /\ CartTypeOK
        /\ CapWithinRace
        /\ SplitWithinRace
        /\ ExactUnlessRaced
        /\ AloneInv

-----------------------------------------------------------------------------
LEMMA IdleType == Idle \in CallDocs /\ Idle.step = "idle"
<1>1. (CHOOSE p \in Products : TRUE) \in Products  BY CartAssumption
<1> QED  BY <1>1, CartAssumption DEF Idle, CallDocs, Quantities

LEMMA CappedType ==
    ASSUME NEW n \in Nat \ {0}
    PROVE  Capped(n) \in Quantities
BY CartAssumption DEF Capped, Quantities

(* Sets of requests are finite, and no larger than Calls.                  *)
LEMMA CallSets ==
    ASSUME NEW S, S \subseteq Calls
    PROVE  /\ IsFiniteSet(S) /\ Cardinality(S) \in Nat
           /\ Cardinality(Calls) \in Nat /\ Cardinality(S) <= Cardinality(Calls)
           /\ \A c \in Calls : c \notin S => Cardinality(S) <= Cardinality(Calls) - 1
<1>1. IsFiniteSet(S) /\ Cardinality(S) <= Cardinality(Calls)
  BY CartAssumption, FS_Subset
<1>2. Cardinality(S) \in Nat /\ Cardinality(Calls) \in Nat
  BY <1>1, CartAssumption, FS_CardinalityType
<1>3. ASSUME NEW c \in Calls, c \notin S  PROVE Cardinality(S) <= Cardinality(Calls) - 1
  <2>1. IsFiniteSet(Calls \ {c}) /\ Cardinality(Calls \ {c}) = Cardinality(Calls) - 1
    BY CartAssumption, FS_RemoveElement
  <2>2. S \subseteq Calls \ {c}  BY <1>3
  <2> QED  BY <2>1, <2>2, FS_Subset
<1> QED  BY <1>1, <1>2, <1>3

LEMMA LineSets ==
    ASSUME CartTypeOK, NEW S, S \subseteq DOMAIN lines
    PROVE  IsFiniteSet(S) /\ Cardinality(S) \in Nat
BY FS_Subset, FS_CardinalityType DEF CartTypeOK

LEMMA LinesFacts ==
    ASSUME CartTypeOK, NEW p \in Products
    PROVE  /\ LinesOf(p) \subseteq DOMAIN lines
           /\ LinesOf(p) # {} => <<p, 1>> \in LinesOf(p)
           /\ <<p, Cardinality(LinesOf(p)) + 1>> \notin DOMAIN lines
           /\ Cardinality(LinesOf(p)) \in Nat
<1>1. LinesOf(p) \subseteq DOMAIN lines  BY DEF LinesOf
<1>2. Cardinality(LinesOf(p)) \in Nat  BY <1>1, LineSets
<1>3. LinesOf(p) = {p} \X (1..Cardinality(LinesOf(p)))  BY DEF CartTypeOK
<1>4. ASSUME LinesOf(p) # {}  PROVE <<p, 1>> \in LinesOf(p)
  <2>1. Cardinality(LinesOf(p)) >= 1  BY <1>2, <1>3, <1>4
  <2> QED  BY <1>2, <1>3, <2>1
<1>5. <<p, Cardinality(LinesOf(p)) + 1>> \notin DOMAIN lines
  <2> SUFFICES ASSUME <<p, Cardinality(LinesOf(p)) + 1>> \in DOMAIN lines  PROVE FALSE
    OBVIOUS
  <2>1. <<p, Cardinality(LinesOf(p)) + 1>> \in LinesOf(p)  BY DEF LinesOf
  <2>2. Cardinality(LinesOf(p)) + 1 \in 1..Cardinality(LinesOf(p))  BY <1>3, <2>1
  <2> QED  BY <1>2, <2>2
<1> QED  BY <1>1, <1>2, <1>4, <1>5

-----------------------------------------------------------------------------
(* What the three kinds of writes do to the items.                         *)
ItemsOK(ls) ==
    /\ DOMAIN ls \subseteq Products \X (Nat \ {0})
    /\ IsFiniteSet(DOMAIN ls)
    /\ \A k \in DOMAIN ls : ls[k] \in Quantities
    /\ \A p \in Products :
          {k \in DOMAIN ls : k[1] = p}
              = {p} \X (1..Cardinality({k \in DOMAIN ls : k[1] = p}))

LEMMA ItemsInType == CartTypeOK => ItemsOK(lines)
BY DEF CartTypeOK, ItemsOK, LinesOf

LEMMA SetFirstItems ==
    ASSUME CartTypeOK, NEW p \in Products, LinesOf(p) # {}, NEW q \in Quantities, SetFirst(p, q)
    PROVE  /\ ItemsOK(lines')
           /\ DOMAIN lines' = DOMAIN lines
           /\ \A r \in Products : LinesOf(r)' = LinesOf(r)
           /\ lines'[<<p, 1>>] = q
           /\ \A k \in DOMAIN lines : k # <<p, 1>> => lines'[k] = lines[k]
<1>1. <<p, 1>> \in DOMAIN lines  BY LinesFacts
<1>2. DOMAIN lines' = DOMAIN lines /\ lines'[<<p, 1>>] = q
      /\ \A k \in DOMAIN lines : k # <<p, 1>> => lines'[k] = lines[k]
  BY <1>1 DEF SetFirst
<1>3. \A r \in Products : LinesOf(r)' = LinesOf(r)  BY <1>2 DEF LinesOf
<1> QED  BY <1>2, <1>3, ItemsInType DEF ItemsOK

LEMMA PushItems ==
    ASSUME CartTypeOK, NEW p \in Products, NEW q \in Quantities, Push(p, q)
    PROVE  /\ ItemsOK(lines')
           /\ Cardinality(DOMAIN lines') = Cardinality(DOMAIN lines) + 1
           /\ Cardinality(LinesOf(p)') = Cardinality(LinesOf(p)) + 1
           /\ LinesOf(p) = {} => LinesOf(p)' = {<<p, 1>>} /\ lines'[<<p, 1>>] = q
           /\ \A r \in Products : r # p => LinesOf(r)' = LinesOf(r)
           /\ \A k \in DOMAIN lines : k \in DOMAIN lines' /\ lines'[k] = lines[k]
<1> DEFINE n == Cardinality(LinesOf(p))
           last == <<p, n + 1>>
<1>0. n \in Nat /\ last \notin DOMAIN lines  BY LinesFacts
<1>1. n \in Nat /\ last \notin DOMAIN lines /\ last \in Products \X (Nat \ {0})
  <2>1. n + 1 \in Nat \ {0}  BY <1>0
  <2> QED  BY <1>0, <2>1
<1>2. /\ DOMAIN lines' = DOMAIN lines \union {last} /\ lines'[last] = q
      /\ \A k \in DOMAIN lines : lines'[k] = lines[k]
  BY <1>1 DEF Push
<1>3. Cardinality(DOMAIN lines') = Cardinality(DOMAIN lines) + 1 /\ IsFiniteSet(DOMAIN lines')
  BY <1>1, <1>2, FS_AddElement DEF CartTypeOK
<1>4. LinesOf(p)' = LinesOf(p) \union {last}
  BY <1>2 DEF LinesOf
<1>5. \A r \in Products : r # p => LinesOf(r)' = LinesOf(r)
  BY <1>2 DEF LinesOf
<1>6. Cardinality(LinesOf(p)') = n + 1
  <2>1. IsFiniteSet(LinesOf(p)) /\ last \notin LinesOf(p)  BY <1>1, LinesFacts, LineSets
  <2> QED  BY <1>4, <2>1, FS_AddElement
<1>7. LinesOf(p)' = {p} \X (1..(n + 1))
  <2>1. LinesOf(p) = {p} \X (1..n)  BY DEF CartTypeOK
  <2>2. 1..(n + 1) = (1..n) \union {n + 1}  BY <1>1
  <2> QED  BY <1>4, <2>1, <2>2
<1>8. ASSUME LinesOf(p) = {}  PROVE LinesOf(p)' = {<<p, 1>>} /\ lines'[<<p, 1>>] = q
  <2>1. n = 0  BY <1>8, FS_EmptySet
  <2> QED  BY <1>2, <1>4, <1>8, <2>1
<1>9. ItemsOK(lines')
  <2>1. \A k \in DOMAIN lines' : lines'[k] \in Quantities  BY <1>2 DEF CartTypeOK
  <2>2. \A r \in Products : LinesOf(r)' = {r} \X (1..Cardinality(LinesOf(r)'))
    BY <1>5, <1>6, <1>7 DEF CartTypeOK
  <2>3. DOMAIN lines' \subseteq Products \X (Nat \ {0})  BY <1>1, <1>2 DEF CartTypeOK
  <2> QED  BY <1>3, <2>1, <2>2, <2>3 DEF ItemsOK, LinesOf
<1> QED  BY <1>2, <1>3, <1>5, <1>6, <1>8, <1>9

(* Products ps lose all their lines.                                       *)
LEMMA KeepItems ==
    ASSUME CartTypeOK, NEW ps \in SUBSET Products,
           Keep({k \in DOMAIN lines : k[1] \notin ps})
    PROVE  /\ ItemsOK(lines')
           /\ DOMAIN lines' \subseteq DOMAIN lines
           /\ \A p \in ps : LinesOf(p)' = {}
           /\ \A p \in Products \ ps : LinesOf(p)' = LinesOf(p)
           /\ \A k \in DOMAIN lines' : lines'[k] = lines[k]
<1>1. /\ DOMAIN lines' = {k \in DOMAIN lines : k[1] \notin ps}
      /\ \A k \in DOMAIN lines' : lines'[k] = lines[k]
  BY DEF Keep
<1>2. \A p \in ps : LinesOf(p)' = {}  BY <1>1 DEF LinesOf
<1>3. \A p \in Products \ ps : LinesOf(p)' = LinesOf(p)  BY <1>1 DEF LinesOf
<1>4. IsFiniteSet(DOMAIN lines')  BY <1>1, FS_Subset DEF CartTypeOK
<1>5. \A r \in Products : LinesOf(r)' = {r} \X (1..Cardinality(LinesOf(r)'))
  <2> SUFFICES ASSUME NEW r \in Products
               PROVE  LinesOf(r)' = {r} \X (1..Cardinality(LinesOf(r)'))
    OBVIOUS
  <2>1. CASE r \in ps
    <3>1. LinesOf(r)' = {} /\ Cardinality({}) = 0  BY <1>2, <2>1, FS_EmptySet
    <3> QED  BY <3>1
  <2>2. CASE r \notin ps  BY <1>3, <2>2 DEF CartTypeOK
  <2> QED  BY <2>1, <2>2
<1> QED  BY <1>1, <1>2, <1>3, <1>4, <1>5 DEF ItemsOK, LinesOf, CartTypeOK

-----------------------------------------------------------------------------
(* History keeps its types, whatever happens.                              *)
LEMMA HistoryType ==
    ASSUME NEW w \in [Products -> 0..MaxQty], NEW e \in SUBSET Products, History(w, e)
    PROVE  /\ wanted' \in [Products -> 0..MaxQty] /\ exact' \in SUBSET Products
           /\ exact' = e
           /\ \A p \in e : wanted'[p] = w[p]
BY CartAssumption DEF History

LEMMA CallFacts ==
    ASSUME CartTypeOK, NEW c \in Calls
    PROVE  /\ call[c] \in CallDocs /\ call[c].product \in Products
           /\ call[c].ask \in Nat \ {0} /\ call[c].qty \in Quantities
           /\ wanted[call[c].product] \in Nat
           /\ Capped(wanted[call[c].product] + call[c].ask) \in Quantities
<1>1. /\ call[c] \in CallDocs /\ call[c].product \in Products
      /\ call[c].ask \in Nat \ {0} /\ call[c].qty \in Quantities
  BY DEF CartTypeOK, CallDocs, Quantities
<1>2. wanted[call[c].product] \in Nat  BY <1>1 DEF CartTypeOK
<1>3. wanted[call[c].product] + call[c].ask \in Nat \ {0}
  <2>1. \A m \in Nat : \A n \in Nat \ {0} : m + n \in Nat \ {0}  OBVIOUS
  <2> QED  BY <1>1, <1>2, <2>1
<1> QED  BY <1>1, <1>2, <1>3, CappedType

(* A request that ends, or goes on to its next step.                       *)
LEMMA DoneType ==
    ASSUME CartTypeOK, NEW c \in Calls, Done(c)
    PROVE  /\ call' \in [Calls -> CallDocs]
           /\ call'[c].step = "idle"
           /\ \A d \in Calls : d # c => call'[d] = call[d]
BY IdleType DEF Done, CartTypeOK

LEMMA StepType ==
    ASSUME CartTypeOK, NEW c \in Calls, NEW s \in {"pushing", "creating"},
           call' = [call EXCEPT ![c].step = s]
    PROVE  /\ call' \in [Calls -> CallDocs]
           /\ call'[c].step = s /\ call'[c].product = call[c].product
           /\ call'[c].ask = call[c].ask /\ call'[c].qty = call[c].qty
           /\ \A d \in Calls : d # c => call'[d] = call[d]
BY DEF CartTypeOK, CallDocs

(* Fewer lines and fewer requests about to add one keep both bounds.       *)
LEMMA FadeKeepsBounds ==
    ASSUME IInv, DOMAIN lines' \subseteq DOMAIN lines,
           Pushers' \subseteq Pushers,
           \A p \in Products : Splitters(p)' \subseteq Splitters(p)
    PROVE  CapWithinRace' /\ SplitWithinRace'
<1> USE DEF IInv
<1>1. /\ IsFiniteSet(DOMAIN lines) /\ Pushers \subseteq Calls
      /\ \A p \in Products : Splitters(p) \subseteq Calls /\ IsFiniteSet(LinesOf(p))
  BY LinesFacts, LineSets DEF CartTypeOK, Pushers, Splitters, AddersOf
<1>2. CapWithinRace'
  <2>1. /\ Cardinality(DOMAIN lines') <= Cardinality(DOMAIN lines)
        /\ Cardinality(DOMAIN lines) \in Nat /\ Cardinality(DOMAIN lines') \in Nat
    BY <1>1, FS_Subset, FS_CardinalityType
  <2>2. /\ Cardinality(Pushers') <= Cardinality(Pushers)
        /\ Cardinality(Pushers) \in Nat /\ Cardinality(Pushers') \in Nat
    BY <1>1, CallSets, FS_Subset, FS_CardinalityType
  <2> QED  BY <2>1, <2>2, CallSets, CartAssumption DEF CapWithinRace
<1>3. ASSUME NEW p \in Products
      PROVE  Cardinality(LinesOf(p)') + Cardinality(Splitters(p)') <= Cardinality(Calls)
  <2>0. LinesOf(p)' \subseteq LinesOf(p)  BY DEF LinesOf
  <2>1. /\ Cardinality(LinesOf(p)') <= Cardinality(LinesOf(p))
        /\ Cardinality(LinesOf(p)) \in Nat /\ Cardinality(LinesOf(p)') \in Nat
    BY <1>1, <2>0, FS_Subset, FS_CardinalityType
  <2>2. /\ Cardinality(Splitters(p)') <= Cardinality(Splitters(p))
        /\ Cardinality(Splitters(p)) \in Nat /\ Cardinality(Splitters(p)') \in Nat
    BY <1>1, CallSets, FS_Subset, FS_CardinalityType
  <2>3. Cardinality(LinesOf(p)) + Cardinality(Splitters(p)) <= Cardinality(Calls)
    BY DEF SplitWithinRace
  <2>4. Cardinality(Calls) \in Nat  BY <1>1, CallSets
  <2> QED  BY <2>1, <2>2, <2>3, <2>4
<1> QED  BY <1>2, <1>3 DEF SplitWithinRace

LEMMA TypeFromItems ==
    ASSUME ItemsOK(lines'), exists' \in BOOLEAN, DOMAIN lines' # {} => exists',
           call' \in [Calls -> CallDocs],
           wanted' \in [Products -> 0..MaxQty], exact' \in SUBSET Products
    PROVE  CartTypeOK'
BY DEF ItemsOK, CartTypeOK, LinesOf

(* A request that is over leaves the others' products as they are.         *)
LEMMA AddersFade ==
    ASSUME CartTypeOK, NEW c \in Calls, Done(c)
    PROVE  /\ \A p \in Products : /\ AddersOf(p)' = AddersOf(p) \ {c}
                                  /\ Splitters(p)' = Splitters(p) \ {c}
           /\ Pushers' = Pushers \ {c}
BY DoneType DEF AddersOf, Splitters, Pushers

-----------------------------------------------------------------------------
LEMMA CartStep ==
    ASSUME IInv, [CartNext]_vars
    PROVE  IInv'
<1> USE DEF IInv
(* A request is abandoned, or finds no line to merge with.                 *)
<1>1. ASSUME NEW c \in Calls, Done(c), UNCHANGED <<exists, lines, wanted, exact>>
      PROVE  IInv'
  <2>1. Done(c) /\ UNCHANGED <<exists, lines, wanted, exact>>  BY <1>1
  <2>2. CartTypeOK'  BY <2>1, DoneType DEF CartTypeOK, LinesOf
  <2>3. CapWithinRace' /\ SplitWithinRace'  BY <2>1, AddersFade, FadeKeepsBounds
  <2>4. ExactUnlessRaced'  BY <2>1 DEF ExactUnlessRaced, LinesOf
  <2>5. AloneInv'
    <3> SUFFICES ASSUME NEW p \in exact, NEW d \in AddersOf(p)'
                 PROVE  /\ AddersOf(p)' = {d}
                        /\ IF call'[d].step = "merging"
                           THEN LinesOf(p) = {} \/ call'[d].qty = Capped(wanted[p] + call'[d].ask)
                           ELSE LinesOf(p) = {} /\ call'[d].qty = Capped(call'[d].ask)
      BY <2>1 DEF AloneInv, LinesOf
    <3>1. p \in Products  BY DEF CartTypeOK
    <3>2. d \in AddersOf(p) /\ d # c /\ d \in Calls
      BY <2>1, <3>1, AddersFade DEF AddersOf
    <3>3. call'[d] = call[d]  BY <2>1, <3>2, DoneType
    <3> QED  BY <2>1, <3>1, <3>2, <3>3, AddersFade DEF AloneInv
  <2> QED  BY <2>2, <2>3, <2>4, <2>5
<1>2. CASE UNCHANGED vars
  BY <1>2 DEF vars, CartTypeOK, CapWithinRace, SplitWithinRace, ExactUnlessRaced, AloneInv,
              LinesOf, AddersOf, Pushers, Splitters
<1>3. CASE GetLiveCart
  BY <1>3 DEF GetLiveCart, CartTypeOK, CapWithinRace, SplitWithinRace, ExactUnlessRaced,
              AloneInv, LinesOf, AddersOf, Pushers, Splitters
(* A request starts: it alone on its product knows its quantity.           *)
<1>4. ASSUME NEW c \in Calls, NEW p \in Products, NEW ask \in Quantities, AddFind(c, p, ask)
      PROVE  IInv'
  <2>0. /\ UNCHANGED <<exists, lines>> /\ call[c].step = "idle"
        /\ History(wanted, IF AddersOf(p) = {} THEN exact ELSE exact \ {p})
    BY <1>4 DEF AddFind
  <2>1. /\ call'[c].product = p /\ call'[c].ask = ask /\ call'[c] \in CallDocs
        /\ IF LinesOf(p) # {}
           THEN call'[c].step = "merging" /\ call'[c].qty = Capped(lines[<<p, 1>>] + ask)
           ELSE call'[c].step = "absent" /\ call'[c].qty = Capped(ask)
        /\ \A d \in Calls : d # c => call'[d] = call[d]
        /\ call' \in [Calls -> CallDocs]
    <3>1. Capped(ask) \in Quantities  BY CappedType DEF Quantities
    <3>2. ASSUME LinesOf(p) # {}  PROVE Capped(lines[<<p, 1>>] + ask) \in Quantities
      <4>1. lines[<<p, 1>>] \in Quantities  BY <3>2, LinesFacts DEF CartTypeOK
      <4>2. \A m, n \in Quantities : m + n \in Nat \ {0}  BY DEF Quantities
      <4> QED  BY <4>1, <4>2, CappedType
    <3>3. CASE LinesOf(p) # {}
      <4>1. call' = [call EXCEPT ![c] = [step |-> "merging", product |-> p, ask |-> ask,
                                         qty |-> Capped(lines[<<p, 1>>] + ask)]]
        BY <1>4, <3>3 DEF AddFind
      <4> QED  BY <3>2, <3>3, <4>1 DEF CartTypeOK, CallDocs
    <3>4. CASE LinesOf(p) = {}
      <4>1. call' = [call EXCEPT ![c] = [step |-> "absent", product |-> p, ask |-> ask,
                                         qty |-> Capped(ask)]]
        BY <1>4, <3>4 DEF AddFind
      <4> QED  BY <3>1, <3>4, <4>1 DEF CartTypeOK, CallDocs
    <3> QED  BY <3>3, <3>4
  <2>2. /\ wanted' \in [Products -> 0..MaxQty] /\ exact' \subseteq exact
        /\ p \in exact' => AddersOf(p) = {}
        /\ \A q \in exact' : wanted'[q] = wanted[q]
    <3> DEFINE e == IF AddersOf(p) = {} THEN exact ELSE exact \ {p}
    <3>1. e \in SUBSET Products /\ wanted \in [Products -> 0..MaxQty]  BY DEF CartTypeOK
    <3>2. History(wanted, e)  BY <2>0
    <3> HIDE DEF e
    <3>3. exact' = e /\ wanted' \in [Products -> 0..MaxQty] /\ \A q \in e : wanted'[q] = wanted[q]
      BY <3>1, <3>2, HistoryType
    <3> USE DEF e
    <3> QED  BY <3>3
  <2>3. CartTypeOK'
    BY <2>0, <2>1, <2>2, ItemsInType, TypeFromItems DEF CartTypeOK
  <2>4. /\ \A q \in Products : /\ LinesOf(q)' = LinesOf(q)
                               /\ q # p => AddersOf(q)' = AddersOf(q)
        /\ AddersOf(p)' = AddersOf(p) \union {c}
        /\ c \notin AddersOf(p) /\ Pushers' = Pushers
    BY <2>0, <2>1 DEF LinesOf, AddersOf, Pushers
  <2>5. CapWithinRace'  BY <2>0, <2>4 DEF CapWithinRace
  <2>6. SplitWithinRace'
    <3> SUFFICES ASSUME NEW q \in Products
                 PROVE  Cardinality(LinesOf(q)) + Cardinality(Splitters(q)') <= Cardinality(Calls)
      BY <2>4 DEF SplitWithinRace
    <3>1. CASE LinesOf(q) # {} \/ q # p
      <4>1. Splitters(q)' = Splitters(q)
        BY <2>0, <2>1, <2>4, <3>1 DEF Splitters, AddersOf
      <4> QED  BY <4>1 DEF SplitWithinRace
    <3>2. CASE LinesOf(q) = {}
      <4>1. Cardinality(LinesOf(q)) = 0  BY <3>2, FS_EmptySet
      <4>2. Splitters(q)' \subseteq Calls  BY DEF Splitters, AddersOf
      <4> QED  BY <4>1, <4>2, CallSets
    <3> QED  BY <3>1, <3>2
  <2>7. ExactUnlessRaced'
    BY <2>0, <2>2, <2>4 DEF ExactUnlessRaced, CartTypeOK
  <2>8. AloneInv'
    <3> SUFFICES ASSUME NEW q \in exact', NEW d \in AddersOf(q)'
                 PROVE  /\ AddersOf(q)' = {d}
                        /\ IF call'[d].step = "merging"
                           THEN LinesOf(q) = {} \/ call'[d].qty = Capped(wanted[q] + call'[d].ask)
                           ELSE LinesOf(q) = {} /\ call'[d].qty = Capped(call'[d].ask)
      BY <2>0, <2>2, <2>4 DEF AloneInv, CartTypeOK
    <3>0. q \in exact /\ q \in Products  BY <2>2 DEF CartTypeOK
    <3>1. CASE q = p
      <4>1. d = c /\ AddersOf(q)' = {c}  BY <2>2, <2>4, <3>1
      <4>2. ASSUME LinesOf(q) # {}  PROVE lines[<<q, 1>>] = wanted[q]
        BY <3>0, <4>2 DEF ExactUnlessRaced
      <4> QED  BY <2>1, <3>1, <4>1, <4>2
    <3>2. CASE q # p
      <4>1. d \in AddersOf(q) /\ d # c /\ d \in Calls
        BY <2>0, <2>4, <3>0, <3>2 DEF AddersOf
      <4> QED  BY <2>1, <2>4, <3>0, <3>2, <4>1 DEF AloneInv
    <3> QED  BY <3>1, <3>2
  <2> QED  BY <2>3, <2>5, <2>6, <2>7, <2>8
(* The cap is checked: at most all other requests are past it.             *)
<1>5. ASSUME NEW c \in Calls, AddLookup(c) \/ AddCreateCart(c)  PROVE IInv'
  <2>0. /\ UNCHANGED <<lines, wanted, exact>> /\ call[c].step \in {"absent", "creating"}
        /\ exists' \in BOOLEAN /\ (exists => exists')
        /\ \/ Done(c)
           \/ \E s \in {"pushing", "creating"} : call' = [call EXCEPT ![c].step = s]
    BY <1>5 DEF AddLookup, AddCreateCart, CartTypeOK
  <2>1. /\ call' \in [Calls -> CallDocs]
        /\ \A d \in Calls : d # c => call'[d] = call[d]
        /\ \/ call'[c].step = "idle"
           \/ /\ call'[c].step \in {"pushing", "creating"}
              /\ call'[c].product = call[c].product
              /\ call'[c].ask = call[c].ask /\ call'[c].qty = call[c].qty
    BY <2>0, DoneType, StepType
  <2>2. CartTypeOK'
    BY <2>0, <2>1, ItemsInType, TypeFromItems DEF CartTypeOK
  <2>3. \A p \in Products : /\ LinesOf(p)' = LinesOf(p)
                            /\ AddersOf(p)' \subseteq AddersOf(p)
                            /\ Splitters(p)' \subseteq Splitters(p)
    BY <2>0, <2>1 DEF LinesOf, AddersOf, Splitters
  <2>4. CapWithinRace' /\ SplitWithinRace'
    <3>1. CASE call'[c].step # "pushing"
      <4>1. Pushers' \subseteq Pushers  BY <2>1, <3>1 DEF Pushers
      <4> QED  BY <2>0, <2>3, <4>1, FadeKeepsBounds
    <3>2. CASE call'[c].step = "pushing"
      <4>1. c \notin Pushers /\ Pushers \subseteq Calls /\ Pushers' = Pushers \union {c}
        BY <2>0, <2>1, <3>2 DEF Pushers
      <4>2. IsFiniteSet(Pushers) /\ Cardinality(Pushers) \in Nat
            /\ Cardinality(Pushers) <= Cardinality(Calls) - 1 /\ Cardinality(Calls) \in Nat
        BY <4>1, CallSets
      <4>3. Cardinality(Pushers') = Cardinality(Pushers) + 1  BY <4>1, <4>2, FS_AddElement
      <4>4. Cardinality(DOMAIN lines) \in Nat /\ Cardinality(DOMAIN lines) <= MaxItems - 1
        <5>1. Cardinality(DOMAIN lines) \in Nat  BY LineSets
        <5>2. CASE exists /\ ~(Cardinality(DOMAIN lines) >= MaxItems)
          BY <5>1, <5>2, CartAssumption
        <5>3. CASE ~exists
          <6>1. Cardinality(DOMAIN lines) = 0  BY <5>3, FS_EmptySet DEF CartTypeOK
          <6> QED  BY <6>1, CartAssumption
        <5>4. exists => ~(Cardinality(DOMAIN lines) >= MaxItems)
          <6> SUFFICES ASSUME exists  PROVE ~(Cardinality(DOMAIN lines) >= MaxItems)  OBVIOUS
          <6>1. ~Done(c)  BY <3>2, DoneType
          <6> QED  BY <1>5, <6>1 DEF AddLookup, AddCreateCart
        <5> QED  BY <5>2, <5>3, <5>4
      <4>5. CapWithinRace'
        BY <2>0, <4>2, <4>3, <4>4, CartAssumption DEF CapWithinRace
      <4>6. SplitWithinRace'
        <5> SUFFICES ASSUME NEW p \in Products
                     PROVE  Cardinality(LinesOf(p)) + Cardinality(Splitters(p)') <= Cardinality(Calls)
          BY <2>3 DEF SplitWithinRace
        <5>1. Splitters(p) \subseteq Calls  BY DEF Splitters, AddersOf
        <5>2. Cardinality(Splitters(p)') <= Cardinality(Splitters(p))
              /\ Cardinality(Splitters(p)) \in Nat /\ Cardinality(Splitters(p)') \in Nat
          BY <2>3, <5>1, CallSets, FS_Subset, FS_CardinalityType
        <5>3. Cardinality(LinesOf(p)) \in Nat  BY LinesFacts
        <5>4. Cardinality(LinesOf(p)) + Cardinality(Splitters(p)) <= Cardinality(Calls)
          BY DEF SplitWithinRace
        <5> QED  BY <4>2, <5>2, <5>3, <5>4
      <4> QED  BY <4>5, <4>6
    <3> QED  BY <3>1, <3>2
  <2>5. ExactUnlessRaced'  BY <2>0, <2>3 DEF ExactUnlessRaced, CartTypeOK
  <2>6. AloneInv'
    <3> SUFFICES ASSUME NEW p \in exact, NEW d \in AddersOf(p)'
                 PROVE  /\ AddersOf(p)' = {d}
                        /\ IF call'[d].step = "merging"
                           THEN LinesOf(p) = {} \/ call'[d].qty = Capped(wanted[p] + call'[d].ask)
                           ELSE LinesOf(p) = {} /\ call'[d].qty = Capped(call'[d].ask)
      BY <2>0, <2>3 DEF AloneInv, CartTypeOK
    <3>1. p \in Products /\ d \in AddersOf(p) /\ d \in Calls
      BY <2>3 DEF CartTypeOK, AddersOf
    <3>2. AddersOf(p) = {d}  BY <3>1 DEF AloneInv
    <3>3. CASE d = c
      <4>1. call'[c].step # "idle"  BY <3>3 DEF AddersOf
      <4> QED  BY <2>0, <2>1, <2>3, <3>1, <3>2, <3>3, <4>1 DEF AloneInv
    <3>4. CASE d # c  BY <2>1, <2>3, <3>1, <3>2, <3>4 DEF AloneInv
    <3> QED  BY <3>3, <3>4
  <2> QED  BY <2>2, <2>4, <2>5, <2>6
(* The sum is written: exact if nobody else worked on the product.         *)
<1>6. ASSUME NEW c \in Calls, AddMerge(c), LinesOf(call[c].product) # {}
      PROVE  IInv'
  <2>0. PICK p \in Products : p = call[c].product  BY CallFacts
  <2> DEFINE w == [wanted EXCEPT ![p] = Capped(@ + call[c].ask)]
  <2>1. /\ call[c].step = "merging" /\ LinesOf(p) # {} /\ SetFirst(p, call[c].qty)
        /\ History(w, exact) /\ Done(c) /\ UNCHANGED exists
    BY <1>6, <2>0 DEF AddMerge
  <2>2. /\ call[c].qty \in Quantities /\ Capped(wanted[p] + call[c].ask) \in Quantities
        /\ wanted \in [Products -> 0..MaxQty]
    BY <2>0, CallFacts DEF CartTypeOK
  <2>3. w \in [Products -> 0..MaxQty] /\ exact \in SUBSET Products
    BY <2>2 DEF Quantities, CartTypeOK
  <2>4. /\ wanted' \in [Products -> 0..MaxQty] /\ exact' = exact
        /\ \A q \in exact : wanted'[q] = w[q]
    <3> HIDE DEF w
    <3> QED  BY <2>1, <2>3, HistoryType
  <2>5. /\ ItemsOK(lines') /\ DOMAIN lines' = DOMAIN lines
        /\ \A r \in Products : LinesOf(r)' = LinesOf(r)
        /\ lines'[<<p, 1>>] = call[c].qty
        /\ \A k \in DOMAIN lines : k # <<p, 1>> => lines'[k] = lines[k]
    BY <2>1, <2>2, SetFirstItems
  <2>6. CartTypeOK'
    BY <2>1, <2>4, <2>5, DoneType, TypeFromItems DEF CartTypeOK
  <2>7. CapWithinRace' /\ SplitWithinRace'  BY <2>1, <2>5, AddersFade, FadeKeepsBounds
  <2>8. c \in AddersOf(p)  BY <2>0, <2>1 DEF AddersOf
  <2>9. ASSUME p \in exact
        PROVE  /\ AddersOf(p) = {c} /\ LinesOf(p) = {<<p, 1>>}
               /\ wanted'[p] = call[c].qty /\ wanted'[p] # 0
    <3>1. AddersOf(p) = {c} /\ call[c].qty = Capped(wanted[p] + call[c].ask)
      BY <2>1, <2>8, <2>9 DEF AloneInv
    <3>2. LinesOf(p) = {<<p, 1>>}  BY <2>1, <2>9 DEF ExactUnlessRaced
    <3>3. wanted'[p] = Capped(wanted[p] + call[c].ask)  BY <2>2, <2>4, <2>9
    <3> QED  BY <2>2, <3>1, <3>2, <3>3 DEF Quantities
  <2>10. \A q \in exact : q # p => wanted'[q] = wanted[q]  BY <2>2, <2>4 DEF CartTypeOK
  <2>11. ExactUnlessRaced'
    <3> SUFFICES ASSUME NEW q \in exact
                 PROVE  IF wanted'[q] = 0
                        THEN LinesOf(q)' = {}
                        ELSE LinesOf(q)' = {<<q, 1>>} /\ lines'[<<q, 1>>] = wanted'[q]
      BY <2>4 DEF ExactUnlessRaced
    <3>1. q \in Products  BY DEF CartTypeOK
    <3>2. CASE q = p  BY <2>5, <2>9, <3>1, <3>2
    <3>3. CASE q # p
      <4>1. <<q, 1>> \in LinesOf(q) => <<q, 1>> \in DOMAIN lines /\ <<q, 1>> # <<p, 1>>
        BY <3>3 DEF LinesOf
      <4> QED  BY <2>5, <2>10, <3>1, <3>3, <4>1 DEF ExactUnlessRaced
    <3> QED  BY <3>2, <3>3
  <2>12. AloneInv'
    <3> SUFFICES ASSUME NEW q \in exact, NEW d \in AddersOf(q)'
                 PROVE  /\ AddersOf(q)' = {d}
                        /\ IF call'[d].step = "merging"
                           THEN LinesOf(q)' = {} \/ call'[d].qty = Capped(wanted'[q] + call'[d].ask)
                           ELSE LinesOf(q)' = {} /\ call'[d].qty = Capped(call'[d].ask)
      BY <2>4 DEF AloneInv
    <3>1. q \in Products  BY DEF CartTypeOK
    <3>2. d \in AddersOf(q) /\ d # c /\ d \in Calls
      BY <2>1, <3>1, AddersFade DEF AddersOf
    <3>3. q # p  BY <2>9, <3>2
    <3>4. call'[d] = call[d]  BY <2>1, <3>2, DoneType
    <3> QED  BY <2>1, <2>5, <2>10, <3>1, <3>2, <3>3, <3>4, AddersFade DEF AloneInv
  <2> QED  BY <2>6, <2>7, <2>11, <2>12
(* One line more, one request fewer that is about to add one.              *)
<1>7. ASSUME NEW c \in Calls, AddPush(c)  PROVE IInv'
  <2>0. PICK p \in Products : p = call[c].product  BY CallFacts
  <2> DEFINE w == [wanted EXCEPT ![p] = Capped(@ + call[c].ask)]
  <2>1. /\ call[c].step = "pushing" /\ Push(p, call[c].qty)
        /\ History(w, exact) /\ Done(c) /\ exists' = TRUE
    BY <1>7, <2>0 DEF AddPush
  <2>2. /\ call[c].qty \in Quantities /\ Capped(wanted[p] + call[c].ask) \in Quantities
        /\ wanted \in [Products -> 0..MaxQty] /\ call[c].ask \in Nat
    BY <2>0, CallFacts DEF CartTypeOK
  <2>3. w \in [Products -> 0..MaxQty] /\ exact \in SUBSET Products
    BY <2>2 DEF Quantities, CartTypeOK
  <2>4. /\ wanted' \in [Products -> 0..MaxQty] /\ exact' = exact
        /\ \A q \in exact : wanted'[q] = w[q]
    <3> HIDE DEF w
    <3> QED  BY <2>1, <2>3, HistoryType
  <2>5. /\ ItemsOK(lines')
        /\ Cardinality(DOMAIN lines') = Cardinality(DOMAIN lines) + 1
        /\ Cardinality(LinesOf(p)') = Cardinality(LinesOf(p)) + 1
        /\ LinesOf(p) = {} => LinesOf(p)' = {<<p, 1>>} /\ lines'[<<p, 1>>] = call[c].qty
        /\ \A r \in Products : r # p => LinesOf(r)' = LinesOf(r)
        /\ \A k \in DOMAIN lines : k \in DOMAIN lines' /\ lines'[k] = lines[k]
    BY <2>1, <2>2, PushItems
  <2>6. CartTypeOK'
    <3>1. exact' \in SUBSET Products /\ exists' \in BOOLEAN  BY <2>1, <2>3, <2>4
    <3>2. call' \in [Calls -> CallDocs]  BY <2>1, DoneType
    <3> QED  BY <2>1, <2>4, <2>5, <3>1, <3>2, TypeFromItems
  <2>7. c \in AddersOf(p) /\ c \in Splitters(p) /\ c \in Pushers
    BY <2>0, <2>1 DEF AddersOf, Splitters, Pushers
  <2>8. CapWithinRace'
    <3>1. Pushers \subseteq Calls /\ Pushers' = Pushers \ {c}  BY <2>1, AddersFade DEF Pushers
    <3>2. IsFiniteSet(Pushers) /\ Cardinality(Pushers) \in Nat /\ Cardinality(Calls) \in Nat
      BY <3>1, CallSets
    <3>3. Cardinality(Pushers') = Cardinality(Pushers) - 1
      BY <2>7, <3>1, <3>2, FS_RemoveElement
    <3>4. Cardinality(DOMAIN lines) \in Nat  BY LineSets
    <3> QED  BY <2>5, <3>2, <3>3, <3>4, CartAssumption DEF CapWithinRace
  <2>9. SplitWithinRace'
    <3> SUFFICES ASSUME NEW q \in Products
                 PROVE  Cardinality(LinesOf(q)') + Cardinality(Splitters(q)') <= Cardinality(Calls)
      BY DEF SplitWithinRace
    <3>1. Splitters(q) \subseteq Calls /\ Splitters(q)' = Splitters(q) \ {c}
      BY <2>1, AddersFade DEF Splitters, AddersOf
    <3>2. IsFiniteSet(Splitters(q)) /\ Cardinality(Splitters(q)) \in Nat
          /\ Cardinality(Calls) \in Nat /\ Cardinality(LinesOf(q)) \in Nat
      BY <3>1, CallSets, LinesFacts
    <3>3. Cardinality(LinesOf(q)) + Cardinality(Splitters(q)) <= Cardinality(Calls)
      BY DEF SplitWithinRace
    <3>4. CASE q = p
      <4>1. Cardinality(Splitters(q)') = Cardinality(Splitters(q)) - 1
        BY <2>7, <3>1, <3>2, <3>4, FS_RemoveElement
      <4> QED  BY <2>5, <3>2, <3>3, <3>4, <4>1
    <3>5. CASE q # p
      <4>1. c \notin Splitters(q)  BY <2>0, <3>5 DEF Splitters, AddersOf
      <4>2. Splitters(q)' = Splitters(q)  BY <3>1, <4>1
      <4> QED  BY <2>5, <3>3, <3>5, <4>2
    <3> QED  BY <3>4, <3>5
  <2>10. \A q \in exact : q # p => wanted'[q] = wanted[q]  BY <2>2, <2>4 DEF CartTypeOK
  <2>11. ASSUME p \in exact
         PROVE  /\ AddersOf(p) = {c} /\ LinesOf(p) = {}
                /\ wanted'[p] = call[c].qty /\ wanted'[p] # 0
    <3>1. AddersOf(p) = {c} /\ LinesOf(p) = {} /\ call[c].qty = Capped(call[c].ask)
      BY <2>1, <2>7, <2>11 DEF AloneInv
    <3>2. wanted[p] = 0  BY <2>11, <3>1 DEF ExactUnlessRaced
    <3>3. wanted'[p] = Capped(0 + call[c].ask)  BY <2>2, <2>4, <2>11, <3>2
    <3>4. 0 + call[c].ask = call[c].ask  BY <2>2
    <3> QED  BY <2>2, <3>1, <3>3, <3>4 DEF Quantities
  <2>12. ExactUnlessRaced'
    <3> SUFFICES ASSUME NEW q \in exact
                 PROVE  IF wanted'[q] = 0
                        THEN LinesOf(q)' = {}
                        ELSE LinesOf(q)' = {<<q, 1>>} /\ lines'[<<q, 1>>] = wanted'[q]
      BY <2>4 DEF ExactUnlessRaced
    <3>1. q \in Products  BY DEF CartTypeOK
    <3>2. CASE q = p  BY <2>5, <2>11, <3>1, <3>2
    <3>3. CASE q # p
      <4>1. <<q, 1>> \in LinesOf(q) => <<q, 1>> \in DOMAIN lines
        BY DEF LinesOf
      <4> QED  BY <2>5, <2>10, <3>1, <3>3, <4>1 DEF ExactUnlessRaced
    <3> QED  BY <3>2, <3>3
  <2>13. AloneInv'
    <3> SUFFICES ASSUME NEW q \in exact, NEW d \in AddersOf(q)'
                 PROVE  /\ AddersOf(q)' = {d}
                        /\ IF call'[d].step = "merging"
                           THEN LinesOf(q)' = {} \/ call'[d].qty = Capped(wanted'[q] + call'[d].ask)
                           ELSE LinesOf(q)' = {} /\ call'[d].qty = Capped(call'[d].ask)
      BY <2>4 DEF AloneInv
    <3>1. q \in Products  BY DEF CartTypeOK
    <3>2. d \in AddersOf(q) /\ d # c /\ d \in Calls
      BY <2>1, <3>1, AddersFade DEF AddersOf
    <3>3. q # p  BY <2>11, <3>2
    <3>4. call'[d] = call[d]  BY <2>1, <3>2, DoneType
    <3> QED  BY <2>1, <2>5, <2>10, <3>1, <3>2, <3>3, <3>4, AddersFade DEF AloneInv
  <2> QED  BY <2>6, <2>8, <2>9, <2>12, <2>13
(* The quantity is set: a request at work on the product loses certainty.  *)
<1>8. ASSUME NEW p \in Products, NEW n \in Quantities, UpdateCartItem(p, n)
      PROVE  IInv'
  <2> DEFINE w == [wanted EXCEPT ![p] = n]
             e == IF AddersOf(p) = {} THEN exact ELSE exact \ {p}
  <2>1. LinesOf(p) # {} /\ SetFirst(p, n) /\ History(w, e) /\ UNCHANGED <<exists, call>>
    BY <1>8 DEF UpdateCartItem
  <2>2. /\ w \in [Products -> 0..MaxQty] /\ e \in SUBSET Products /\ e \subseteq exact
        /\ n # 0 /\ p \in e => AddersOf(p) = {}
    BY DEF Quantities, CartTypeOK
  <2>3. /\ wanted' \in [Products -> 0..MaxQty] /\ exact' = e
        /\ \A q \in e : wanted'[q] = w[q]
    <3> HIDE DEF w, e
    <3> QED  BY <2>1, <2>2, HistoryType
  <2>4. /\ ItemsOK(lines') /\ DOMAIN lines' = DOMAIN lines
        /\ \A r \in Products : LinesOf(r)' = LinesOf(r)
        /\ lines'[<<p, 1>>] = n
        /\ \A k \in DOMAIN lines : k # <<p, 1>> => lines'[k] = lines[k]
    BY <2>1, SetFirstItems
  <2>5. CartTypeOK'  BY <2>1, <2>2, <2>3, <2>4, TypeFromItems DEF CartTypeOK
  <2>6. /\ Pushers' = Pushers
        /\ \A q \in Products : AddersOf(q)' = AddersOf(q) /\ Splitters(q)' = Splitters(q)
    BY <2>1 DEF Pushers, AddersOf, Splitters
  <2>7. CapWithinRace' /\ SplitWithinRace'  BY <2>4, <2>6, FadeKeepsBounds
  <2>8. \A q \in e : wanted'[q] = IF q = p THEN n ELSE wanted[q]
    BY <2>2, <2>3 DEF CartTypeOK
  <2>9. ExactUnlessRaced'
    <3> SUFFICES ASSUME NEW q \in e
                 PROVE  IF wanted'[q] = 0
                        THEN LinesOf(q)' = {}
                        ELSE LinesOf(q)' = {<<q, 1>>} /\ lines'[<<q, 1>>] = wanted'[q]
      BY <2>3 DEF ExactUnlessRaced
    <3>1. q \in Products /\ q \in exact  BY <2>2
    <3>2. CASE q = p
      <4>1. LinesOf(p) = {<<p, 1>>}  BY <2>1, <3>1, <3>2 DEF ExactUnlessRaced
      <4>2. LinesOf(p)' = {<<p, 1>>} /\ wanted'[p] = n  BY <2>4, <2>8, <3>2, <4>1
      <4>3. n # 0  BY DEF Quantities
      <4> QED  BY <2>4, <3>2, <4>2, <4>3
    <3>3. CASE q # p
      <4>1. <<q, 1>> \in LinesOf(q) => <<q, 1>> \in DOMAIN lines /\ <<q, 1>> # <<p, 1>>
        BY <3>3 DEF LinesOf
      <4> QED  BY <2>4, <2>8, <3>1, <3>3, <4>1 DEF ExactUnlessRaced
    <3> QED  BY <3>2, <3>3
  <2>10. AloneInv'
    <3> SUFFICES ASSUME NEW q \in e, NEW d \in AddersOf(q)'
                 PROVE  /\ AddersOf(q)' = {d}
                        /\ IF call'[d].step = "merging"
                           THEN LinesOf(q)' = {} \/ call'[d].qty = Capped(wanted'[q] + call'[d].ask)
                           ELSE LinesOf(q)' = {} /\ call'[d].qty = Capped(call'[d].ask)
      BY <2>3 DEF AloneInv
    <3>1. q \in Products /\ q \in exact /\ d \in AddersOf(q)  BY <2>2, <2>6
    <3>2. q # p  BY <2>2, <3>1
    <3> QED  BY <2>1, <2>4, <2>6, <2>8, <3>1, <3>2 DEF AloneInv
  <2> QED  BY <2>5, <2>7, <2>9, <2>10
(* Products are taken out: their quantity is certain again, unless a       *)
(* request is still at work on them.                                       *)
<1>9. ASSUME NEW ps \in SUBSET Products, Keep({k \in DOMAIN lines : k[1] \notin ps}),
             Emptied(ps), UNCHANGED call, exists' \in BOOLEAN,
             exists \/ DOMAIN lines = {}, exists => exists' \/ ps = Products
      PROVE  IInv'
  <2> DEFINE w == [p \in Products |-> IF p \in ps THEN 0 ELSE wanted[p]]
             e == exact \union {p \in ps : AddersOf(p) = {}}
  <2>1. History(w, e)  BY <1>9 DEF Emptied
  <2>2. w \in [Products -> 0..MaxQty] /\ e \in SUBSET Products
    BY CartAssumption DEF CartTypeOK
  <2>3. /\ wanted' \in [Products -> 0..MaxQty] /\ exact' = e
        /\ \A q \in e : wanted'[q] = w[q]
    <3> HIDE DEF w, e
    <3> QED  BY <2>1, <2>2, HistoryType
  <2>4. /\ ItemsOK(lines') /\ DOMAIN lines' \subseteq DOMAIN lines
        /\ \A p \in ps : LinesOf(p)' = {}
        /\ \A p \in Products \ ps : LinesOf(p)' = LinesOf(p)
        /\ \A k \in DOMAIN lines' : lines'[k] = lines[k]
    BY <1>9, KeepItems
  <2>5. CartTypeOK'
    <3>1. DOMAIN lines' # {} => exists'
      <4> SUFFICES ASSUME NEW k \in DOMAIN lines', ~exists'  PROVE FALSE  OBVIOUS
      <4>1. ps = Products /\ k[1] \in Products  BY <1>9, <2>4 DEF CartTypeOK
      <4>2. k \in LinesOf(k[1])'  BY DEF LinesOf
      <4> QED  BY <2>4, <4>1, <4>2
    <3> QED  BY <1>9, <2>2, <2>3, <2>4, <3>1, TypeFromItems DEF CartTypeOK
  <2>6. /\ Pushers' = Pushers
        /\ \A q \in Products : AddersOf(q)' = AddersOf(q) /\ Splitters(q)' = Splitters(q)
    BY <1>9 DEF Pushers, AddersOf, Splitters
  <2>7. CapWithinRace' /\ SplitWithinRace'  BY <2>4, <2>6, FadeKeepsBounds
  <2>8. ExactUnlessRaced'
    <3> SUFFICES ASSUME NEW q \in e
                 PROVE  IF wanted'[q] = 0
                        THEN LinesOf(q)' = {}
                        ELSE LinesOf(q)' = {<<q, 1>>} /\ lines'[<<q, 1>>] = wanted'[q]
      BY <2>3 DEF ExactUnlessRaced
    <3>1. q \in Products /\ wanted'[q] = w[q]  BY <2>2, <2>3
    <3>2. CASE q \in ps  BY <2>4, <3>1, <3>2
    <3>3. CASE q \notin ps
      <4>1. q \in exact /\ wanted'[q] = wanted[q] /\ LinesOf(q)' = LinesOf(q)
        BY <2>4, <3>1, <3>3
      <4>2. <<q, 1>> \in LinesOf(q)' => <<q, 1>> \in DOMAIN lines'  BY DEF LinesOf
      <4> QED  BY <2>4, <4>1, <4>2 DEF ExactUnlessRaced
    <3> QED  BY <3>2, <3>3
  <2>9. AloneInv'
    <3> SUFFICES ASSUME NEW q \in e, NEW d \in AddersOf(q)'
                 PROVE  /\ AddersOf(q)' = {d}
                        /\ IF call'[d].step = "merging"
                           THEN LinesOf(q)' = {} \/ call'[d].qty = Capped(wanted'[q] + call'[d].ask)
                           ELSE LinesOf(q)' = {} /\ call'[d].qty = Capped(call'[d].ask)
      BY <2>3 DEF AloneInv
    <3>1. q \in Products /\ d \in AddersOf(q) /\ wanted'[q] = w[q]  BY <2>2, <2>3, <2>6
    <3>2. q \in exact  BY <3>1
    <3>3. CASE q \in ps  BY <1>9, <2>4, <2>6, <3>1, <3>2, <3>3 DEF AloneInv
    <3>4. CASE q \notin ps
      <4>1. wanted'[q] = wanted[q]  BY <3>1, <3>4
      <4> QED  BY <1>9, <2>4, <2>6, <3>1, <3>2, <3>4, <4>1 DEF AloneInv
    <3> QED  BY <3>3, <3>4
  <2> QED  BY <2>5, <2>7, <2>8, <2>9
<1>10. ASSUME NEW p \in Products, RemoveCartItem(p)  PROVE IInv'
  <2>1. DOMAIN lines \ LinesOf(p) = {k \in DOMAIN lines : k[1] \notin {p}}  BY DEF LinesOf
  <2>2. exists \in BOOLEAN /\ (exists \/ DOMAIN lines = {})  BY DEF CartTypeOK
  <2> QED  BY <1>9, <1>10, <2>1, <2>2 DEF RemoveCartItem
<1>11. ASSUME ClearCart \/ CartExpires  PROVE IInv'
  <2>1. {} = {k \in DOMAIN lines : k[1] \notin Products}  BY DEF CartTypeOK
  <2> QED  BY <1>9, <1>11, <2>1 DEF ClearCart, CartExpires
<1>12. ASSUME NEW c \in Calls, AddMerge(c)  PROVE IInv'
  <2>1. CASE LinesOf(call[c].product) # {}  BY <1>6, <1>12, <2>1
  <2>2. CASE LinesOf(call[c].product) = {}  BY <1>1, <1>12, <2>2 DEF AddMerge
  <2> QED  BY <2>1, <2>2
<1>13. ASSUME NEW c \in Calls, Abandon(c)  PROVE IInv'  BY <1>1, <1>13 DEF Abandon
<1> QED
  BY <1>2, <1>3, <1>4, <1>5, <1>7, <1>8, <1>10, <1>11, <1>12, <1>13 DEF CartNext

LEMMA CartInvariant == CartSpec => []IInv
<1>1. CartInit => IInv
  <2> SUFFICES ASSUME CartInit  PROVE IInv  OBVIOUS
  <2>1. /\ exists = FALSE /\ DOMAIN lines = {} /\ call = [c \in Calls |-> Idle]
        /\ wanted = [p \in Products |-> 0] /\ exact = Products
    BY DEF CartInit
  <2>2. /\ \A p \in Products : LinesOf(p) = {} /\ AddersOf(p) = {} /\ Splitters(p) = {}
        /\ Pushers = {}
    BY <2>1, IdleType DEF LinesOf, AddersOf, Splitters, Pushers
  <2>3. IsFiniteSet({}) /\ Cardinality({}) = 0  BY FS_EmptySet
  <2>4. CartTypeOK
    <3>1. call \in [Calls -> CallDocs] /\ wanted \in [Products -> 0..MaxQty]
      BY <2>1, IdleType, CartAssumption
    <3>2. \A p \in Products : LinesOf(p) = {p} \X (1..Cardinality(LinesOf(p)))
      <4> SUFFICES ASSUME NEW p \in Products
                   PROVE  LinesOf(p) = {p} \X (1..Cardinality(LinesOf(p)))
        OBVIOUS
      <4>1. Cardinality(LinesOf(p)) = 0  BY <2>2, <2>3
      <4>2. 1..0 = {}  OBVIOUS
      <4> QED  BY <2>2, <4>1, <4>2
    <3> QED  BY <2>1, <2>3, <3>1, <3>2 DEF CartTypeOK
  <2>5. Cardinality(Calls) \in Nat /\ Cardinality(Calls) # 0
    BY CartAssumption, FS_EmptySet, FS_CardinalityType
  <2>6. CapWithinRace  BY <2>1, <2>2, <2>3, <2>5, CartAssumption DEF CapWithinRace
  <2>7. SplitWithinRace  BY <2>2, <2>3, <2>5 DEF SplitWithinRace
  <2> QED  BY <2>1, <2>2, <2>4, <2>6, <2>7 DEF IInv, ExactUnlessRaced, AloneInv
<1>2. IInv /\ [CartNext]_vars => IInv'  BY CartStep
<1> QED  BY <1>1, <1>2, PTL DEF CartSpec

(* Quantities stay within the schema's limits (cart.model.ts:12-21), and   *)
(* the document keeps its shape.                                           *)
THEOREM CartTypeCorrect == CartSpec => []CartTypeOK
<1>1. IInv => CartTypeOK  BY DEF IInv
<1> QED  BY <1>1, CartInvariant, PTL

(* The item cap, for any cap and any number of overlapping requests        *)
(* (cart.repository.ts:44-53).                                             *)
THEOREM CapIsSoft == CartSpec => []CapWithinRace
<1>1. IInv => CapWithinRace  BY DEF IInv
<1> QED  BY <1>1, CartInvariant, PTL

(* Lines of one product (cart.repository.ts:28-53).                        *)
THEOREM SplitIsBounded == CartSpec => []SplitWithinRace
<1>1. IInv => SplitWithinRace  BY DEF IInv
<1> QED  BY <1>1, CartInvariant, PTL

(* Products no two requests worked on at once have exactly the quantity    *)
(* their requests ask for (cart.repository.ts:19-94).                      *)
THEOREM UnracedIsExact == CartSpec => []ExactUnlessRaced
<1>1. IInv => ExactUnlessRaced  BY DEF IInv
<1> QED  BY <1>1, CartInvariant, PTL
=============================================================================
