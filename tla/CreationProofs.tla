---------------------------- MODULE CreationProofs ----------------------------
(***************************************************************************)
(* Proofs about module Creation, for any number of requests, keys, bodies  *)
(* and slugs.                                                              *)
(*                                                                         *)
(* A key that was used by one request after another goes through three     *)
(* stages: unused, made (its product exists, the request is still at work) *)
(* and recorded.  Every request at work knows which stage its key is in.   *)
(***************************************************************************)
EXTENDS Creation, FiniteSetTheorems, TLAPS

Active == [step : Steps, key : Keys \union {NoKey}, body : Bodies,
           slug : Slugs \union {EmptySlug}]

Unanswered(k) == \A a \in answered : a.key # k
Unrecorded(k) == keyDoc[k] = NoDoc /\ Unanswered(k)
Unused(k) == Unrecorded(k) /\ MadeUnder(k) = {}
Recorded(k) ==
    /\ keyDoc[k] # NoDoc
    /\ MadeUnder(k) = {keyDoc[k].slug}
    /\ \A a \in answered :
          a.key = k => a = [key |-> k, body |-> keyDoc[k].body, slug |-> keyDoc[k].slug]

ExactInv ==
    \A k \in exact :
        /\ AtWork(k) = {} => Unused(k) \/ Recorded(k)
        /\ \A r \in AtWork(k) :
              /\ AtWork(k) = {r}
              /\ Unrecorded(k)
              /\ MadeUnder(k) = IF request[r].step \in {"looked", "naming"}
                                  THEN {} ELSE {request[r].slug}

(* What a request at work has made, whatever else happened.                *)
WorkInv ==
    \A r \in Requests :
        request[r] # Idle =>
            /\ request[r].step \in {"created", "sending"} =>
                  /\ request[r].slug \in DOMAIN product
                  /\ product[request[r].slug] = [key |-> request[r].key, body |-> request[r].body]
            /\ request[r].step = "sending" => request[r].slug \in stocked

IInv == CreationTypeOK /\ RecordedIsComplete /\ WorkInv /\ ExactInv

-----------------------------------------------------------------------------
LEMMA ActiveIsNotIdle == \A x \in Active : x # Idle
BY DEF Active, Steps, Idle

LEMMA DocIsNotNoDoc == \A x \in KeyDocs : x # NoDoc
BY DEF KeyDocs, NoDoc

LEMMA RequestFacts ==
    ASSUME CreationTypeOK, NEW r \in Requests, request[r] # Idle
    PROVE  /\ request[r] \in Active /\ request[r].step \in Steps
           /\ request[r].key \in Keys \union {NoKey} /\ request[r].body \in Bodies
           /\ request[r].slug \in Slugs \union {EmptySlug}
BY DEF CreationTypeOK, Active

(* One request moves, to x: the others are where they were.                *)
LEMMA Moves ==
    ASSUME CreationTypeOK, NEW r \in Requests, NEW x \in Active \union {Idle},
           request' = [request EXCEPT ![r] = x]
    PROVE  /\ request' \in [Requests -> Active \union {Idle}]
           /\ request'[r] = x
           /\ \A s \in Requests : s # r => request'[s] = request[s]
           /\ \A k : AtWork(k)' = (AtWork(k) \ {r})
                                     \union {s \in {r} : x # Idle /\ x.key = k}
<1>1. request \in [Requests -> Active \union {Idle}]  BY DEF CreationTypeOK, Active
<1>2. /\ request' \in [Requests -> Active \union {Idle}] /\ request'[r] = x
      /\ \A s \in Requests : s # r => request'[s] = request[s]
  BY <1>1
<1>3. ASSUME NEW k
      PROVE  AtWork(k)' = (AtWork(k) \ {r}) \union {s \in {r} : x # Idle /\ x.key = k}
  BY <1>2 DEF AtWork
<1> QED  BY <1>2, <1>3

LEMMA Ends ==
    ASSUME CreationTypeOK, NEW r \in Requests, request' = [request EXCEPT ![r] = Idle]
    PROVE  /\ request' \in [Requests -> Active \union {Idle}]
           /\ request'[r] = Idle
           /\ \A s \in Requests : s # r => request'[s] = request[s]
           /\ \A k : AtWork(k)' = AtWork(k) \ {r}
<1>1. request \in [Requests -> Active \union {Idle}]  BY DEF CreationTypeOK, Active
<1>2. /\ request' \in [Requests -> Active \union {Idle}] /\ request'[r] = Idle
      /\ \A s \in Requests : s # r => request'[s] = request[s]
  BY <1>1
<1>3. ASSUME NEW k  PROVE AtWork(k)' = AtWork(k) \ {r}  BY <1>2 DEF AtWork
<1> QED  BY <1>2, <1>3

(* A step that makes nothing and answers nothing, of a request that stays  *)
(* at work on its key, or leaves it unused.                                *)
LEMMA StageKept ==
    ASSUME UNCHANGED <<product, keyDoc, answered>>, NEW k
    PROVE  /\ Unused(k)' <=> Unused(k)
           /\ Recorded(k)' <=> Recorded(k)
           /\ Unrecorded(k)' <=> Unrecorded(k)
           /\ MadeUnder(k)' = MadeUnder(k)
BY DEF Unused, Recorded, Unrecorded, Unanswered, MadeUnder

LEMMA RecordedKept ==
    ASSUME RecordedIsComplete, UNCHANGED <<product, keyDoc>>, stocked \subseteq stocked'
    PROVE  RecordedIsComplete'
BY DEF RecordedIsComplete

(* A request at work moves on, or ends, and nothing is made or answered.   *)
LEMMA QuietMove ==
    ASSUME IInv, NEW r \in Requests, request[r] # Idle, NEW x \in Active \union {Idle},
           request' = [request EXCEPT ![r] = x],
           UNCHANGED <<product, keyDoc, answered>>,
           stocked \subseteq stocked', stocked' \subseteq DOMAIN product,
           exact' \subseteq exact,
           x # Idle => /\ x.key = request[r].key /\ x.body = request[r].body
                       /\ \/ /\ request[r].step \in {"looked", "naming"}
                             /\ x.step \in {"looked", "naming"}
                          \/ /\ request[r].step = "created" /\ x.step = "sending"
                             /\ x.slug = request[r].slug /\ x.slug \in stocked',
           x = Idle => request[r].step \in {"looked", "naming"} \/ request[r].key \notin exact'
    PROVE  IInv'
<1> USE DEF IInv
<1>1. /\ request' \in [Requests -> Active \union {Idle}]
      /\ request'[r] = x
      /\ \A s \in Requests : s # r => request'[s] = request[s]
      /\ \A l : AtWork(l)' = (AtWork(l) \ {r}) \union {s \in {r} : x # Idle /\ x.key = l}
  BY Moves
<1>2. CreationTypeOK'  BY <1>1 DEF CreationTypeOK, Active
<1>3. RecordedIsComplete'  BY RecordedKept
<1>4. WorkInv'  BY <1>1 DEF WorkInv
<1>5. ExactInv'
  <2> SUFFICES ASSUME NEW l \in exact'
               PROVE  /\ AtWork(l)' = {} => Unused(l)' \/ Recorded(l)'
                      /\ \A s \in AtWork(l)' :
                            /\ AtWork(l)' = {s}
                            /\ Unrecorded(l)'
                            /\ MadeUnder(l)' = IF request'[s].step \in {"looked", "naming"}
                                                 THEN {} ELSE {request'[s].slug}
    BY DEF ExactInv
  <2>1. /\ Unused(l)' <=> Unused(l)
        /\ Recorded(l)' <=> Recorded(l)
        /\ Unrecorded(l)' <=> Unrecorded(l)
        /\ MadeUnder(l)' = MadeUnder(l)
    BY StageKept
  <2>2. CASE request[r].key = l
    <3>1. /\ AtWork(l) = {r}
          /\ Unrecorded(l)
          /\ MadeUnder(l) = IF request[r].step \in {"looked", "naming"}
                              THEN {} ELSE {request[r].slug}
      BY <2>2 DEF AtWork, ExactInv
    <3>2. CASE x = Idle
      <4>1. AtWork(l)' = {}  BY <1>1, <3>1, <3>2
      <4> QED  BY <2>1, <2>2, <3>1, <3>2, <4>1 DEF Unused
    <3>3. CASE x # Idle
      <4>1. AtWork(l)' = {r}  BY <1>1, <2>2, <3>1, <3>3
      <4> QED  BY <1>1, <2>1, <3>1, <3>3, <4>1
    <3> QED  BY <3>2, <3>3
  <2>3. CASE request[r].key # l
    <3>1. AtWork(l)' = AtWork(l)  BY <1>1, <2>3 DEF AtWork
    <3>2. \A s \in AtWork(l) : request'[s] = request[s]  BY <1>1, <2>3 DEF AtWork
    <3> QED  BY <2>1, <3>1, <3>2 DEF ExactInv
  <2> QED  BY <2>2, <2>3
<1> QED  BY <1>2, <1>3, <1>4, <1>5

-----------------------------------------------------------------------------
LEMMA CreationStep == IInv /\ [CreationNext]_vars => IInv'
<1> SUFFICES ASSUME IInv, [CreationNext]_vars  PROVE IInv'  OBVIOUS
<1> USE DEF IInv
<1>1. CASE UNCHANGED vars
  BY <1>1 DEF vars, CreationTypeOK, RecordedIsComplete, WorkInv, ExactInv, Unused, Unrecorded,
     Recorded, Unanswered, MadeUnder, AtWork
(* A request that was not at work looks its key up.                        *)
<1>2. ASSUME NEW r \in Requests, NEW k \in Keys \union {NoKey}, NEW body \in Bodies,
             Lookup(r, k, body)
      PROVE  IInv'
  <2>1. /\ request[r] = Idle /\ UNCHANGED <<product, stocked, keyDoc>>
        /\ exact' = IF AtWork(k) = {} THEN exact ELSE exact \ {k}
    BY <1>2 DEF Lookup
  <2>2. RecordedIsComplete'  BY <2>1, RecordedKept
  <2>3. CASE /\ k # NoKey => keyDoc[k] = NoDoc
             /\ request' = [request EXCEPT ![r] = [step |-> "looked", key |-> k, body |-> body,
                                                   slug |-> SlugOf[body]]]
             /\ UNCHANGED answered
    <3> DEFINE x == [step |-> "looked", key |-> k, body |-> body, slug |-> SlugOf[body]]
    <3>1. x \in Active /\ x.step = "looked" /\ x.key = k
      BY CreationAssumption DEF Active, Steps
    <3>2. x # Idle  BY <3>1, ActiveIsNotIdle
    <3>3. request' = [request EXCEPT ![r] = x]  BY <2>3
    <3>4. /\ request' \in [Requests -> Active \union {Idle}]
          /\ request'[r] = x
          /\ \A s \in Requests : s # r => request'[s] = request[s]
          /\ \A l : AtWork(l)' = (AtWork(l) \ {r})
                                    \union {s \in {r} : x # Idle /\ x.key = l}
      <4> HIDE DEF x
      <4> QED  BY <3>1, <3>3, Moves
    <3> HIDE DEF x
    <3>5. CreationTypeOK'  BY <2>1, <2>3, <3>4 DEF CreationTypeOK, Active
    <3>6. WorkInv'  BY <2>1, <3>1, <3>4 DEF WorkInv
    <3>7. ExactInv'
      <4> SUFFICES ASSUME NEW l \in exact'
                   PROVE  /\ AtWork(l)' = {} => Unused(l)' \/ Recorded(l)'
                          /\ \A s \in AtWork(l)' :
                                /\ AtWork(l)' = {s}
                                /\ Unrecorded(l)'
                                /\ MadeUnder(l)' = IF request'[s].step \in {"looked", "naming"}
                                                     THEN {} ELSE {request'[s].slug}
        BY DEF ExactInv
      <4>1. l \in exact /\ l \in Keys /\ r \notin AtWork(l)
        BY <2>1 DEF CreationTypeOK, AtWork
      <4>2. /\ Unused(l)' <=> Unused(l)
            /\ Recorded(l)' <=> Recorded(l)
            /\ Unrecorded(l)' <=> Unrecorded(l)
            /\ MadeUnder(l)' = MadeUnder(l)
        BY <2>1, <2>3, StageKept
      <4>3. CASE l = k
        <5>1. AtWork(l) = {} /\ keyDoc[l] = NoDoc
          BY <2>1, <2>3, <4>1, <4>3, CreationAssumption
        <5>2. Unused(l)  BY <4>1, <5>1 DEF ExactInv, Recorded
        <5>3. AtWork(l)' = {r}  BY <3>1, <3>2, <3>4, <4>3, <5>1
        <5> QED  BY <3>1, <3>4, <4>2, <5>2, <5>3 DEF Unused
      <4>4. CASE l # k
        <5>1. AtWork(l)' = AtWork(l)  BY <3>1, <3>4, <4>1, <4>4
        <5>2. \A s \in AtWork(l) : request'[s] = request[s]  BY <3>4, <4>1 DEF AtWork
        <5> QED  BY <4>1, <4>2, <5>1, <5>2 DEF ExactInv
      <4> QED  BY <4>3, <4>4
    <3> QED  BY <2>2, <3>5, <3>6, <3>7
  <2>4. CASE /\ k # NoKey
             /\ keyDoc[k] # NoDoc /\ keyDoc[k].body = body
             /\ AnswerCreated(k, body, keyDoc[k].slug)
             /\ UNCHANGED request
    <3>1. k \in Keys /\ keyDoc[k] \in KeyDocs  BY <2>4 DEF CreationTypeOK
    <3>2. CreationTypeOK'
      BY <2>1, <2>4, <3>1 DEF CreationTypeOK, AnswerCreated, KeyDocs
    <3>3. WorkInv'  BY <2>1, <2>4 DEF WorkInv
    <3>4. ExactInv'
      <4> SUFFICES ASSUME NEW l \in exact'
                   PROVE  /\ AtWork(l)' = {} => Unused(l)' \/ Recorded(l)'
                          /\ \A s \in AtWork(l)' :
                                /\ AtWork(l)' = {s}
                                /\ Unrecorded(l)'
                                /\ MadeUnder(l)' = IF request'[s].step \in {"looked", "naming"}
                                                     THEN {} ELSE {request'[s].slug}
        BY DEF ExactInv
      <4>1. l \in exact /\ AtWork(l)' = AtWork(l)  BY <2>1, <2>4 DEF AtWork
      <4>2. MadeUnder(l)' = MadeUnder(l)  BY <2>1 DEF MadeUnder
      <4>3. CASE l = k
        <5>1. AtWork(l) = {} /\ keyDoc[l] # NoDoc
          BY <2>1, <3>1, <4>1, <4>3, DocIsNotNoDoc
        <5>2. Recorded(l)  BY <4>1, <5>1 DEF ExactInv, Unused, Unrecorded
        <5>3. Recorded(l)'  BY <2>1, <2>4, <4>2, <4>3, <5>2 DEF Recorded, AnswerCreated
        <5> QED  BY <4>1, <5>1, <5>3
      <4>4. CASE l # k
        <5>1. /\ Unused(l) => Unused(l)'
              /\ Recorded(l) => Recorded(l)'
              /\ Unrecorded(l) => Unrecorded(l)'
              /\ MadeUnder(l)' = MadeUnder(l)
          BY <2>1, <2>4, <4>2, <4>4 DEF Unused, Recorded, Unrecorded, Unanswered, AnswerCreated
        <5> QED  BY <2>4, <4>1, <5>1 DEF ExactInv
      <4> QED  BY <4>3, <4>4
    <3> QED  BY <2>2, <3>2, <3>3, <3>4
  <2> QED  BY <1>2, <2>3, <2>4 DEF Lookup
<1>3. ASSUME NEW r \in Requests, FindSlug(r)  PROVE IInv'
  <2>1. /\ request[r] # Idle /\ request[r].step = "looked"
        /\ UNCHANGED <<product, stocked, keyDoc, answered, exact>>
    BY <1>3 DEF FindSlug
  <2>2. stocked \subseteq DOMAIN product /\ request[r] \in Active
    BY <2>1, RequestFacts DEF CreationTypeOK
  <2>3. CASE End(r)
    BY <2>1, <2>2, <2>3, QuietMove DEF End
  <2>4. CASE Step(r, "naming")
    <3> DEFINE x == [request[r] EXCEPT !.step = "naming"]
    <3>1. x \in Active /\ x.key = request[r].key /\ x.body = request[r].body /\ x.step = "naming"
      BY <2>2 DEF Active, Steps
    <3>2. request' = [request EXCEPT ![r] = x]  BY <2>4 DEF Step
    <3>3. x # Idle  BY <3>1, ActiveIsNotIdle
    <3> HIDE DEF x
    <3> QED  BY <2>1, <2>2, <3>1, <3>2, <3>3, QuietMove
  <2>5. ASSUME NEW s \in Slugs,
               request' = [request EXCEPT ![r] = [@ EXCEPT !.step = "naming", !.slug = s]]
        PROVE  IInv'
    <3> DEFINE x == [request[r] EXCEPT !.step = "naming", !.slug = s]
    <3>1. x \in Active /\ x.key = request[r].key /\ x.body = request[r].body /\ x.step = "naming"
      BY <2>2 DEF Active, Steps
    <3>2. request' = [request EXCEPT ![r] = x]  BY <2>5
    <3>3. x # Idle  BY <3>1, ActiveIsNotIdle
    <3> HIDE DEF x
    <3> QED  BY <2>1, <2>2, <3>1, <3>2, <3>3, QuietMove
  <2> QED  BY <1>3, <2>3, <2>4, <2>5 DEF FindSlug
(* The product is made, under the key of its request.                      *)
<1>4. ASSUME NEW r \in Requests, Create(r)  PROVE IInv'
  <2> DEFINE s == request[r].slug
             k == request[r].key
             m == [key |-> k, body |-> request[r].body]
             x == [request[r] EXCEPT !.step = "created"]
  <2>1. /\ request[r] # Idle /\ request[r].step = "naming"
        /\ UNCHANGED <<stocked, keyDoc, answered, exact>>
    BY <1>4 DEF Create
  <2>2. /\ stocked \subseteq DOMAIN product /\ request[r] \in Active
        /\ k \in Keys \union {NoKey} /\ request[r].body \in Bodies
        /\ s \in Slugs \union {EmptySlug}
    BY <2>1, RequestFacts DEF CreationTypeOK
  <2>3. CASE s = EmptySlug \/ s \in DOMAIN product
    <3>1. End(r) /\ UNCHANGED product  BY <1>4, <2>3 DEF Create
    <3> QED  BY <2>1, <2>2, <3>1, QuietMove DEF End
  <2>4. CASE s # EmptySlug /\ s \notin DOMAIN product
    <3>1. /\ product' = [t \in DOMAIN product \union {s} |->
                            IF t = s THEN m ELSE product[t]]
          /\ Step(r, "created")
      BY <1>4, <2>4 DEF Create
    <3>2. /\ DOMAIN product' = DOMAIN product \union {s} /\ product'[s] = m
          /\ \A t \in DOMAIN product : t # s /\ product'[t] = product[t]
      BY <2>4, <3>1
    <3>3. x \in Active /\ x.key = k /\ x.body = request[r].body /\ x.slug = s
          /\ x.step = "created"
      BY <2>2 DEF Active, Steps
    <3>4. request' = [request EXCEPT ![r] = x]  BY <3>1 DEF Step
    <3>5. x # Idle  BY <3>3, ActiveIsNotIdle
    <3>6. m \in Makers /\ m.key = k  BY <2>2 DEF Makers
    <3>7. s \in Slugs  BY <2>2, <2>4
    <3> HIDE DEF x, m
    <3>8. /\ request' \in [Requests -> Active \union {Idle}]
          /\ request'[r] = x
          /\ \A q \in Requests : q # r => request'[q] = request[q]
          /\ \A l : AtWork(l)' = (AtWork(l) \ {r})
                                    \union {q \in {r} : x # Idle /\ x.key = l}
      BY <3>3, <3>4, Moves
    <3>9. CreationTypeOK'
      <4>1. product' \in [DOMAIN product' -> Makers]
        BY <3>1, <3>2, <3>6 DEF CreationTypeOK
      <4> QED  BY <2>1, <3>2, <3>7, <3>8, <4>1 DEF CreationTypeOK, Active
    <3>10. RecordedIsComplete'
      BY <2>1, <2>2, <3>2 DEF RecordedIsComplete
    <3>11. WorkInv'
      <4> SUFFICES ASSUME NEW q \in Requests, request'[q] # Idle
                   PROVE  /\ request'[q].step \in {"created", "sending"} =>
                                /\ request'[q].slug \in DOMAIN product'
                                /\ product'[request'[q].slug]
                                      = [key |-> request'[q].key, body |-> request'[q].body]
                          /\ request'[q].step = "sending" => request'[q].slug \in stocked'
        BY DEF WorkInv
      <4>1. CASE q = r  BY <3>2, <3>3, <3>8, <4>1 DEF m
      <4>2. CASE q # r
        <5>1. request'[q] = request[q]  BY <3>8, <4>2
        <5> QED  BY <2>1, <3>2, <5>1 DEF WorkInv
      <4> QED  BY <4>1, <4>2
    <3>12. ExactInv'
      <4> SUFFICES ASSUME NEW l \in exact
                   PROVE  /\ AtWork(l)' = {} => Unused(l)' \/ Recorded(l)'
                          /\ \A q \in AtWork(l)' :
                                /\ AtWork(l)' = {q}
                                /\ Unrecorded(l)'
                                /\ MadeUnder(l)' = IF request'[q].step \in {"looked", "naming"}
                                                     THEN {} ELSE {request'[q].slug}
        BY <2>1 DEF ExactInv
      <4>1. CASE l = k
        <5>1. AtWork(l) = {r} /\ Unused(l)
          BY <2>1, <4>1 DEF AtWork, ExactInv, Unused
        <5>2. AtWork(l)' = {r}  BY <3>3, <3>5, <3>8, <4>1, <5>1
        <5>3. MadeUnder(l)' = {s}
          BY <3>2, <3>6, <4>1, <5>1 DEF MadeUnder, Unused
        <5>4. Unrecorded(l)'  BY <2>1, <5>1 DEF Unused, Unrecorded, Unanswered
        <5> QED  BY <3>3, <3>8, <5>2, <5>3, <5>4
      <4>2. CASE l # k
        <5>1. AtWork(l)' = AtWork(l)  BY <3>3, <3>8, <4>2 DEF AtWork
        <5>2. \A q \in AtWork(l) : request'[q] = request[q]
          BY <3>8, <4>2 DEF AtWork
        <5>3. MadeUnder(l)' = MadeUnder(l)  BY <3>2, <3>6, <4>2 DEF MadeUnder
        <5>4. /\ Unused(l)' <=> Unused(l)
              /\ Recorded(l)' <=> Recorded(l)
              /\ Unrecorded(l)' <=> Unrecorded(l)
              /\ MadeUnder(l)' = MadeUnder(l)
          BY <2>1, <5>3 DEF Unused, Recorded, Unrecorded, Unanswered
        <5> QED  BY <5>1, <5>2, <5>4 DEF ExactInv
      <4> QED  BY <4>1, <4>2
    <3> QED  BY <3>9, <3>10, <3>11, <3>12
  <2> QED  BY <2>3, <2>4
<1>5. ASSUME NEW r \in Requests, InitStock(r)  PROVE IInv'
  <2> DEFINE x == [request[r] EXCEPT !.step = "sending"]
  <2>1. /\ request[r] # Idle /\ request[r].step = "created"
        /\ stocked' = stocked \union {request[r].slug}
        /\ Step(r, "sending") /\ UNCHANGED <<product, keyDoc, answered, exact>>
    BY <1>5 DEF InitStock
  <2>2. /\ stocked' \subseteq DOMAIN product /\ request[r] \in Active
    BY <2>1, RequestFacts DEF CreationTypeOK, WorkInv
  <2>3. /\ x \in Active /\ x.key = request[r].key /\ x.body = request[r].body
        /\ x.step = "sending" /\ x.slug = request[r].slug
    BY <2>2 DEF Active, Steps
  <2>4. request' = [request EXCEPT ![r] = x]  BY <2>1 DEF Step
  <2>5. x # Idle  BY <2>3, ActiveIsNotIdle
  <2> HIDE DEF x
  <2> QED  BY <2>1, <2>2, <2>3, <2>4, <2>5, QuietMove
(* The answer is recorded, unless another is, and given.                   *)
<1>6. ASSUME NEW r \in Requests, Send(r)  PROVE IInv'
  <2> DEFINE s == request[r].slug
             k == request[r].key
             d == [body |-> request[r].body, slug |-> s]
             a == [key |-> k, body |-> request[r].body, slug |-> s]
  <2>1. /\ request[r] # Idle /\ request[r].step = "sending" /\ Record(r)
        /\ answered' = answered \union {a}
        /\ request' = [request EXCEPT ![r] = Idle]
        /\ UNCHANGED <<product, stocked, exact>>
    BY <1>6 DEF Send, End, AnswerCreated
  <2>2. /\ k \in Keys \union {NoKey} /\ request[r].body \in Bodies
        /\ s \in stocked /\ s \in Slugs
        /\ product[s] = [key |-> k, body |-> request[r].body]
    BY <2>1, RequestFacts DEF WorkInv, CreationTypeOK
  <2>3. d \in KeyDocs /\ d # NoDoc /\ d.slug = s /\ d.body = request[r].body
    BY <2>2, DocIsNotNoDoc DEF KeyDocs
  <2>4. /\ keyDoc' \in [Keys -> KeyDocs \union {NoDoc}]
        /\ \A l \in Keys : keyDoc'[l] = IF l = k /\ keyDoc[l] = NoDoc THEN d ELSE keyDoc[l]
    <3>1. keyDoc \in [Keys -> KeyDocs \union {NoDoc}]  BY DEF CreationTypeOK
    <3>2. CASE k = NoKey
      BY <2>1, <3>1, <3>2, CreationAssumption DEF Record
    <3>3. CASE k # NoKey /\ keyDoc[k] # NoDoc
      BY <2>1, <3>1, <3>3 DEF Record
    <3>4. CASE k # NoKey /\ keyDoc[k] = NoDoc
      <4>1. keyDoc' = [keyDoc EXCEPT ![k] = d]  BY <2>1, <3>4 DEF Record
      <4>2. k \in Keys  BY <2>2, <3>4
      <4> HIDE DEF d
      <4> QED  BY <2>3, <3>1, <3>4, <4>1, <4>2
    <3> QED  BY <3>2, <3>3, <3>4
  <2>5. /\ request' \in [Requests -> Active \union {Idle}]
        /\ request'[r] = Idle
        /\ \A q \in Requests : q # r => request'[q] = request[q]
        /\ \A l : AtWork(l)' = AtWork(l) \ {r}
    BY <2>1, Ends
  <2>6. CreationTypeOK'
    <3>1. answered' \subseteq [key : Keys \union {NoKey}, body : Bodies, slug : Slugs]
      BY <2>1, <2>2 DEF CreationTypeOK
    <3> QED  BY <2>1, <2>4, <2>5, <3>1 DEF CreationTypeOK, Active
  <2>7. RecordedIsComplete'
    BY <2>1, <2>2, <2>3, <2>4 DEF RecordedIsComplete
  <2>8. WorkInv'  BY <2>1, <2>5 DEF WorkInv
  <2>9. ExactInv'
    <3> SUFFICES ASSUME NEW l \in exact
                 PROVE  /\ AtWork(l)' = {} => Unused(l)' \/ Recorded(l)'
                        /\ \A q \in AtWork(l)' :
                              /\ AtWork(l)' = {q}
                              /\ Unrecorded(l)'
                              /\ MadeUnder(l)' = IF request'[q].step \in {"looked", "naming"}
                                                   THEN {} ELSE {request'[q].slug}
      BY <2>1 DEF ExactInv
    <3>1. l \in Keys /\ MadeUnder(l)' = MadeUnder(l)
      BY <2>1 DEF MadeUnder, CreationTypeOK
    <3>2. CASE l = k
      <4>1. AtWork(l) = {r} /\ Unrecorded(l) /\ MadeUnder(l) = {s}  BY <2>1, <3>2 DEF AtWork, ExactInv
      <4>2. AtWork(l)' = {}  BY <2>5, <4>1
      <4>3. keyDoc'[l] = d  BY <2>4, <3>1, <3>2, <4>1 DEF Unrecorded
      <4>4. Recorded(l)'
        BY <2>1, <2>3, <3>1, <3>2, <4>1, <4>3 DEF Recorded, Unrecorded, Unanswered
      <4> QED  BY <4>2, <4>4
    <3>3. CASE l # k
      <4>1. AtWork(l)' = AtWork(l)  BY <2>5, <3>3 DEF AtWork
      <4>2. \A q \in AtWork(l) : request'[q] = request[q]  BY <2>5, <3>3 DEF AtWork
      <4>3. keyDoc'[l] = keyDoc[l]  BY <2>4, <3>1, <3>3
      <4>4. /\ Unused(l) => Unused(l)'
            /\ Recorded(l) => Recorded(l)'
            /\ Unrecorded(l) => Unrecorded(l)'
            /\ MadeUnder(l)' = MadeUnder(l)
        BY <2>1, <3>1, <3>3, <4>3 DEF Unused, Recorded, Unrecorded, Unanswered
      <4> QED  BY <4>1, <4>2, <4>4 DEF ExactInv
    <3> QED  BY <3>2, <3>3
  <2> QED  BY <2>6, <2>7, <2>8, <2>9
(* The answer is given and not recorded: the key is not exact any more.    *)
<1>7. ASSUME NEW r \in Requests, SendUnrecorded(r)  PROVE IInv'
  <2> DEFINE k == request[r].key
             a == [key |-> k, body |-> request[r].body, slug |-> request[r].slug]
  <2>1. /\ request[r] # Idle /\ request[r].step = "sending"
        /\ answered' = answered \union {a}
        /\ request' = [request EXCEPT ![r] = Idle]
        /\ exact' = exact \ {k}
        /\ UNCHANGED <<product, stocked, keyDoc>>
    BY <1>7 DEF SendUnrecorded, End, AnswerCreated
  <2>2. /\ k \in Keys \union {NoKey} /\ request[r].body \in Bodies
        /\ request[r].slug \in Slugs
    BY <2>1, RequestFacts DEF WorkInv, CreationTypeOK
  <2>3. /\ request' \in [Requests -> Active \union {Idle}]
        /\ request'[r] = Idle
        /\ \A q \in Requests : q # r => request'[q] = request[q]
        /\ \A l : AtWork(l)' = AtWork(l) \ {r}
    BY <2>1, Ends
  <2>4. CreationTypeOK'
    <3>1. answered' \subseteq [key : Keys \union {NoKey}, body : Bodies, slug : Slugs]
      BY <2>1, <2>2 DEF CreationTypeOK
    <3> QED  BY <2>1, <2>3, <3>1 DEF CreationTypeOK, Active
  <2>5. RecordedIsComplete'  BY <2>1, RecordedKept
  <2>6. WorkInv'  BY <2>1, <2>3 DEF WorkInv
  <2>7. ExactInv'
    <3> SUFFICES ASSUME NEW l \in exact, l # k
                 PROVE  /\ AtWork(l)' = {} => Unused(l)' \/ Recorded(l)'
                        /\ \A q \in AtWork(l)' :
                              /\ AtWork(l)' = {q}
                              /\ Unrecorded(l)'
                              /\ MadeUnder(l)' = IF request'[q].step \in {"looked", "naming"}
                                                   THEN {} ELSE {request'[q].slug}
      BY <2>1 DEF ExactInv
    <3>1. AtWork(l)' = AtWork(l)  BY <2>3 DEF AtWork
    <3>2. \A q \in AtWork(l) : request'[q] = request[q]  BY <2>3 DEF AtWork
    <3>3. /\ Unused(l) => Unused(l)'
          /\ Recorded(l) => Recorded(l)'
          /\ Unrecorded(l) => Unrecorded(l)'
          /\ MadeUnder(l)' = MadeUnder(l)
      BY <2>1 DEF Unused, Recorded, Unrecorded, Unanswered, MadeUnder
    <3> QED  BY <3>1, <3>2, <3>3 DEF ExactInv
  <2> QED  BY <2>4, <2>5, <2>6, <2>7
<1>8. ASSUME NEW r \in Requests, Die(r)  PROVE IInv'
  <2>1. /\ request[r] # Idle /\ request' = [request EXCEPT ![r] = Idle]
        /\ exact' = IF request[r].step \in {"created", "sending"}
                    THEN exact \ {request[r].key} ELSE exact
        /\ UNCHANGED <<product, stocked, keyDoc, answered>>
    BY <1>8 DEF Die, End
  <2>2. request[r].step \in Steps /\ stocked \subseteq DOMAIN product
    BY <2>1, RequestFacts DEF CreationTypeOK
  <2>3. request[r].step \in {"looked", "naming"} \/ request[r].key \notin exact'
    BY <2>1, <2>2 DEF Steps
  <2> QED  BY <2>1, <2>2, <2>3, QuietMove
<1>9. ASSUME NEW k \in Keys, KeyExpires(k)  PROVE IInv'
  <2>1. /\ keyDoc' = [keyDoc EXCEPT ![k] = NoDoc] /\ exact' = exact \ {k}
        /\ UNCHANGED <<product, stocked, request, answered>>
    BY <1>9 DEF KeyExpires
  <2>2. /\ keyDoc' \in [Keys -> KeyDocs \union {NoDoc}]
        /\ \A l \in Keys : keyDoc'[l] = IF l = k THEN NoDoc ELSE keyDoc[l]
    BY <2>1 DEF CreationTypeOK
  <2>3. CreationTypeOK'  BY <2>1, <2>2 DEF CreationTypeOK
  <2>4. RecordedIsComplete'  BY <2>1, <2>2 DEF RecordedIsComplete
  <2>5. WorkInv'  BY <2>1 DEF WorkInv
  <2>6. ExactInv'
    <3> SUFFICES ASSUME NEW l \in exact, l # k
                 PROVE  /\ AtWork(l)' = {} => Unused(l)' \/ Recorded(l)'
                        /\ \A q \in AtWork(l)' :
                              /\ AtWork(l)' = {q}
                              /\ Unrecorded(l)'
                              /\ MadeUnder(l)' = IF request'[q].step \in {"looked", "naming"}
                                                   THEN {} ELSE {request'[q].slug}
      BY <2>1 DEF ExactInv
    <3>1. keyDoc'[l] = keyDoc[l]  BY <2>2 DEF CreationTypeOK
    <3>2. /\ Unused(l)' <=> Unused(l)
          /\ Recorded(l)' <=> Recorded(l)
          /\ Unrecorded(l)' <=> Unrecorded(l)
          /\ MadeUnder(l)' = MadeUnder(l)
      BY <2>1, <3>1 DEF Unused, Recorded, Unrecorded, Unanswered, MadeUnder
    <3>3. AtWork(l)' = AtWork(l)  BY <2>1 DEF AtWork
    <3> QED  BY <2>1, <3>2, <3>3 DEF ExactInv
  <2> QED  BY <2>3, <2>4, <2>5, <2>6
<1> QED  BY <1>1, <1>2, <1>3, <1>4, <1>5, <1>6, <1>7, <1>8, <1>9 DEF CreationNext

LEMMA CreationInvariant == CreationSpec => []IInv
<1>1. CreationInit => IInv
  <2> SUFFICES ASSUME CreationInit  PROVE IInv  OBVIOUS
  <2>1. /\ DOMAIN product = {} /\ stocked = {} /\ keyDoc = [k \in Keys |-> NoDoc]
        /\ request = [r \in Requests |-> Idle] /\ answered = {} /\ exact = Keys
    BY DEF CreationInit
  <2>2. product \in [DOMAIN product -> Makers]  BY <2>1 DEF CreationInit
  <2>3. \A k \in Keys : AtWork(k) = {} /\ MadeUnder(k) = {} /\ keyDoc[k] = NoDoc
    BY <2>1 DEF AtWork, MadeUnder
  <2> QED
    BY <2>1, <2>2, <2>3 DEF IInv, CreationTypeOK, RecordedIsComplete, WorkInv, ExactInv,
       Unused, Unrecorded, Unanswered
<1>2. IInv /\ [CreationNext]_vars => IInv'  BY CreationStep
<1> QED  BY <1>1, <1>2, PTL DEF CreationSpec

LEMMA ExactMeansOnce == IInv => OnceUnlessRaced
<1> SUFFICES ASSUME IInv, NEW k \in exact
             PROVE  /\ Cardinality(MadeUnder(k)) <= 1
                    /\ \A a, b \in answered : a.key = k /\ b.key = k => a = b
  BY DEF OnceUnlessRaced
<1>1. Unused(k) \/ Recorded(k) \/ \E s : Unrecorded(k) /\ MadeUnder(k) = {s}
  <2>1. CASE AtWork(k) = {}  BY <2>1 DEF IInv, ExactInv
  <2>2. ASSUME NEW r \in AtWork(k)
        PROVE  Unused(k) \/ (Unrecorded(k) /\ MadeUnder(k) = {request[r].slug})
    BY DEF IInv, ExactInv, Unused
  <2> QED  BY <2>1, <2>2
<1>2. MadeUnder(k) = {} \/ \E s : MadeUnder(k) = {s}  BY <1>1 DEF Unused, Recorded
<1>3. Cardinality(MadeUnder(k)) <= 1
  <2>1. CASE MadeUnder(k) = {}  BY <2>1, FS_EmptySet
  <2>2. ASSUME NEW s, MadeUnder(k) = {s}  PROVE Cardinality(MadeUnder(k)) = 1
    BY <2>2, FS_Singleton
  <2> QED  BY <1>2, <2>1, <2>2
<1>4. \A a, b \in answered : a.key = k /\ b.key = k => a = b
  BY <1>1 DEF Unused, Recorded, Unrecorded, Unanswered
<1> QED  BY <1>3, <1>4

(* Products, key documents and requests keep their types; no product has   *)
(* an empty slug (products.service.ts:132-190).                            *)
THEOREM CreationTypeCorrect == CreationSpec => []CreationTypeOK
<1>1. IInv => CreationTypeOK  BY DEF IInv
<1> QED  BY <1>1, CreationInvariant, PTL

(* One product and one answer per key, for any number of requests, unless  *)
(* they overlap or the recording is lost or expired                        *)
(* (idempotency.ts:47-162).                                                *)
THEOREM KeysMakeOneProduct == CreationSpec => []OnceUnlessRaced
<1> QED  BY ExactMeansOnce, CreationInvariant, PTL

(* A replay never names a product that is missing or has no stock document *)
(* (idempotency.ts:85-93, products.service.ts:157-163).                    *)
THEOREM ReplaysAreComplete == CreationSpec => []RecordedIsComplete
<1>1. IInv => RecordedIsComplete  BY DEF IInv
<1> QED  BY <1>1, CreationInvariant, PTL

(* The record of a key is written once (idempotency.ts:134-153).           *)
THEOREM RecordsAreFinal == CreationSpec => FirstAnswerStays
<1>1. IInv /\ [CreationNext]_vars
          => [\A k \in Keys : keyDoc[k] # NoDoc => keyDoc'[k] \in {keyDoc[k], NoDoc}]_vars
  <2> SUFFICES ASSUME IInv, [CreationNext]_vars, NEW k \in Keys, keyDoc[k] # NoDoc
               PROVE  keyDoc'[k] \in {keyDoc[k], NoDoc}
    OBVIOUS
  <2>1. keyDoc \in [Keys -> KeyDocs \union {NoDoc}]  BY DEF IInv, CreationTypeOK
  <2>2. ASSUME NEW r \in Requests, Send(r)  PROVE keyDoc'[k] \in {keyDoc[k], NoDoc}
    BY <2>1, <2>2 DEF Send, Record
  <2>3. ASSUME NEW l \in Keys, KeyExpires(l)  PROVE keyDoc'[k] \in {keyDoc[k], NoDoc}
    BY <2>1, <2>3 DEF KeyExpires
  <2> QED
    BY <2>2, <2>3 DEF CreationNext, Lookup, FindSlug, Create, InitStock, SendUnrecorded,
       Die, vars
<1> QED  BY <1>1, CreationInvariant, PTL DEF CreationSpec, FirstAnswerStays
=============================================================================
