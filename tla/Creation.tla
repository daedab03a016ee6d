------------------------------- MODULE Creation -------------------------------
(***************************************************************************)
(* POST /admin/products, the one route behind the idempotency middleware:  *)
(* the middleware looks the key up, the handler creates the product and    *)
(* its inventory document in writes of their own, and the onSend hook      *)
(* records the answer under the key.  Nothing is written between the       *)
(* lookup and the recording, so overlapping requests do not see each other.*)
(*                                                                         *)
(* A request body is its hash.  Products are named by their slugs, which a *)
(* unique index keeps apart.  Keys are one administrator's.                *)
(***************************************************************************)
EXTENDS Integers, FiniteSets

CONSTANTS
    Requests,       \* requests at work at the same time
    Keys, NoKey,    \* Idempotency-Key headers; the header may be left out
    Bodies,
    Slugs,          \* the slugs a product may have
    SlugOf,         \* of a body: its slug, or slugify of its name
    WithSlug,       \* the bodies that name a slug themselves
    EmptySlug       \* slugify of a name without a latin letter or a digit

ASSUME CreationAssumption ==
    /\ NoKey \notin Keys
    /\ EmptySlug \notin Slugs
    /\ Bodies # {}
    /\ WithSlug \subseteq Bodies
    /\ SlugOf \in [Bodies -> Slugs \union {EmptySlug}]
    /\ \A b \in WithSlug : SlugOf[b] \in Slugs

VARIABLES
    product,    \* the products collection: slug -> the request that made it
    stocked,    \* the slugs of products that have an inventory document
    keyDoc,     \* idempotency keys: the body they were used with, the answer
    request,    \* where each request is
    answered,   \* history: the 201 answers, replays included
    exact       \* history: keys that were used by one request after another

vars == <<product, stocked, keyDoc, request, answered, exact>>

NoDoc == [body |-> NoKey]
Idle == [step |-> "idle"]
Makers == [key : Keys \union {NoKey}, body : Bodies]
KeyDocs == [body : Bodies, slug : Slugs]
Steps == {"looked", "naming", "created", "sending"}

CreationInit ==
    /\ product = [s \in {} |-> [key |-> NoKey, body |-> NoKey]]
    /\ stocked = {}
    /\ keyDoc = [k \in Keys |-> NoDoc]
    /\ request = [r \in Requests |-> Idle]
    /\ answered = {}
    /\ exact = Keys

AtWork(k) == {r \in Requests : request[r] # Idle /\ request[r].key = k}
MadeUnder(k) == {s \in DOMAIN product : product[s].key = k}

Step(r, step) == request' = [request EXCEPT ![r].step = step]
End(r) == request' = [request EXCEPT ![r] = Idle]
AnswerCreated(k, body, slug) ==
    answered' = answered \union {[key |-> k, body |-> body, slug |-> slug]}

-----------------------------------------------------------------------------
(* idempotencyPreHandler.  Another body is a 422; the branch for a         *)
(* document without a response (409) is never taken, for none exists.      *)
Lookup(r, k, body) ==
    /\ request[r] = Idle
    /\ exact' = IF AtWork(k) = {} THEN exact ELSE exact \ {k}
    /\ \/ /\ k # NoKey => keyDoc[k] = NoDoc
          /\ request' = [request EXCEPT ![r] = [step |-> "looked", key |-> k, body |-> body,
                                                slug |-> SlugOf[body]]]
          /\ UNCHANGED answered
       \/ /\ k # NoKey
          /\ keyDoc[k] # NoDoc /\ keyDoc[k].body = body
          /\ AnswerCreated(k, body, keyDoc[k].slug)
          /\ UNCHANGED request
    /\ UNCHANGED <<product, stocked, keyDoc>>

(* A slug that is taken: 409 if the body named it, else a random suffix,   *)
(* which is not looked up.                                                 *)
FindSlug(r) ==
    LET taken == request[r].slug \in DOMAIN product IN
    /\ request[r] # Idle /\ request[r].step = "looked"
    /\ \/ ~taken /\ Step(r, "naming")
       \/ taken /\ request[r].body \in WithSlug /\ End(r)
       \/ /\ taken /\ request[r].body \notin WithSlug
          /\ \E s \in Slugs \ {request[r].slug} :
                request' = [request EXCEPT ![r] = [@ EXCEPT !.step = "naming", !.slug = s]]
    /\ UNCHANGED <<product, stocked, keyDoc, answered, exact>>

(* Mutant: the inventory document is not waited for.                       *)
CreateWithoutStock(r) ==
    LET s == request[r].slug IN
    /\ request[r] # Idle /\ request[r].step = "naming"
    /\ IF s = EmptySlug \/ s \in DOMAIN product
       THEN End(r) /\ UNCHANGED product
       ELSE /\ product' = [t \in DOMAIN product \union {s} |->
                              IF t = s THEN [key |-> request[r].key, body |-> request[r].body]
                              ELSE product[t]]
            /\ Step(r, "sending")
    /\ UNCHANGED <<stocked, keyDoc, answered, exact>>

(* Product.create: the empty slug fails the validation, one that has been  *)
(* taken since fails the unique index.                                     *)
Create(r) ==
    LET s == request[r].slug IN
    /\ request[r] # Idle /\ request[r].step = "naming"
    /\ IF s = EmptySlug \/ s \in DOMAIN product
       THEN End(r) /\ UNCHANGED product
       ELSE /\ product' = [t \in DOMAIN product \union {s} |->
                              IF t = s THEN [key |-> request[r].key, body |-> request[r].body]
                              ELSE product[t]]
            /\ Step(r, "created")
    /\ UNCHANGED <<stocked, keyDoc, answered, exact>>

InitStock(r) ==
    /\ request[r] # Idle /\ request[r].step = "created"
    /\ stocked' = stocked \union {request[r].slug}
    /\ Step(r, "sending")
    /\ UNCHANGED <<product, keyDoc, answered, exact>>

(* Mutant: only an answer of 200 is recorded, and this one is a 201.       *)
RecordOnlyOK(r) == UNCHANGED keyDoc

(* findOneAndUpdate, upsert, $setOnInsert: a document that exists stays.   *)
Record(r) ==
    LET k == request[r].key IN
    keyDoc' = IF k = NoKey \/ keyDoc[k] # NoDoc THEN keyDoc
              ELSE [keyDoc EXCEPT ![k] = [body |-> request[r].body, slug |-> request[r].slug]]

(* saveIdempotentResponseHook, then the answer.                            *)
Send(r) ==
    /\ request[r] # Idle /\ request[r].step = "sending"
    /\ Record(r)
    /\ AnswerCreated(request[r].key, request[r].body, request[r].slug)
    /\ End(r)
    /\ UNCHANGED <<product, stocked, exact>>

(* The key cannot be recorded; the answer goes out all the same.           *)
SendUnrecorded(r) ==
    /\ request[r] # Idle /\ request[r].step = "sending"
    /\ AnswerCreated(request[r].key, request[r].body, request[r].slug)
    /\ End(r)
    /\ exact' = exact \ {request[r].key}
    /\ UNCHANGED <<product, stocked, keyDoc>>

(* The process dies, or a write fails.  A product that exists by then is   *)
(* recorded under no key.                                                  *)
Die(r) ==
    /\ request[r] # Idle
    /\ End(r)
    /\ exact' = IF request[r].step \in {"created", "sending"}
                THEN exact \ {request[r].key} ELSE exact
    /\ UNCHANGED <<product, stocked, keyDoc, answered>>

(* The TTL index, 24 hours later.                                          *)
KeyExpires(k) ==
    /\ keyDoc[k] # NoDoc
    /\ keyDoc' = [keyDoc EXCEPT ![k] = NoDoc]
    /\ exact' = exact \ {k}
    /\ UNCHANGED <<product, stocked, request, answered>>

-----------------------------------------------------------------------------
CreationNext ==
    \/ \E r \in Requests :
          \/ \E k \in Keys \union {NoKey}, body \in Bodies : Lookup(r, k, body)
          \/ FindSlug(r) \/ Create(r) \/ InitStock(r)
          \/ Send(r) \/ SendUnrecorded(r) \/ Die(r)
    \/ \E k \in Keys : KeyExpires(k)

CreationSpec == CreationInit /\ [][CreationNext]_vars

-----------------------------------------------------------------------------
CreationTypeOK ==
    /\ DOMAIN product \subseteq Slugs
    /\ product \in [DOMAIN product -> Makers]
    /\ stocked \subseteq DOMAIN product
    /\ keyDoc \in [Keys -> KeyDocs \union {NoDoc}]
    /\ request \in [Requests -> [step : Steps, key : Keys \union {NoKey}, body : Bodies,
                                 slug : Slugs \union {EmptySlug}] \union {Idle}]
    /\ answered \subseteq [key : Keys \union {NoKey}, body : Bodies, slug : Slugs]
    /\ exact \subseteq Keys

(* idempotency.ts:5: duplicate requests with the same key get the original *)
(* answer.  So they do, and one product is made, if each request begins    *)
(* after the one before has ended, its answer was recorded, and the record *)
(* has not expired; whatever other keys do at the same time.               *)
OnceUnlessRaced ==
    \A k \in exact :
        /\ Cardinality(MadeUnder(k)) <= 1
        /\ \A a, b \in answered : a.key = k /\ b.key = k => a = b

(* Whatever overlaps or dies, a recorded answer names a product that was   *)
(* created for this key and this body, with its inventory document.        *)
RecordedIsComplete ==
    \A k \in Keys :
        keyDoc[k] # NoDoc =>
            /\ keyDoc[k].slug \in stocked
            /\ product[keyDoc[k].slug] = [key |-> k, body |-> keyDoc[k].body]

(* The first answer that is recorded is the one that is replayed, until    *)
(* the record expires: overlapping requests do not replace it.             *)
FirstAnswerStays ==
    [][\A k \in Keys : keyDoc[k] # NoDoc => keyDoc'[k] \in {keyDoc[k], NoDoc}]_vars
=============================================================================
