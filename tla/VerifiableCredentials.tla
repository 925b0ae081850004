------------------------- MODULE VerifiableCredentials -------------------------
(***************************************************************************)
(* Verifiable credentials: the issuer's offers, access tokens and c_nonces *)
(* and the verifier's presentation requests.  Each hands out a secret that *)
(* a store gives back once: the offer's pre-authorized code, a c_nonce and *)
(* the id of a presentation request.                                       *)
(*                                                                         *)
(* The in-memory stores take a secret in one step; the Postgres stores     *)
(* select the row and then delete or update it.  One offer, one user, one  *)
(* request and one bit of the status list; signatures and digests are not  *)
(* modelled, so every credential and proof here is a genuine one.          *)
(***************************************************************************)
EXTENDS Naturals

CONSTANTS
    Request,        \* slots for requests in flight together
    None,
    Nonce           \* c_nonces, a bound on how many are issued

VARIABLES
    store,          \* "memory" or "postgres"
    nonced,         \* configuration: a credentialNonceStore is given
    held,           \* what the store says of each secret
    expired,        \* secrets past their expiry
    token,          \* the access token the wallet got for its offer
    credentials,    \* what the wallet holds: bound to its key, or not
    fetched,        \* the wallet fetched the request object from /vp/request/:id
    revoked,        \* the credentials' bit in the status list
    work,           \* requests between two steps
    passed,         \* history: how many requests each secret let pass, but for shared readings
    refused         \* history: presentations turned down for their nonce alone

stores == <<store, nonced, held, expired>>
wallet == <<token, credentials, fetched, revoked>>
history == <<passed, refused>>
vars == <<stores, wallet, work, history>>

Secret == {"offer", "request"} \cup Nonce
Presentation == [bound: BOOLEAN, nonce: {"asked", "served"}]
Work == [op: {"exchange", "proof", "present"}, step: {"write", "decide", "nonce", "status"},
         secret: Secret, row: {"live", "redeemed"}, late: BOOLEAN,
         shared: BOOLEAN,       \* another had read the row and not written it yet
         shown: Presentation \cup {None}]

TypeOK ==
    /\ store \in {"memory", "postgres"} /\ nonced \in BOOLEAN
    /\ held \in [Secret -> {"unborn", "live", "redeemed", "gone"}] /\ expired \subseteq Secret
    /\ token \in {"none", "valid", "expired"} /\ credentials \subseteq {"bound", "free"}
    /\ fetched \in BOOLEAN /\ revoked \in BOOLEAN
    /\ work \in [Request -> Work \cup {None}]
    /\ passed \in [Secret -> Nat] /\ refused \subseteq Presentation

Init ==
    /\ store \in {"memory", "postgres"} /\ nonced \in BOOLEAN
    /\ held = [s \in Secret |-> "unborn"] /\ expired = {}
    /\ token = "none" /\ credentials = {} /\ fetched = FALSE /\ revoked = FALSE
    /\ work = [r \in Request |-> None]
    /\ passed = [s \in Secret |-> 0] /\ refused = {}

-----------------------------------------------------------------------------
(* Secrets are saved, expire, and are taken.                               *)

Save(s) == held[s] = "unborn" /\ held' = [held EXCEPT ![s] = "live"]

CreateCredentialOffer ==
    Save("offer") /\ UNCHANGED <<store, nonced, expired, wallet, work, history>>

\* POST /vci/nonce.
FetchNonce ==
    /\ nonced /\ \E n \in Nonce : Save(n)
    /\ UNCHANGED <<store, nonced, expired, wallet, work, history>>

\* POST /vp/authorize answers the nonce that it stores in the request.
CreatePresentationRequest ==
    Save("request") /\ UNCHANGED <<store, nonced, expired, wallet, work, history>>

Expire ==
    /\ \/ /\ \E s \in Secret \ expired : held[s] = "live" /\ expired' = expired \cup {s}
          /\ token' = token
       \/ token = "valid" /\ token' = "expired" /\ expired' = expired
    /\ UNCHANGED <<store, nonced, held, credentials, fetched, revoked, work, history>>

\* An offer stays behind, marked as redeemed; the others are deleted.
Taken(s) == IF s = "offer" THEN "redeemed" ELSE "gone"

\* consumeOffer, consumeNonce and consumeRequest, the first thing a request does to its secret
\* and after it read the clock.
Consume(r, op, s, shown) ==
    LET reading == \E o \in Request : /\ work[o] # None
                                      /\ work[o].step = "write" /\ work[o].secret = s
        job(step) == [op |-> op, step |-> step, secret |-> s, row |-> held[s],
                      late |-> s \in expired, shared |-> reading, shown |-> shown] IN
    /\ work[r] = None /\ held[s] \in {"live", "redeemed"}
    /\ IF store = "memory"
       THEN /\ held' = [held EXCEPT ![s] = Taken(s)]
            /\ work' = [work EXCEPT ![r] = job("decide")]
       ELSE work' = [work EXCEPT ![r] = job("write")] /\ UNCHANGED held
    /\ UNCHANGED <<store, nonced, expired, wallet, history>>

\* The Postgres stores' second statement.
ConsumeRow(r) ==
    /\ work[r] # None /\ work[r].step = "write"
    /\ held' = [held EXCEPT ![work[r].secret] = Taken(work[r].secret)]
    /\ work' = [work EXCEPT ![r].step = "decide"]
    /\ UNCHANGED <<store, nonced, expired, wallet, history>>

Deciding(r, op) == work[r] # None /\ work[r].op = op /\ work[r].step = "decide"
Usable(r) == work[r].row # "redeemed" /\ ~work[r].late
Passes(r) ==
    passed' = IF work[r].shared THEN passed ELSE [passed EXCEPT ![work[r].secret] = @ + 1]
Done(r) == work' = [work EXCEPT ![r] = None]

-----------------------------------------------------------------------------
(* The issuer.                                                             *)

ExchangePreAuthorizedCode(r) == Consume(r, "exchange", "offer", None)

\* An access token for the offer's user, and a c_nonce with it where nonces are kept.
Exchanged(r) ==
    /\ Deciding(r, "exchange")
    /\ IF Usable(r)
       THEN /\ Passes(r)
            /\ IF nonced THEN work' = [work EXCEPT ![r].step = "nonce"] /\ UNCHANGED token
               ELSE Done(r) /\ token' = "valid"
       ELSE Done(r) /\ UNCHANGED <<passed, token>>
    /\ UNCHANGED <<stores, credentials, fetched, revoked, refused>>

SaveNonce(r) ==
    /\ work[r] # None /\ work[r].step = "nonce"
    /\ \E n \in Nonce : Save(n)
    /\ token' = "valid" /\ Done(r)
    /\ UNCHANGED <<store, nonced, expired, credentials, fetched, revoked, history>>

\* A credential without a proof is bound to no key; with one, to the key that signed it.
IssueCredential(r) ==
    /\ work[r] = None /\ token = "valid"
    /\ \E kind \in {"bound", "free"} :
          /\ kind = "bound" => ~nonced
          /\ credentials' = credentials \cup {kind}
    /\ UNCHANGED <<stores, token, fetched, revoked, work, history>>

VerifyProofJwt(r) == /\ token = "valid" /\ nonced
                     /\ \E n \in Nonce : Consume(r, "proof", n, None)

ProofVerified(r) ==
    /\ Deciding(r, "proof") /\ Done(r)
    /\ IF Usable(r) THEN Passes(r) /\ credentials' = credentials \cup {"bound"}
       ELSE UNCHANGED <<passed, credentials>>
    /\ UNCHANGED <<stores, token, fetched, revoked, refused>>

SetCredentialStatus ==
    /\ credentials # {} /\ revoked' = ~revoked
    /\ UNCHANGED <<stores, token, credentials, fetched, work, history>>

-----------------------------------------------------------------------------
(* The verifier.                                                           *)

\* GET /vp/request/:id builds a request anew, with an id and a nonce of its own, and signs that:
\* its pass-through store keeps neither.
FetchRequestObject ==
    /\ held["request"] = "live" /\ fetched' = TRUE
    /\ UNCHANGED <<stores, token, credentials, revoked, work, history>>

\* POST /vp/response finds the request by the answer's state, which must be the id that
\* /vp/authorize answered: the object's own state was chosen before that id was drawn, and finds
\* nothing.  The proof of the key is over the nonce of /vp/authorize or that of the object served.
VerifyPresentationResponse(r) ==
    \E kind \in credentials, nonce \in {"asked"} \cup (IF fetched THEN {"served"} ELSE {}) :
        Consume(r, "present", "request", [bound |-> kind = "bound", nonce |-> nonce])

\* verifyHolderBinding, for credentials that name a key.
Answers(shown) == shown.bound => shown.nonce = "asked"

\* The request's expiry, the holder's key and whether every claim asked for was disclosed.
PresentationChecked(r) ==
    LET shown == work[r].shown IN
    /\ Deciding(r, "present")
    /\ \E disclosed \in BOOLEAN :
          /\ IF Usable(r) /\ Answers(shown) /\ disclosed
             THEN work' = [work EXCEPT ![r].step = "status"] ELSE Done(r)
          /\ refused' = IF Usable(r) /\ disclosed /\ ~Answers(shown) THEN refused \cup {shown}
                        ELSE refused
    /\ UNCHANGED <<stores, wallet, passed>>

\* checkStatus: a list that cannot be fetched revokes nothing.
CheckStatus(r) ==
    /\ work[r] # None /\ work[r].step = "status" /\ Done(r)
    /\ \E reachable \in BOOLEAN :
          IF reachable /\ revoked THEN UNCHANGED passed ELSE Passes(r)
    /\ UNCHANGED <<stores, wallet, refused>>

Next ==
    \/ CreateCredentialOffer \/ FetchNonce \/ CreatePresentationRequest \/ Expire
    \/ FetchRequestObject \/ SetCredentialStatus
    \/ \E r \in Request :
          \/ ConsumeRow(r) \/ ExchangePreAuthorizedCode(r) \/ Exchanged(r) \/ SaveNonce(r)
          \/ IssueCredential(r) \/ VerifyProofJwt(r) \/ ProofVerified(r)
          \/ VerifyPresentationResponse(r) \/ PresentationChecked(r) \/ CheckStatus(r)

Spec == Init /\ [][Next]_vars

-----------------------------------------------------------------------------
(* Properties.                                                             *)

\* A pre-authorized code gets one access token, a c_nonce proves one key and a presentation
\* request accepts one presentation, whatever overlaps with whatever.  The Postgres stores let a
\* further request pass only if it read the row while another that had read it was yet to write;
\* such requests are not counted (exchangePreAuthorizedCode, verifyProofJwt,
\* verifyPresentationResponse).
CredentialSecretsPassOnce == \A s \in Secret : passed[s] <= 1

\* The nonce of the object that GET /vp/request/:id serves is that of the stored request, so that
\* a wallet that answers the object it fetched, in time and with every claim, is not turned down
\* for its nonce (the request route and verifyHolderBinding).
ServedCanBeAnswered == \A shown \in refused : shown.nonce # "served"

=============================================================================
