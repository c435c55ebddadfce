--------------------------- MODULE Authentication ---------------------------
(***************************************************************************)
(* mod_auth of sprout (src/sprout/authentication.cpp): the pjsip module    *)
(* that sits below the transaction layer and authenticates REGISTER        *)
(* requests.  Several pjsip worker threads run authenticate_rx_request     *)
(* concurrently; they share the AV store, which maps (impi, nonce) to the  *)
(* Authentication Vector issued with a challenge.                          *)
(*                                                                         *)
(*  - Receive(t, m): lines 273-395 up to the HSS call: the integrity-      *)
(*    protected bypass, verification of a response (pjsip_auth_srv_verify  *)
(*    calling user_lookup), the failure branch, the 500 path.              *)
(*  - HssAnswer(t): create_challenge after the HSS round trip (the only    *)
(*    suspension point): build the WWW-Authenticate header and set_av.     *)
(*  - SendChallenge(t): pjsip_endpt_send_response2 (line 396).             *)
(*  - Expire(k): the AV store's TTL eviction (AvStore is not under src/).  *)
(*  - Clients and an attacker put REGISTERs on the network, which is a set *)
(*    of messages: any message can be received again (retransmission,     *)
(*    duplication, replay) or never (loss).                                *)
(*                                                                         *)
(* Data is abstracted: a digest response is the pair (secret, nonce) it is *)
(* computed from; the secret of a Digest AV is the subscriber's ha1 (rand  *)
(* = None), that of an AKA AV is XRES, determined by the subscriber's key  *)
(* and the AKA challenge RAND.                                             *)
(***************************************************************************)
EXTENDS Naturals, FiniteSets

CONSTANTS
    Subs,             \* subscribers; a subscriber is named by its private id
    Attacker,         \* a sender that knows no subscriber secret
    Threads,          \* pjsip worker threads running mod_auth
    Nonces,           \* nonce / AKA RAND values; their number bounds the challenges
    Impus,            \* public identities (To URIs)
    ImpuOf,           \* the public identity each subscriber registers
    DefaultPrivateId, \* PJUtils::default_private_id_from_uri
    None,             \* an absent field, AV, response or challenge
    Forged,           \* a response value guessed by the attacker
    MaxMsgs           \* bound on the number of distinct requests sent

ASSUME ConstAssumption ==
    /\ Subs # {} /\ Threads # {} /\ IsFiniteSet(Nonces)
    /\ Attacker \notin Subs
    /\ ImpuOf \in [Subs -> Impus]
    /\ DefaultPrivateId \in [Impus -> Subs]
    /\ None \notin Subs \cup Nonces \cup {Attacker, Forged}
    /\ MaxMsgs \in Nat

\* A subscriber that registers without a username has the private identity
\* that default_private_id_from_uri derives from its public identity.
ASSUME DefaultConsistent == \A s \in Subs : DefaultPrivateId[ImpuOf[s]] = s

Senders == Subs \cup {Attacker}
Keys == Subs \X Nonces

\* The trusted values of the integrity-protected parameter (lines 296-298).
TrustedIntegrity == {"yes", "tls-yes", "ip-assoc-yes"}
IntegrityValues == TrustedIntegrity \cup {"no", None}

Secrets == [sub : Subs, rand : Nonces \cup {None}]
Responses == [sec : Secrets, nonce : Nonces]
AVs == [kind : {"aka", "digest"}, chal : Nonces \cup {None}, sec : Secrets]
Challenges == [alg : {"MD5", "AKAv1-MD5"}, nonce : Nonces]

Requests == [from : Senders, integ : IntegrityValues, auth : BOOLEAN,
             username : Subs \cup {None}, nonce : Nonces \cup {None},
             response : Responses \cup {None, Forged}, impu : Impus]
SipResponses == [to : Senders, code : {401, 403, 500},
                 chal : Challenges \cup {None}]

\* An absent field and the attacker's guess are not digest responses: the
\* attacker cannot compute a subscriber's response without its secret.
ASSUME ResponseValues == None \notin Responses /\ Forged \notin Responses

\* An empty store slot (a null AV) is not an AV.
ASSUME NoneIsNoVector == None \notin AVs

\* Saturation bound of the per-key count of successful verifications.
CountCap == 2

VARIABLES
    net,        \* REGISTER requests sent so far
    rsp,        \* SIP responses sent by mod_auth
    store,      \* the AV store: (impi, nonce) -> AV or None
    pc,         \* per thread: "idle", "hss" (in create_challenge) or "send"
    cur,        \* per thread: the request being handled
    out,        \* per thread: the response built by create_challenge
    minted,     \* nonces and RANDs handed out so far
    evicted,    \* keys whose AV the store has expired
    passed,     \* requests let through (history)
    verifyCount,\* per key: successful verifications (history, saturating)
    refused     \* requests verification refused, and whether their AV had
                \* expired (history)

vars == <<net, rsp, store, pc, cur, out, minted, evicted, passed, verifyCount,
          refused>>

-----------------------------------------------------------------------------
(* Helpers translated from the code.                                       *)

\* pjsip_param_find + pj_stricmp against STR_YES, STR_TLS_YES, STR_IP_ASSOC_YES.
IntegrityProtected(m) == m.auth /\ m.integ \in TrustedIntegrity

\* auth_hdr != NULL && response.slen != 0 (line 309).
HasResponse(m) == m.auth /\ m.response # None

\* The private identity create_challenge uses (lines 165-178).
ChallengeImpi(m) ==
    IF m.auth /\ m.username # None THEN m.username ELSE DefaultPrivateId[m.impu]

\* user_lookup (lines 107-150): the AV under (username, nonce), or None.
LookupAV(m) ==
    IF m.username \in Subs /\ m.nonce \in Nonces
    THEN store[<<m.username, m.nonce>>] ELSE None

\* Mutant: the digest is checked against the stored secret but not bound
\* to the header's nonce.
VerifyOKUnboundNonce(m) ==
    LET av == LookupAV(m)
    IN  av # None /\ m.response \in Responses /\ m.response.sec = av.sec

\* pjsip_auth_verify: recompute the digest from the looked-up credential
\* (ha1 for Digest, the plain-text XRES for AKA) and the header's nonce.
VerifyOK(m) ==
    LET av == LookupAV(m)
    IN  av # None /\ m.response = [sec |-> av.sec, nonce |-> m.nonce]

\* The vector the HSS returns for impi i: Digest, or AKA with RAND r.
Vector(i, kind, r) ==
    [kind |-> kind,
     chal |-> IF kind = "aka" THEN r ELSE None,
     sec  |-> [sub |-> i, rand |-> IF kind = "aka" THEN r ELSE None]]

\* Mutant: the nonce is read from the vector's challenge field for Digest
\* vectors too, which have none.
ChallengeNonceFromVector(av, n) == av.chal

\* The nonce placed in the challenge and used as the store key: the AKA
\* challenge itself (line 220) or the locally minted random (lines 245-246).
ChallengeNonce(av, n) == IF av.kind = "aka" THEN av.chal ELSE n

\* Mutant: the algorithm tag is left at MD5 for AKA vectors (line 219).
AlgorithmAlwaysMD5(av) == "MD5"

\* The algorithm tag of the challenge (lines 219, 244).
Algorithm(av) == IF av.kind = "aka" THEN "AKAv1-MD5" ELSE "MD5"

\* What a subscriber's UA computes for a challenge: RES from its key and the
\* RAND for AKA, the digest of its ha1 for MD5.
ClientResponse(s, ch) ==
    [sec   |-> [sub |-> s, rand |-> IF ch.alg = "AKAv1-MD5" THEN ch.nonce ELSE None],
     nonce |-> ch.nonce]

Bump(c) == IF c < CountCap THEN c + 1 ELSE c

-----------------------------------------------------------------------------
Init ==
    /\ net = {}
    /\ rsp = {}
    /\ store = [k \in Keys |-> None]
    /\ pc = [t \in Threads |-> "idle"]
    /\ cur = [t \in Threads |-> None]
    /\ out = [t \in Threads |-> None]
    /\ minted = {}
    /\ evicted = {}
    /\ passed = {}
    /\ verifyCount = [k \in Keys |-> 0]
    /\ refused = {}

(* authenticate_rx_request for a REGISTER, up to the HSS call.             *)

\* Lines 288-303: already integrity protected by the edge proxy.
Bypass(t, m) ==
    /\ IntegrityProtected(m)
    /\ passed' = passed \cup {[msg |-> m, how |-> "bypass"]}
    /\ UNCHANGED <<net, rsp, store, pc, cur, out, minted, evicted, verifyCount, refused>>

\* Lines 309-322: the response verifies, the request is let through.
VerifySuccess(t, m) ==
    /\ ~IntegrityProtected(m)
    /\ HasResponse(m)
    /\ VerifyOK(m)
    /\ passed' = passed \cup {[msg |-> m, how |-> "verified"]}
    /\ verifyCount' = [verifyCount EXCEPT ![<<m.username, m.nonce>>] = Bump(@)]
    /\ UNCHANGED <<net, rsp, store, pc, cur, out, minted, evicted, refused>>

\* Lines 315 and 398-419: verification failed (user_lookup finds no AV, so
\* PJSIP_EAUTHACCNOTFOUND, or the digest is wrong, PJSIP_EAUTHINVALIDDIGEST).
\* pjsip_auth_srv_verify sets its out-parameter sc to PJSIP_SC_FORBIDDEN in
\* both cases, and status is not PJSIP_EAUTHNOAUTH, so the else branch
\* responds statelessly with 403 and no challenge.
VerifyFailure(t, m) ==
    /\ ~IntegrityProtected(m)
    /\ HasResponse(m)
    /\ ~VerifyOK(m)
    /\ rsp' = rsp \cup {[to |-> m.from, code |-> 403, chal |-> None]}
    /\ refused' = refused \cup {[msg |-> m, stale |-> <<m.username, m.nonce>> \in evicted]}
    /\ UNCHANGED <<net, store, pc, cur, out, minted, evicted, passed, verifyCount>>

\* Lines 376-393: no response, so challenge; create_response may fail (500).
StartChallenge(t, m) ==
    /\ ~IntegrityProtected(m)
    /\ ~HasResponse(m)
    /\ \/ /\ rsp' = rsp \cup {[to |-> m.from, code |-> 500, chal |-> None]}
          /\ UNCHANGED <<pc, cur>>
       \/ /\ pc' = [pc EXCEPT ![t] = "hss"]
          /\ cur' = [cur EXCEPT ![t] = m]
          /\ UNCHANGED rsp
    /\ UNCHANGED <<net, store, out, minted, evicted, passed, verifyCount, refused>>

Receive(t) ==
    /\ pc[t] = "idle"
    /\ \E m \in net :
          \/ Bypass(t, m)
          \/ VerifySuccess(t, m)
          \/ VerifyFailure(t, m)
          \/ StartChallenge(t, m)

\* create_challenge after hss->get_auth_vector returns (lines 194-267):
\* no AV gives 403; otherwise the header is built and the AV is written to
\* the store under (impi, nonce) before the response is sent.
HssAnswer(t) ==
    /\ pc[t] = "hss"
    /\ LET m == cur[t]
           i == ChallengeImpi(m)
       IN \/ /\ out' = [out EXCEPT ![t] = [to |-> m.from, code |-> 403, chal |-> None]]
             /\ UNCHANGED <<store, minted>>
          \/ \E n \in Nonces \ minted, kind \in {"aka", "digest"} :
                LET av    == Vector(i, kind, n)
                    nonce == ChallengeNonce(av, n)
                IN /\ minted' = minted \cup {n}
                   /\ store' = [store EXCEPT ![<<i, nonce>>] = av]
                   /\ out' = [out EXCEPT ![t] =
                                [to |-> m.from, code |-> 401,
                                 chal |-> [alg |-> Algorithm(av), nonce |-> nonce]]]
    /\ pc' = [pc EXCEPT ![t] = "send"]
    /\ UNCHANGED <<net, rsp, cur, evicted, passed, verifyCount, refused>>

\* pjsip_endpt_send_response2 (line 396).
SendChallenge(t) ==
    /\ pc[t] = "send"
    /\ rsp' = rsp \cup {out[t]}
    /\ pc' = [pc EXCEPT ![t] = "idle"]
    /\ cur' = [cur EXCEPT ![t] = None]
    /\ out' = [out EXCEPT ![t] = None]
    /\ UNCHANGED <<net, store, minted, evicted, passed, verifyCount, refused>>

\* The AV store drops an entry when its TTL runs out.
Expire(k) ==
    /\ store[k] # None
    /\ store' = [store EXCEPT ![k] = None]
    /\ evicted' = evicted \cup {k}
    /\ UNCHANGED <<net, rsp, pc, cur, out, minted, passed, verifyCount, refused>>

(* The environment: subscribers' UAs, the edge proxy and an attacker.      *)

Send(m) ==
    /\ Cardinality(net) < MaxMsgs
    /\ m \notin net
    /\ net' = net \cup {m}
    /\ UNCHANGED <<rsp, store, pc, cur, out, minted, evicted, passed, verifyCount, refused>>

\* An initial REGISTER, with an empty-response Authorization header or none.
ClientRegister(s) ==
    \E withAuth \in BOOLEAN :
        Send([from |-> s, integ |-> None, auth |-> withAuth,
              username |-> IF withAuth THEN s ELSE None, nonce |-> None,
              response |-> None, impu |-> ImpuOf[s]])

\* A REGISTER forwarded by the edge proxy, marked integrity protected.
EdgeRegister(s) ==
    Send([from |-> s, integ |-> "yes", auth |-> TRUE, username |-> s,
          nonce |-> None, response |-> None, impu |-> ImpuOf[s]])

\* The UA answers a challenge it received.
ClientAnswer(s) ==
    \E c \in rsp :
        /\ c.to = s /\ c.code = 401 /\ c.chal # None
        /\ Send([from |-> s, integ |-> None, auth |-> TRUE, username |-> s,
                 nonce |-> c.chal.nonce, response |-> ClientResponse(s, c.chal),
                 impu |-> ImpuOf[s]])

\* The attacker: asks for a challenge for a victim, guesses a response, or
\* splices a response it has seen onto another nonce it has seen.
AttackerSend ==
    \/ \E u \in Impus :
          Send([from |-> Attacker, integ |-> None, auth |-> FALSE, username |-> None,
                nonce |-> None, response |-> None, impu |-> u])
    \/ \E i \in Subs, n \in minted :
          Send([from |-> Attacker, integ |-> None, auth |-> TRUE, username |-> i,
                nonce |-> n, response |-> Forged, impu |-> ImpuOf[i]])
    \/ \E m \in net, n \in minted :
          /\ m.response \in Responses
          /\ Send([from |-> Attacker, integ |-> m.integ, auth |-> m.auth,
                   username |-> m.username, nonce |-> n, response |-> m.response,
                   impu |-> m.impu])

Next ==
    \/ \E t \in Threads : Receive(t) \/ HssAnswer(t) \/ SendChallenge(t)
    \/ \E k \in Keys : Expire(k)
    \/ \E s \in Subs : ClientRegister(s) \/ EdgeRegister(s) \/ ClientAnswer(s)
    \/ AttackerSend

Spec == Init /\ [][Next]_vars

-----------------------------------------------------------------------------
(* Properties.                                                             *)

\* A thread inside create_challenge holds the request it handles, and one
\* about to send holds the response it built.
ThreadState ==
    \A t \in Threads :
        /\ pc[t] \in {"hss", "send"} => cur[t] \in Requests
        /\ pc[t] = "send" => out[t] \in SipResponses

TypeOK ==
    /\ net \subseteq Requests
    /\ rsp \subseteq SipResponses
    /\ store \in [Keys -> AVs \cup {None}]
    /\ pc \in [Threads -> {"idle", "hss", "send"}]
    /\ cur \in [Threads -> Requests \cup {None}]
    /\ out \in [Threads -> SipResponses \cup {None}]
    /\ minted \subseteq Nonces
    /\ evicted \subseteq Keys
    /\ passed \subseteq [msg : Requests, how : {"bypass", "verified"}]
    /\ verifyCount \in [Keys -> 0..CountCap]
    /\ refused \subseteq [msg : Requests, stale : BOOLEAN]
    /\ ThreadState

\* Authenticity (user_lookup + pjsip_auth_srv_verify, lines 107-150, 309-322):
\* a REGISTER is let through on verification only if the subscriber named in
\* its username was sent a challenge with that nonce and itself sent that
\* response for that nonce; replayed copies are allowed, forgeries and
\* responses spliced onto another nonce are not.
Authenticity ==
    \A p \in passed :
        p.how = "verified" =>
            /\ \E c \in rsp : c.to = p.msg.username /\ c.chal # None
                              /\ c.chal.nonce = p.msg.nonce
            /\ \E m \in net : m.from = p.msg.username /\ m.nonce = p.msg.nonce
                              /\ m.response = p.msg.response

\* Challenge round trip (create_challenge lines 214-259, send at 396): from
\* the moment a subscriber holds a challenge until the store expires the
\* entry, the store holds under (its impi, the challenge's nonce) an AV that
\* accepts the answer the subscriber's UA computes for that challenge.
ChallengeAnswerable ==
    \A c \in rsp :
        (c.to \in Subs /\ c.code = 401 /\ c.chal # None) =>
            LET k == <<c.to, c.chal.nonce>>
            IN  \/ k \in evicted
                \/ /\ store[k] # None
                   /\ ClientResponse(c.to, c.chal) = [sec |-> store[k].sec, nonce |-> c.chal.nonce]

\* Spec P1 (no replay): at most one verification against a given
\* (impi, nonce) succeeds.  user_lookup only reads the AV (get_av) and never
\* deletes it, so the code lets a second one through.
NoReplay ==
    \A k \in Keys : verifyCount[k] <= 1

\* Spec 4.1 ("if absent or stale, route to ChallengeBuilder") and the
\* comment at line 378 ("No authorization information in request, or stale,
\* so must issue challenge"): a subscriber's REGISTER answering a challenge
\* whose AV the store has since expired is challenged again, never refused
\* outright.
\* user_lookup finds no AV for it, so pjsip_auth_srv_verify returns
\* PJSIP_EAUTHACCNOTFOUND with sc = 403, and line 413 sends the 403.
StaleAnswerRechallenged ==
    \A r \in refused : r.msg.from \in Subs => ~r.stale

=============================================================================
