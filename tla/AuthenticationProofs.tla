------------------------ MODULE AuthenticationProofs ------------------------
(***************************************************************************)
(* Proofs about the mod_auth model, for every value of the constants that  *)
(* satisfies ConstAssumption.                                              *)
(***************************************************************************)
EXTENDS Authentication, TLAPS

USE ConstAssumption

\* A request put on the network by a subscriber, the edge proxy or the
\* attacker is a well-formed request.
LEMMA SendType ==
    ASSUME TypeOK, NEW m \in Requests, Send(m)
    PROVE  TypeOK'
  BY DEF Send, TypeOK, ThreadState

\* mod_auth starts with an empty network, an empty store and idle threads.
LEMMA TypeInit == Init => TypeOK
  BY DEF Init, TypeOK, ThreadState, CountCap

\* Every step of mod_auth, the store and the environment keeps each variable
\* in its type.
LEMMA TypeStep == TypeOK /\ [Next]_vars => TypeOK'
<1> SUFFICES ASSUME TypeOK, [Next]_vars PROVE TypeOK'
  OBVIOUS
<1>1. ASSUME NEW t \in Threads, Receive(t) PROVE TypeOK'
  <2>1. PICK m \in net : Bypass(t, m) \/ VerifySuccess(t, m)
                         \/ VerifyFailure(t, m) \/ StartChallenge(t, m)
    BY <1>1 DEF Receive
  <2>2. m \in Requests
    BY DEF TypeOK
  <2>3. CASE Bypass(t, m)
    BY <2>2, <2>3 DEF Bypass, TypeOK, ThreadState
  <2>4. CASE VerifySuccess(t, m)
    <3>1. HasResponse(m) /\ VerifyOK(m)
      BY <2>4 DEF VerifySuccess
    <3>2. <<m.username, m.nonce>> \in Keys
      BY <2>2, <3>1 DEF HasResponse, VerifyOK, LookupAV, Keys
    <3>3. \A c \in 0..CountCap : Bump(c) \in 0..CountCap
      BY DEF Bump, CountCap
    <3>4. QED
      BY <2>2, <2>4, <3>2, <3>3 DEF VerifySuccess, TypeOK, ThreadState
  <2>5. CASE VerifyFailure(t, m)
    <3>1. [to |-> m.from, code |-> 403, chal |-> None] \in SipResponses
      BY <2>2 DEF SipResponses, Requests
    <3>2. [msg |-> m, stale |-> <<m.username, m.nonce>> \in evicted]
            \in [msg : Requests, stale : BOOLEAN]
      BY <2>2
    <3>3. rsp' \subseteq SipResponses
      BY <2>5, <3>1 DEF VerifyFailure, TypeOK
    <3>6. refused' \subseteq [msg : Requests, stale : BOOLEAN]
      <4>1. refused' = refused \cup {[msg |-> m, stale |-> <<m.username, m.nonce>> \in evicted]}
        BY <2>5 DEF VerifyFailure
      <4>2. refused \subseteq [msg : Requests, stale : BOOLEAN]
        BY DEF TypeOK
      <4>3. QED
        BY <3>2, <4>1, <4>2, Zenon
    <3>4. UNCHANGED <<net, store, pc, cur, out, minted, evicted, passed, verifyCount>>
      BY <2>5 DEF VerifyFailure
    <3>5. QED
      BY <3>3, <3>4, <3>6 DEF TypeOK, ThreadState
  <2>6. CASE StartChallenge(t, m)
    BY <2>2, <2>6 DEF StartChallenge, TypeOK, ThreadState, SipResponses, Requests
  <2>7. QED
    BY <2>1, <2>3, <2>4, <2>5, <2>6
<1>2. ASSUME NEW t \in Threads, HssAnswer(t) PROVE TypeOK'
  <2> DEFINE m == cur[t]
             i == ChallengeImpi(m)
  <2>1. m \in Requests
    BY <1>2 DEF HssAnswer, TypeOK, ThreadState
  <2>2. i \in Subs
    BY <2>1 DEF ChallengeImpi, Requests
  <2>3. [to |-> m.from, code |-> 403, chal |-> None] \in SipResponses
    BY <2>1 DEF Requests, SipResponses, Senders
  <2>5. pc' = [pc EXCEPT ![t] = "send"] /\ UNCHANGED <<net, rsp, cur, evicted, passed, verifyCount, refused>>
    BY <1>2 DEF HssAnswer
  <2>6. CASE /\ out' = [out EXCEPT ![t] = [to |-> m.from, code |-> 403, chal |-> None]]
             /\ UNCHANGED <<store, minted>>
    BY <2>1, <2>3, <2>5, <2>6 DEF TypeOK, ThreadState
  <2>7. CASE \E n \in Nonces \ minted, kind \in {"aka", "digest"} :
               LET av    == Vector(i, kind, n)
                   nonce == ChallengeNonce(av, n)
               IN /\ minted' = minted \cup {n}
                  /\ store' = [store EXCEPT ![<<i, nonce>>] = av]
                  /\ out' = [out EXCEPT ![t] =
                               [to |-> m.from, code |-> 401,
                                chal |-> [alg |-> Algorithm(av), nonce |-> nonce]]]
    <3>1. PICK n \in Nonces \ minted, kind \in {"aka", "digest"} :
               LET av    == Vector(i, kind, n)
                   nonce == ChallengeNonce(av, n)
               IN /\ minted' = minted \cup {n}
                  /\ store' = [store EXCEPT ![<<i, nonce>>] = av]
                  /\ out' = [out EXCEPT ![t] =
                               [to |-> m.from, code |-> 401,
                                chal |-> [alg |-> Algorithm(av), nonce |-> nonce]]]
      BY <2>7
    <3> DEFINE av == Vector(i, kind, n)
               nonce == ChallengeNonce(av, n)
    <3>0. /\ av \in AVs
          /\ nonce \in Nonces
          /\ [to |-> m.from, code |-> 401,
              chal |-> [alg |-> Algorithm(av), nonce |-> nonce]] \in SipResponses
      <4>1. n \in Nonces
        OBVIOUS
      <4>2. QED
        BY <2>1, <2>2, <4>1 DEF av, nonce, Vector, AVs, Secrets, ChallengeNonce,
                                Algorithm, SipResponses, Challenges, Requests, Senders
    <3>2. <<i, nonce>> \in Keys
      BY <2>2, <3>0 DEF Keys
    <3>3. store' \in [Keys -> AVs \cup {None}]
      BY <3>0, <3>1, <3>2 DEF TypeOK
    <3>4. out' \in [Threads -> SipResponses \cup {None}] /\ out'[t] \in SipResponses
      BY <3>0, <3>1 DEF TypeOK
    <3>5. QED
      BY <2>1, <2>5, <3>1, <3>3, <3>4 DEF TypeOK, ThreadState
  <2>8. QED
    BY <1>2, <2>6, <2>7 DEF HssAnswer
<1>3. ASSUME NEW t \in Threads, SendChallenge(t) PROVE TypeOK'
  BY <1>3 DEF SendChallenge, TypeOK, ThreadState
<1>4. ASSUME NEW k \in Keys, Expire(k) PROVE TypeOK'
  BY <1>4 DEF Expire, TypeOK, ThreadState
<1>5. ASSUME NEW s \in Subs, ClientRegister(s) PROVE TypeOK'
  BY <1>5, SendType DEF ClientRegister, Requests, IntegrityValues, Senders
<1>6. ASSUME NEW s \in Subs, EdgeRegister(s) PROVE TypeOK'
  BY <1>6, SendType DEF EdgeRegister, Requests, IntegrityValues,
                        TrustedIntegrity, Senders
<1>7. ASSUME NEW s \in Subs, ClientAnswer(s) PROVE TypeOK'
  <2>1. PICK c \in rsp : c.to = s /\ c.code = 401 /\ c.chal # None
                         /\ Send([from |-> s, integ |-> None, auth |-> TRUE,
                                  username |-> s, nonce |-> c.chal.nonce,
                                  response |-> ClientResponse(s, c.chal),
                                  impu |-> ImpuOf[s]])
    BY <1>7 DEF ClientAnswer
  <2>2. c.chal \in Challenges
    BY <2>1 DEF TypeOK, SipResponses
  <2>3. ClientResponse(s, c.chal) \in Responses
    BY <2>2 DEF ClientResponse, Responses, Secrets, Challenges
  <2>4. [from |-> s, integ |-> None, auth |-> TRUE, username |-> s,
         nonce |-> c.chal.nonce, response |-> ClientResponse(s, c.chal),
         impu |-> ImpuOf[s]] \in Requests
    BY <2>2, <2>3 DEF Requests, IntegrityValues, Senders, Challenges
  <2>5. QED
    BY <2>1, <2>4, SendType
<1>8. CASE AttackerSend
  BY <1>8, SendType DEF AttackerSend, TypeOK, Requests, IntegrityValues, Senders
<1>9. CASE UNCHANGED vars
  BY <1>9 DEF vars, TypeOK, ThreadState
<1>10. QED
  BY <1>1, <1>2, <1>3, <1>4, <1>5, <1>6, <1>7, <1>8, <1>9 DEF Next

\* In every reachable state each variable of mod_auth is in its type, and a
\* thread past the HSS call holds its request and, once create_challenge is
\* done, the response it built.
THEOREM TypeCorrect == Spec => []TypeOK
  BY TypeInit, TypeStep, PTL DEF Spec

-----------------------------------------------------------------------------
(* Authenticity.  It is not inductive by itself: a VerifySuccess step      *)
(* needs to know where the stored AV and the presented response came from. *)
(* Three facts say so, and together with TypeOK and Authenticity they are *)
(* inductive.                                                              *)

\* An AV stored under (impi, nonce) holds a secret of that impi
\* (create_challenge stores under the impi it asked the HSS about).
StoreBound ==
    \A k \in Keys : store[k] # None => store[k].sec.sub = k[1]

\* Every digest response on the network was first sent, with the nonce it
\* was computed for, by the subscriber whose secret it uses; copies and
\* splices by the attacker only move it to other messages.
ResponseOrigin ==
    \A m \in net : m.response \in Responses =>
        \E m0 \in net : /\ m0.from = m.response.sec.sub
                        /\ m0.nonce = m.response.nonce
                        /\ m0.response = m.response

\* A subscriber only answers challenges it was sent.
AnswerChallenged ==
    \A m \in net : m.from \in Subs /\ m.response # None =>
        \E c \in rsp : c.to = m.from /\ c.chal # None /\ c.chal.nonce = m.nonce

AuthInv == TypeOK /\ StoreBound /\ ResponseOrigin /\ AnswerChallenged /\ Authenticity

LEMMA AuthInit == Init => AuthInv
  BY TypeInit DEF Init, AuthInv, StoreBound, ResponseOrigin, AnswerChallenged, Authenticity

\* A step that leaves the network, the store and the passed requests alone
\* and only adds responses keeps the three facts and Authenticity.
LEMMA QuietStep ==
    ASSUME AuthInv, UNCHANGED <<net, store, passed>>, rsp \subseteq rsp'
    PROVE  (StoreBound /\ ResponseOrigin /\ AnswerChallenged /\ Authenticity)'
  BY DEF AuthInv, StoreBound, ResponseOrigin, AnswerChallenged, Authenticity

\* Sending a request keeps the facts if its response, when it is one, was
\* first sent by its owner, and if a subscriber's answer follows a challenge.
LEMMA SendStep ==
    ASSUME AuthInv, NEW m, Send(m),
           m.response \in Responses =>
               \E m0 \in net \cup {m} : /\ m0.from = m.response.sec.sub
                                       /\ m0.nonce = m.response.nonce
                                       /\ m0.response = m.response,
           m.from \in Subs /\ m.response # None =>
               \E c \in rsp : c.to = m.from /\ c.chal # None /\ c.chal.nonce = m.nonce
    PROVE  (StoreBound /\ ResponseOrigin /\ AnswerChallenged /\ Authenticity)'
<1>1. net' = net \cup {m} /\ UNCHANGED <<rsp, store, passed>>
  BY DEF Send
<1>2. ResponseOrigin'
  BY <1>1 DEF AuthInv, ResponseOrigin
<1>3. AnswerChallenged'
  BY <1>1 DEF AuthInv, AnswerChallenged
<1>4. QED
  BY <1>1, <1>2, <1>3 DEF AuthInv, StoreBound, Authenticity

\* The step that matters: a response verified against the stored AV (the
\* digest over the AV's secret and the header's nonce) was sent by the
\* subscriber named in the username, for that nonce, after a challenge.
LEMMA VerifyStep ==
    ASSUME AuthInv, NEW t \in Threads, NEW m \in net, VerifySuccess(t, m)
    PROVE  (StoreBound /\ ResponseOrigin /\ AnswerChallenged /\ Authenticity)'
<1> DEFINE k  == <<m.username, m.nonce>>
           av == LookupAV(m)
<1>1. m \in Requests
  BY DEF AuthInv, TypeOK
<1>2. av # None /\ m.response = [sec |-> av.sec, nonce |-> m.nonce]
  BY DEF VerifySuccess, VerifyOK
<1>3. m.username \in Subs /\ m.nonce \in Nonces /\ av = store[k]
  BY <1>2 DEF LookupAV
<1>4. k \in Keys
  BY <1>3 DEF Keys
<1>5. av \in AVs
  BY <1>2, <1>3, <1>4 DEF AuthInv, TypeOK
<1>6. av.sec.sub = m.username
  BY <1>2, <1>3, <1>4 DEF AuthInv, StoreBound
<1>7. m.response \in Responses
  BY <1>2, <1>3, <1>5 DEF AVs, Responses
<1>8. PICK m0 \in net : /\ m0.from = m.response.sec.sub
                       /\ m0.nonce = m.response.nonce
                       /\ m0.response = m.response
  BY <1>7 DEF AuthInv, ResponseOrigin
<1>9. m0.from = m.username /\ m0.nonce = m.nonce
  BY <1>2, <1>6, <1>8
<1>10. m0.response # None
  BY <1>7, <1>8, ResponseValues
<1>11. PICK c \in rsp : c.to = m.username /\ c.chal # None /\ c.chal.nonce = m.nonce
  BY <1>3, <1>9, <1>10 DEF AuthInv, AnswerChallenged
<1>12. passed' = passed \cup {[msg |-> m, how |-> "verified"]}
       /\ UNCHANGED <<net, rsp, store>>
  BY DEF VerifySuccess
<1>13. Authenticity'
  BY <1>8, <1>9, <1>11, <1>12 DEF AuthInv, Authenticity
<1>14. QED
  BY <1>12, <1>13 DEF AuthInv, StoreBound, ResponseOrigin, AnswerChallenged

LEMMA AuthStep == AuthInv /\ [Next]_vars => AuthInv'
<1> SUFFICES ASSUME AuthInv, [Next]_vars
             PROVE  (StoreBound /\ ResponseOrigin /\ AnswerChallenged /\ Authenticity)'
  BY TypeStep DEF AuthInv
<1>1. ASSUME NEW t \in Threads, Receive(t)
      PROVE  (StoreBound /\ ResponseOrigin /\ AnswerChallenged /\ Authenticity)'
  <2>1. PICK m \in net : Bypass(t, m) \/ VerifySuccess(t, m)
                         \/ VerifyFailure(t, m) \/ StartChallenge(t, m)
    BY <1>1 DEF Receive
  <2>2. CASE Bypass(t, m)
    BY <2>2 DEF Bypass, AuthInv, StoreBound, ResponseOrigin, AnswerChallenged,
                Authenticity
  <2>3. CASE VerifySuccess(t, m)
    BY <2>3, VerifyStep
  <2>4. CASE VerifyFailure(t, m)
    BY <2>4, QuietStep DEF VerifyFailure
  <2>5. CASE StartChallenge(t, m)
    BY <2>5, QuietStep DEF StartChallenge
  <2>6. QED
    BY <2>1, <2>2, <2>3, <2>4, <2>5
<1>2. ASSUME NEW t \in Threads, HssAnswer(t)
      PROVE  (StoreBound /\ ResponseOrigin /\ AnswerChallenged /\ Authenticity)'
  <2> DEFINE i == ChallengeImpi(cur[t])
  <2>1. UNCHANGED <<net, rsp, passed>>
    BY <1>2 DEF HssAnswer
  <2>2. StoreBound'
    <3>1. CASE UNCHANGED store
      BY <3>1 DEF AuthInv, StoreBound
    <3>2. CASE \E n \in Nonces \ minted, kind \in {"aka", "digest"} :
                 store' = [store EXCEPT ![<<i, ChallengeNonce(Vector(i, kind, n), n)>>]
                                      = Vector(i, kind, n)]
      <4>1. PICK n \in Nonces \ minted, kind \in {"aka", "digest"} :
                 store' = [store EXCEPT ![<<i, ChallengeNonce(Vector(i, kind, n), n)>>]
                                      = Vector(i, kind, n)]
        BY <3>2
      <4>2. Vector(i, kind, n).sec.sub = i
        BY DEF Vector
      <4>3. QED
        BY <4>1, <4>2 DEF AuthInv, StoreBound, TypeOK
    <3>3. QED
      BY <1>2, <3>1, <3>2 DEF HssAnswer
  <2>3. QED
    BY <2>1, <2>2 DEF AuthInv, ResponseOrigin, AnswerChallenged, Authenticity
<1>3. ASSUME NEW t \in Threads, SendChallenge(t)
      PROVE  (StoreBound /\ ResponseOrigin /\ AnswerChallenged /\ Authenticity)'
  BY <1>3, QuietStep DEF SendChallenge
<1>4. ASSUME NEW k \in Keys, Expire(k)
      PROVE  (StoreBound /\ ResponseOrigin /\ AnswerChallenged /\ Authenticity)'
  BY <1>4 DEF Expire, AuthInv, StoreBound, ResponseOrigin, AnswerChallenged,
              Authenticity
<1>5. ASSUME NEW s \in Subs, ClientRegister(s)
      PROVE  (StoreBound /\ ResponseOrigin /\ AnswerChallenged /\ Authenticity)'
  BY <1>5, SendStep, ResponseValues DEF ClientRegister
<1>6. ASSUME NEW s \in Subs, EdgeRegister(s)
      PROVE  (StoreBound /\ ResponseOrigin /\ AnswerChallenged /\ Authenticity)'
  BY <1>6, SendStep, ResponseValues DEF EdgeRegister
<1>7. ASSUME NEW s \in Subs, ClientAnswer(s)
      PROVE  (StoreBound /\ ResponseOrigin /\ AnswerChallenged /\ Authenticity)'
  <2>1. PICK c \in rsp : c.to = s /\ c.code = 401 /\ c.chal # None
                         /\ Send([from |-> s, integ |-> None, auth |-> TRUE,
                                  username |-> s, nonce |-> c.chal.nonce,
                                  response |-> ClientResponse(s, c.chal),
                                  impu |-> ImpuOf[s]])
    BY <1>7 DEF ClientAnswer
  <2> DEFINE m == [from |-> s, integ |-> None, auth |-> TRUE,
                   username |-> s, nonce |-> c.chal.nonce,
                   response |-> ClientResponse(s, c.chal),
                   impu |-> ImpuOf[s]]
  <2>2. m.response.sec.sub = m.from /\ m.response.nonce = m.nonce
    BY DEF ClientResponse
  <2>3. QED
    BY <2>1, <2>2, SendStep
<1>8. CASE AttackerSend
  <2>1. CASE \E u \in Impus :
               Send([from |-> Attacker, integ |-> None, auth |-> FALSE, username |-> None,
                     nonce |-> None, response |-> None, impu |-> u])
    BY <2>1, SendStep, ResponseValues
  <2>2. CASE \E i \in Subs, n \in minted :
               Send([from |-> Attacker, integ |-> None, auth |-> TRUE, username |-> i,
                     nonce |-> n, response |-> Forged, impu |-> ImpuOf[i]])
    BY <2>2, SendStep, ResponseValues
  <2>3. CASE \E m \in net, n \in minted :
               /\ m.response \in Responses
               /\ Send([from |-> Attacker, integ |-> m.integ, auth |-> m.auth,
                        username |-> m.username, nonce |-> n, response |-> m.response,
                        impu |-> m.impu])
    <3>1. PICK m \in net, n \in minted :
               /\ m.response \in Responses
               /\ Send([from |-> Attacker, integ |-> m.integ, auth |-> m.auth,
                        username |-> m.username, nonce |-> n, response |-> m.response,
                        impu |-> m.impu])
      BY <2>3
    <3>2. \E m0 \in net : /\ m0.from = m.response.sec.sub
                          /\ m0.nonce = m.response.nonce
                          /\ m0.response = m.response
      BY <3>1 DEF AuthInv, ResponseOrigin
    <3>3. QED
      BY <3>1, <3>2, SendStep
  <2>4. QED
    BY <1>8, <2>1, <2>2, <2>3 DEF AttackerSend
<1>9. CASE UNCHANGED vars
  BY <1>9 DEF vars, AuthInv, StoreBound, ResponseOrigin, AnswerChallenged, Authenticity
<1>10. QED
  BY <1>1, <1>2, <1>3, <1>4, <1>5, <1>6, <1>7, <1>8, <1>9 DEF Next

\* Authenticity, for every set of subscribers, threads and nonces: mod_auth
\* lets a REGISTER through on a verified response (user_lookup and
\* pjsip_auth_srv_verify, lines 107-150 and 309-322) only if the subscriber
\* it names was challenged with that nonce and itself sent that response.
THEOREM AuthenticitySafe == Spec => []Authenticity
<1>1. AuthInv => Authenticity
  BY DEF AuthInv
<1>2. QED
  BY <1>1, AuthInit, AuthStep, PTL DEF Spec
-----------------------------------------------------------------------------
(* The challenge round trip (ChallengeAnswerable).  A challenge's key      *)
(* (its subscriber and nonce) is written once, by the HssAnswer that built *)
(* it, with a nonce never handed out before; so until the store expires it *)
(* no later set_av can overwrite it.  The challenge is addressed to the    *)
(* sender of the request, and the key uses the impi create_challenge       *)
(* derives from the request, so the two must agree for subscribers.        *)

\* The store entry for challenge c accepts the answer c's UA computes, or
\* the store has expired it.
Answerable(c) ==
    LET k == <<c.to, c.chal.nonce>>
    IN  \/ k \in evicted
        \/ /\ store[k] # None
           /\ ClientResponse(c.to, c.chal) = [sec |-> store[k].sec, nonce |-> c.chal.nonce]

IsSubChallenge(c) == c.to \in Subs /\ c.code = 401 /\ c.chal # None

\* Nonces of stored AVs and of challenges built or sent have been minted.
NoncesMinted ==
    /\ \A k \in Keys : store[k] # None => k[2] \in minted
    /\ \A c \in rsp : c.chal # None => c.chal.nonce \in minted
    /\ \A t \in Threads : pc[t] = "send" /\ out[t].chal # None => out[t].chal.nonce \in minted

\* A subscriber's request names the subscriber as its private identity, and
\* a thread handling a request took it from the network.
OwnImpi ==
    /\ \A m \in net : m.from \in Subs => ChallengeImpi(m) = m.from
    /\ \A t \in Threads : pc[t] \in {"hss", "send"} => cur[t] \in net

\* A challenge built and not yet sent is answerable already: set_av comes
\* before pjsip_endpt_send_response2.
PendingAnswerable ==
    \A t \in Threads : pc[t] = "send" /\ IsSubChallenge(out[t]) => Answerable(out[t])

AnsInv == TypeOK /\ NoncesMinted /\ OwnImpi /\ PendingAnswerable /\ ChallengeAnswerable
USE DefaultConsistent

LEMMA AnsInit == Init => AnsInv
<1> SUFFICES ASSUME Init PROVE AnsInv
  OBVIOUS
<1>1. TypeOK
  BY TypeInit
<1>2. NoncesMinted /\ OwnImpi /\ PendingAnswerable /\ ChallengeAnswerable
  BY DEF Init, NoncesMinted, OwnImpi, PendingAnswerable, ChallengeAnswerable
<1>3. QED
  BY <1>1, <1>2 DEF AnsInv

\* Answerable(c) is kept by a step that leaves c's store entry alone and
\* expires nothing back.
LEMMA AnswerableKept ==
    ASSUME NEW c, Answerable(c),
           store'[<<c.to, c.chal.nonce>>] = store[<<c.to, c.chal.nonce>>],
           evicted \subseteq evicted'
    PROVE  Answerable(c)'
BY DEF Answerable

\* A step that changes none of the variables the invariant reads.
LEMMA AnsQuiet ==
    ASSUME AnsInv, UNCHANGED <<net, rsp, store, pc, cur, out, minted, evicted>>
    PROVE  (NoncesMinted /\ OwnImpi /\ PendingAnswerable /\ ChallengeAnswerable)'
<1>1. NoncesMinted' /\ OwnImpi'
  BY DEF AnsInv, NoncesMinted, OwnImpi
<1>2. PendingAnswerable'
  BY AnswerableKept DEF AnsInv, PendingAnswerable, IsSubChallenge
<1>3. ChallengeAnswerable'
  BY DEF AnsInv, ChallengeAnswerable, Answerable
<1>4. QED
  BY <1>1, <1>2, <1>3

\* A new request on the network, which names its sender as the impi if the
\* sender is a subscriber.
LEMMA AnsSend ==
    ASSUME AnsInv, NEW m, Send(m), m.from \in Subs => ChallengeImpi(m) = m.from
    PROVE  (NoncesMinted /\ OwnImpi /\ PendingAnswerable /\ ChallengeAnswerable)'
<1>1. UNCHANGED <<rsp, store, pc, cur, out, minted, evicted>> /\ net' = net \cup {m}
  BY DEF Send
<1>2. OwnImpi'
  BY <1>1 DEF AnsInv, OwnImpi
<1>3. NoncesMinted'
  BY <1>1 DEF AnsInv, NoncesMinted
<1>4. PendingAnswerable'
  BY <1>1, AnswerableKept DEF AnsInv, PendingAnswerable, IsSubChallenge
<1>5. ChallengeAnswerable'
  BY <1>1 DEF AnsInv, ChallengeAnswerable
<1>6. QED
  BY <1>2, <1>3, <1>4, <1>5

\* The nonce of a challenge is the one HssAnswer minted, for either kind
\* of vector.
LEMMA ChallengeNonceIsMinted ==
    ASSUME NEW i, NEW kind \in {"aka", "digest"}, NEW n
    PROVE  ChallengeNonce(Vector(i, kind, n), n) = n
BY DEF ChallengeNonce, Vector

\* The AV built for impi i accepts what i's UA computes for the challenge.
LEMMA VectorAnswerable ==
    ASSUME NEW i, NEW kind \in {"aka", "digest"}, NEW n
    PROVE  ClientResponse(i, [alg |-> Algorithm(Vector(i, kind, n)), nonce |-> n])
             = [sec |-> Vector(i, kind, n).sec, nonce |-> n]
<1>1. CASE kind = "aka"
  BY <1>1 DEF ClientResponse, Algorithm, Vector
<1>2. CASE kind = "digest"
  BY <1>2 DEF ClientResponse, Algorithm, Vector
<1>3. QED
  BY <1>1, <1>2
\* mod_auth sends a response that carries no challenge (401 without a header,
\* 403 or 500) and changes nothing else the invariant reads.
LEMMA AnsPlainResponse ==
    ASSUME AnsInv, NEW r, r.chal = None, rsp' = rsp \cup {r},
           UNCHANGED <<net, store, pc, cur, out, minted, evicted>>
    PROVE  (NoncesMinted /\ OwnImpi /\ PendingAnswerable /\ ChallengeAnswerable)'
<1>1. NoncesMinted' /\ OwnImpi'
  BY DEF AnsInv, NoncesMinted, OwnImpi
<1>2. PendingAnswerable'
  BY AnswerableKept DEF AnsInv, PendingAnswerable, IsSubChallenge
<1>3. ChallengeAnswerable'
  BY DEF AnsInv, ChallengeAnswerable
<1>4. QED
  BY <1>1, <1>2, <1>3

LEMMA AnsStep == AnsInv /\ [Next]_vars => AnsInv'
<1> SUFFICES ASSUME AnsInv, [Next]_vars
             PROVE  (NoncesMinted /\ OwnImpi /\ PendingAnswerable /\ ChallengeAnswerable)'
  BY TypeStep DEF AnsInv
<1>1. ASSUME NEW t \in Threads, Receive(t)
      PROVE  (NoncesMinted /\ OwnImpi /\ PendingAnswerable /\ ChallengeAnswerable)'
  <2>1. PICK m \in net : Bypass(t, m) \/ VerifySuccess(t, m)
                         \/ VerifyFailure(t, m) \/ StartChallenge(t, m)
    BY <1>1 DEF Receive
  <2>2. CASE Bypass(t, m) \/ VerifySuccess(t, m)
    BY <2>2, AnsQuiet DEF Bypass, VerifySuccess
  <2>3. CASE VerifyFailure(t, m)
    BY <2>3, AnsPlainResponse DEF VerifyFailure
  <2>4. CASE StartChallenge(t, m)
                /\ rsp' = rsp \cup {[to |-> m.from, code |-> 500, chal |-> None]}
                /\ UNCHANGED <<pc, cur>>
    BY <2>4, AnsPlainResponse DEF StartChallenge
  <2>5. CASE StartChallenge(t, m) /\ pc' = [pc EXCEPT ![t] = "hss"]
                                  /\ cur' = [cur EXCEPT ![t] = m] /\ UNCHANGED rsp
    <3>1. UNCHANGED <<net, rsp, store, out, minted, evicted>>
      BY <2>5 DEF StartChallenge
    <3>2. pc'[t] = "hss" /\ cur'[t] = m
      BY <2>5 DEF AnsInv, TypeOK
    <3>3. \A u \in Threads \ {t} : pc'[u] = pc[u] /\ cur'[u] = cur[u]
      BY <2>5
    <3>4. NoncesMinted' /\ OwnImpi'
      BY <3>1, <3>2, <3>3 DEF AnsInv, NoncesMinted, OwnImpi
    <3>5. PendingAnswerable'
      BY <3>1, <3>2, <3>3, AnswerableKept DEF AnsInv, PendingAnswerable, IsSubChallenge
    <3>6. ChallengeAnswerable'
      BY <3>1 DEF AnsInv, ChallengeAnswerable
    <3>7. QED
      BY <3>4, <3>5, <3>6
  <2>6. QED
    BY <1>1, <2>1, <2>2, <2>3, <2>4, <2>5 DEF StartChallenge
<1>3. ASSUME NEW t \in Threads, SendChallenge(t)
      PROVE  (NoncesMinted /\ OwnImpi /\ PendingAnswerable /\ ChallengeAnswerable)'
  <2>1. UNCHANGED <<net, store, minted, evicted>> /\ rsp' = rsp \cup {out[t]}
    BY <1>3 DEF SendChallenge
  <2>2. pc'[t] = "idle" /\ \A u \in Threads \ {t} : pc'[u] = pc[u] /\ cur'[u] = cur[u]
                                                     /\ out'[u] = out[u]
    BY <1>3 DEF SendChallenge, AnsInv, TypeOK
  <2>3. pc[t] = "send"
    BY <1>3 DEF SendChallenge
  <2>4. NoncesMinted'
    BY <2>1, <2>2, <2>3 DEF AnsInv, NoncesMinted
  <2>5. OwnImpi'
    BY <2>1, <2>2 DEF AnsInv, OwnImpi
  <2>6. PendingAnswerable'
    BY <2>1, <2>2, AnswerableKept DEF AnsInv, PendingAnswerable, IsSubChallenge
  <2>7. ASSUME NEW c \in rsp', IsSubChallenge(c) PROVE Answerable(c)'
    <3>1. CASE c \in rsp
      <4>1. Answerable(c)
        BY <2>7, <3>1 DEF AnsInv, ChallengeAnswerable, Answerable, IsSubChallenge
      <4>2. QED
        BY <2>1, <4>1, AnswerableKept
    <3>2. CASE c = out[t]
      <4>1. Answerable(c)
        BY <2>3, <2>7, <3>2 DEF AnsInv, PendingAnswerable
      <4>2. QED
        BY <2>1, <4>1, AnswerableKept
    <3>3. QED
      BY <2>1, <3>1, <3>2
  <2>8. ChallengeAnswerable'
    BY <2>7 DEF ChallengeAnswerable, Answerable, IsSubChallenge
  <2>9. QED
    BY <2>4, <2>5, <2>6, <2>8
<1>4. ASSUME NEW k \in Keys, Expire(k)
      PROVE  (NoncesMinted /\ OwnImpi /\ PendingAnswerable /\ ChallengeAnswerable)'
  <2>1. UNCHANGED <<net, rsp, pc, cur, out, minted>> /\ evicted' = evicted \cup {k}
        /\ store' = [store EXCEPT ![k] = None]
    BY <1>4 DEF Expire
  <2>2. ASSUME NEW c \in SipResponses, IsSubChallenge(c), Answerable(c)
        PROVE  Answerable(c)'
    <3>0. <<c.to, c.chal.nonce>> \in Keys
      BY <2>2 DEF IsSubChallenge, SipResponses, Challenges, Keys
    <3>1. CASE <<c.to, c.chal.nonce>> = k
      BY <2>1, <3>1 DEF Answerable
    <3>2. CASE <<c.to, c.chal.nonce>> # k
      BY <2>1, <2>2, <3>0, <3>2, AnswerableKept DEF AnsInv, TypeOK
    <3>3. QED
      BY <3>1, <3>2
  <2>3. NoncesMinted'
    BY <2>1 DEF AnsInv, NoncesMinted, TypeOK
  <2>4. QED
    BY <2>1, <2>2, <2>3 DEF AnsInv, TypeOK, ThreadState, OwnImpi, PendingAnswerable,
                            ChallengeAnswerable
<1>5. ASSUME NEW s \in Subs, ClientRegister(s)
      PROVE  (NoncesMinted /\ OwnImpi /\ PendingAnswerable /\ ChallengeAnswerable)'
  <2>1. PICK w \in BOOLEAN :
          Send([from |-> s, integ |-> None, auth |-> w,
                username |-> IF w THEN s ELSE None, nonce |-> None,
                response |-> None, impu |-> ImpuOf[s]])
    BY <1>5 DEF ClientRegister
  <2>2. CASE w
    BY <2>1, <2>2, AnsSend DEF ChallengeImpi
  <2>3. CASE ~w
    BY <2>1, <2>3, AnsSend DEF ChallengeImpi
  <2>4. QED
    BY <2>2, <2>3
<1>6. ASSUME NEW s \in Subs, EdgeRegister(s)
      PROVE  (NoncesMinted /\ OwnImpi /\ PendingAnswerable /\ ChallengeAnswerable)'
  BY <1>6, AnsSend DEF EdgeRegister, ChallengeImpi
<1>7. ASSUME NEW s \in Subs, ClientAnswer(s)
      PROVE  (NoncesMinted /\ OwnImpi /\ PendingAnswerable /\ ChallengeAnswerable)'
  <2>1. PICK c \in rsp : Send([from |-> s, integ |-> None, auth |-> TRUE,
                               username |-> s, nonce |-> c.chal.nonce,
                               response |-> ClientResponse(s, c.chal),
                               impu |-> ImpuOf[s]])
    BY <1>7 DEF ClientAnswer
  <2>2. QED
    BY <2>1, AnsSend DEF ChallengeImpi
<1>8. CASE AttackerSend
  <2>1. \E m : m.from = Attacker /\ Send(m)
    BY <1>8 DEF AttackerSend
  <2>2. QED
    BY <2>1, AnsSend
<1>9. CASE UNCHANGED vars
  BY <1>9, AnsQuiet DEF vars
<1>2. ASSUME NEW t \in Threads, HssAnswer(t)
      PROVE  (NoncesMinted /\ OwnImpi /\ PendingAnswerable /\ ChallengeAnswerable)'
  <2> DEFINE m == cur[t]
             i == ChallengeImpi(m)
  <2>1. /\ pc[t] = "hss" /\ UNCHANGED <<net, rsp, cur, evicted>>
        /\ pc' = [pc EXCEPT ![t] = "send"]
    BY <1>2 DEF HssAnswer
  <2>2. m \in Requests /\ m \in net
    BY <2>1 DEF AnsInv, TypeOK, ThreadState, OwnImpi
  <2>3. i \in Subs /\ (m.from \in Subs => i = m.from)
    BY <2>2 DEF AnsInv, OwnImpi, ChallengeImpi, Requests
  <2>4. \A u \in Threads : pc'[u] \in {"hss", "send"} => cur'[u] \in net'
    BY <2>1, <2>2 DEF AnsInv, OwnImpi, TypeOK
  <2>5. OwnImpi'
    BY <2>1, <2>4 DEF AnsInv, OwnImpi
  <2>6. CASE /\ out' = [out EXCEPT ![t] = [to |-> m.from, code |-> 403, chal |-> None]]
             /\ UNCHANGED <<store, minted>>
    <3>1. out'[t].chal = None /\ \A u \in Threads \ {t} : out'[u] = out[u] /\ pc'[u] = pc[u]
      BY <2>1, <2>6 DEF AnsInv, TypeOK
    <3>2. NoncesMinted'
      BY <2>1, <2>6, <3>1 DEF AnsInv, NoncesMinted
    <3>3. PendingAnswerable'
      BY <2>1, <2>6, <3>1, AnswerableKept DEF AnsInv, PendingAnswerable, IsSubChallenge
    <3>4. ChallengeAnswerable'
      BY <2>1, <2>6 DEF AnsInv, ChallengeAnswerable
    <3>5. QED
      BY <2>5, <3>2, <3>3, <3>4
  <2>7. CASE \E n \in Nonces \ minted, kind \in {"aka", "digest"} :
                LET av    == Vector(i, kind, n)
                    nonce == ChallengeNonce(av, n)
                IN /\ minted' = minted \cup {n}
                   /\ store' = [store EXCEPT ![<<i, nonce>>] = av]
                   /\ out' = [out EXCEPT ![t] =
                                [to |-> m.from, code |-> 401,
                                 chal |-> [alg |-> Algorithm(av), nonce |-> nonce]]]
    <3>0. PICK n \in Nonces \ minted, kind \in {"aka", "digest"} :
                LET av    == Vector(i, kind, n)
                    nonce == ChallengeNonce(av, n)
                IN /\ minted' = minted \cup {n}
                   /\ store' = [store EXCEPT ![<<i, nonce>>] = av]
                   /\ out' = [out EXCEPT ![t] =
                                [to |-> m.from, code |-> 401,
                                 chal |-> [alg |-> Algorithm(av), nonce |-> nonce]]]
      BY <2>7
    <3>1. /\ minted' = minted \cup {n}
          /\ store' = [store EXCEPT ![<<i, n>>] = Vector(i, kind, n)]
          /\ out' = [out EXCEPT ![t] =
                       [to |-> m.from, code |-> 401,
                        chal |-> [alg |-> Algorithm(Vector(i, kind, n)), nonce |-> n]]]
      <4>1. ChallengeNonce(Vector(i, kind, n), n) = n
        BY ChallengeNonceIsMinted
      <4>2. QED
        BY <3>0, <4>1
    <3> DEFINE av == Vector(i, kind, n)
               ch == [alg |-> Algorithm(av), nonce |-> n]
    \* The fresh key (i, n) is no key a response or an AV already uses.
    <3>2. ASSUME NEW key \in Keys, key[2] \in minted PROVE store'[key] = store[key]
      BY <2>3, <3>1, <3>2 DEF AnsInv, TypeOK, Keys
    <3>3. \A u \in Threads \ {t} : out'[u] = out[u] /\ pc'[u] = pc[u]
      BY <2>1, <3>1 DEF AnsInv, TypeOK
    <3>4. out'[t] = [to |-> m.from, code |-> 401, chal |-> ch] /\ store'[<<i, n>>] = av
      BY <2>3, <3>1 DEF AnsInv, TypeOK, Keys
    <3>5. NoncesMinted'
      BY <2>1, <2>3, <3>1, <3>3, <3>4 DEF AnsInv, NoncesMinted, TypeOK, Keys
    \* A challenge already issued, or pending, keeps its AV.
    <3>6. ASSUME NEW c \in SipResponses, IsSubChallenge(c), c.chal.nonce \in minted,
                 Answerable(c)
          PROVE  Answerable(c)'
      <4>1. <<c.to, c.chal.nonce>> \in Keys
        BY <3>6 DEF IsSubChallenge, SipResponses, Challenges, Keys
      <4>2. QED
        BY <2>1, <3>2, <3>6, <4>1, AnswerableKept
    <3>7. ChallengeAnswerable'
      <4>1. SUFFICES ASSUME NEW c \in rsp', IsSubChallenge(c) PROVE Answerable(c)'
        BY DEF ChallengeAnswerable, Answerable, IsSubChallenge
      <4>2. c \in rsp
        BY <2>1
      <4>3. c \in SipResponses
        BY <4>2 DEF AnsInv, TypeOK
      <4>4. c.chal.nonce \in minted
        BY <4>1, <4>2 DEF AnsInv, NoncesMinted, IsSubChallenge
      <4>5. Answerable(c)
        BY <4>1, <4>2 DEF AnsInv, ChallengeAnswerable, Answerable, IsSubChallenge
      <4>6. QED
        BY <3>6, <4>1, <4>3, <4>4, <4>5
    \* The new challenge is answerable: it names the impi its AV is stored under.
    <3>8. PICK c \in SipResponses : c = out'[t]
      <4>1. m.from \in Senders
        BY <2>2 DEF Requests
      <4>2. ch \in Challenges
        <5>1. Algorithm(av) \in {"MD5", "AKAv1-MD5"}
          BY DEF Algorithm
        <5>2. QED
          BY <5>1 DEF Challenges
      <4>3. [to |-> m.from, code |-> 401, chal |-> ch] \in SipResponses
        BY <4>1, <4>2 DEF SipResponses
      <4>4. QED
        BY <3>4, <4>3
    <3>9. IsSubChallenge(c) => Answerable(c)'
      <4>1. HAVE IsSubChallenge(c)
      <4>2. m.from = i
        <5>1. c.to = m.from
          BY <3>4, <3>8
        <5>2. m.from \in Subs
          BY <4>1, <5>1 DEF IsSubChallenge
        <5>3. QED
          BY <2>3, <5>2
      <4>3. ClientResponse(i, ch) = [sec |-> av.sec, nonce |-> n]
        BY VectorAnswerable
      <4>4. av # None
        <5>1. av \in AVs
          BY <2>3, <3>0 DEF Vector, AVs, Secrets
        <5>2. QED
          BY <5>1, NoneIsNoVector
      <4>5. c.to = i /\ c.chal = ch
        BY <3>4, <3>8, <4>2
      <4>6. store'[<<c.to, c.chal.nonce>>] = av
        BY <3>4, <4>5
      <4>7. QED
        BY <4>3, <4>4, <4>5, <4>6 DEF Answerable
    \* Every pending challenge after the step is answerable: the new one, and
    \* the other threads' ones, which keep their AVs.
    <3>10. ASSUME NEW u \in Threads, NEW d, d = out'[u], pc'[u] = "send", IsSubChallenge(d)
           PROVE  Answerable(d)'
      <4>1. CASE u = t
        BY <3>8, <3>9, <3>10, <4>1
      <4>2. CASE u # t
        <5>1. pc[u] = "send" /\ d = out[u]
          BY <3>3, <3>10, <4>2
        <5>2. d \in SipResponses /\ d.chal.nonce \in minted /\ Answerable(d)
          <6>1. d \in SipResponses
            BY <5>1 DEF AnsInv, TypeOK, ThreadState
          <6>2. d.chal.nonce \in minted
            BY <3>10, <5>1 DEF AnsInv, NoncesMinted, IsSubChallenge
          <6>3. Answerable(d)
            BY <3>10, <5>1 DEF AnsInv, PendingAnswerable
          <6>4. QED
            BY <6>1, <6>2, <6>3
        <5>3. QED
          BY <3>6, <3>10, <5>2
      <4>3. QED
        BY <4>1, <4>2
    <3>11. PendingAnswerable'
      BY <3>10 DEF PendingAnswerable, Answerable
    <3>12. QED
      BY <2>5, <3>5, <3>7, <3>11
  <2>8. QED
    BY <1>2, <2>6, <2>7 DEF HssAnswer
<1>10. QED
  BY <1>1, <1>2, <1>3, <1>4, <1>5, <1>6, <1>7, <1>8, <1>9 DEF Next
\* Challenge round trip, for every set of subscribers, threads and nonces:
\* once create_challenge has sent a subscriber a 401 (lines 214-259 and 396),
\* the AV store holds under (its impi, the challenge's nonce) an AV that
\* accepts what the subscriber's UA computes, until the entry expires.  It
\* rests on fresh nonces (the key is new, so no other challenge's AV is
\* overwritten) and on every subscriber's REGISTER naming its own impi.
THEOREM ChallengeAnswerableSafe == Spec => []ChallengeAnswerable
<1>1. AnsInv => ChallengeAnswerable
  BY DEF AnsInv
<1>2. QED
  BY <1>1, AnsInit, AnsStep, PTL DEF Spec

=============================================================================
