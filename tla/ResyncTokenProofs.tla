-------------------------- MODULE ResyncTokenProofs --------------------------
(***************************************************************************)
(* Proofs about the AUTN scan of create_challenge, for every set of names, *)
(* every case folding and every bound on the header's length.             *)
(*                                                                         *)
(* ResyncForwarded is about the loop's result, a fold over the parameter   *)
(* list; it is proved without induction over lists by a loop invariant on  *)
(* the states the loop passes through: of the parameters already visited   *)
(* (indices below p), autn holds the value of the last that matched, or    *)
(* Empty if none did, and those that matched have a least one.  When the   *)
(* loop reaches the sentinel every parameter has been visited.             *)
(***************************************************************************)
EXTENDS ResyncToken, SequenceTheorems, TLAPS

USE ResyncAssumption

\* The resync parameters the loop has already passed.
Scanned == {k \in Matches(hdr) : k < p}

\* Where the loop pointer can be: on a parameter or on the sentinel.
PointerInRange ==
    IF hdr = None THEN p = 1 ELSE p \in 1..Len(hdr.params) + 1

\* autn holds the value of the last resync parameter passed, or Empty.
AutnIsLastScanned ==
    IF Scanned = {} THEN autn = Empty
    ELSE \E k \in Scanned : /\ autn = hdr.params[k].value
                            /\ \A j \in Scanned : j <= k

\* The resync parameters passed have a first one.
ScannedHasFirst ==
    Scanned # {} => \E k \in Scanned : \A j \in Scanned : k <= j

ScanInv ==
    /\ hdr \in Headers
    /\ pc \in {"scan", "done"}
    /\ PointerInRange
    /\ AutnIsLastScanned
    /\ ScannedHasFirst
    /\ pc = "done" => ~AtParam /\ hssAutn = autn

\* The parameters of a header are a sequence of Params.
LEMMA ParamsAreSeq ==
    ASSUME NEW h \in Headers, h # None
    PROVE  h.params \in Seq(Params)
<1>1. PICK n \in 0..MaxParams : h.params \in [1..n -> Params]
  BY DEF Headers, ParamLists
<1>2. QED
  BY <1>1

LEMMA InitScanInv == Init => ScanInv
<1> SUFFICES ASSUME Init PROVE ScanInv
  OBVIOUS
<1>1. Scanned = {}
  BY DEF Init, Scanned, Matches
<1>2. QED
  BY <1>1 DEF Init, ScanInv, PointerInRange, AutnIsLastScanned, ScannedHasFirst

\* One turn of the loop adds the parameter under p to Scanned if it matches.
LEMMA ScanParamInv == ScanInv /\ ScanParam => ScanInv'
<1> SUFFICES ASSUME ScanInv, ScanParam PROVE ScanInv'
  OBVIOUS
<1> DEFINE prm == hdr.params[p]
<1>1. hdr # None /\ p \in 1..Len(hdr.params) /\ hdr.params \in Seq(Params)
  BY ParamsAreSeq DEF ScanParam, AtParam, ScanInv, PointerInRange
<1>2. Scanned' = IF IsAutn(prm) THEN Scanned \cup {p} ELSE Scanned
  BY <1>1 DEF ScanParam, Scanned, Matches, IsAutn
<1>3. PointerInRange'
  BY <1>1 DEF ScanParam, PointerInRange
<1>4. CASE IsAutn(prm)
  <2>1. autn' = prm.value /\ \A j \in Scanned' : j <= p
    <3>1. autn' = prm.value
      BY <1>4 DEF ScanParam
    <3>2. \A j \in Scanned : j \in Nat /\ j < p
      BY <1>1 DEF Scanned, Matches
    <3>3. QED
      BY <1>1, <1>2, <3>1, <3>2
  <2>2. p \in Scanned'
    BY <1>2, <1>4
  <2>3. AutnIsLastScanned'
    BY <2>1, <2>2 DEF AutnIsLastScanned, ScanParam
  <2>4. ScannedHasFirst'
    <3>1. CASE Scanned = {}
      BY <1>1, <1>2, <1>4, <3>1 DEF ScannedHasFirst
    <3>2. CASE Scanned # {}
      <4>1. PICK k \in Scanned : \A j \in Scanned : k <= j
        BY <3>2 DEF ScanInv, ScannedHasFirst
      <4>2. k < p /\ k \in Nat
        BY <1>1 DEF Scanned, Matches
      <4>3. QED
        BY <1>1, <1>2, <1>4, <4>1, <4>2 DEF ScannedHasFirst
    <3>3. QED
      BY <3>1, <3>2
  <2>5. QED
    BY <1>3, <2>3, <2>4 DEF ScanInv, ScanParam
<1>5. CASE ~IsAutn(prm)
  BY <1>2, <1>3, <1>5 DEF ScanInv, ScanParam, AutnIsLastScanned, ScannedHasFirst
<1>6. QED
  BY <1>4, <1>5

LEMMA StepScanInv == ScanInv /\ [Next]_vars => ScanInv'
<1> SUFFICES ASSUME ScanInv, [Next]_vars PROVE ScanInv'
  OBVIOUS
<1>1. CASE ScanParam
  BY <1>1, ScanParamInv
<1>2. CASE GetAuthVector
  BY <1>2 DEF GetAuthVector, ScanInv, PointerInRange, AtParam, Scanned,
             AutnIsLastScanned, ScannedHasFirst
<1>3. CASE UNCHANGED vars
  BY <1>3 DEF vars, ScanInv, PointerInRange, AtParam, Scanned,
             AutnIsLastScanned, ScannedHasFirst
<1>4. QED
  BY <1>1, <1>2, <1>3 DEF Next

\* When the loop has reached the sentinel it has passed every resync parameter.
LEMMA SentinelScannedAll ==
    ASSUME ScanInv, ~AtParam
    PROVE  Scanned = Matches(hdr)
<1>1. CASE hdr = None
  BY <1>1 DEF Scanned, Matches
<1>2. CASE hdr # None
  <2>1. p = Len(hdr.params) + 1 /\ hdr.params \in Seq(Params)
    BY <1>2, ParamsAreSeq DEF ScanInv, PointerInRange, AtParam
  <2>2. QED
    BY <2>1 DEF Scanned, Matches
<1>3. QED
  BY <1>1, <1>2

LEMMA DoneScannedAll ==
    ASSUME ScanInv, pc = "done"
    PROVE  Scanned = Matches(hdr)
BY SentinelScannedAll DEF ScanInv

LEMMA ScanInvForwarded == ScanInv => ResyncForwarded
<1> SUFFICES ASSUME ScanInv, pc = "done",
                    \A i, j \in Matches(hdr) : hdr.params[i].value = hdr.params[j].value
             PROVE  hssAutn = FirstAutn(hdr)
  BY DEF ResyncForwarded
<1>1. Scanned = Matches(hdr) /\ hssAutn = autn
  BY DoneScannedAll DEF ScanInv
<1>2. CASE Matches(hdr) = {}
  BY <1>1, <1>2 DEF ScanInv, AutnIsLastScanned, FirstAutn
<1>3. CASE Matches(hdr) # {}
  <2> DEFINE m == CHOOSE k \in Matches(hdr) : \A j \in Matches(hdr) : k <= j
  <2>1. \E k \in Matches(hdr) : \A j \in Matches(hdr) : k <= j
    BY <1>1, <1>3 DEF ScanInv, ScannedHasFirst
  <2>2. m \in Matches(hdr)
    BY <2>1
  <2>3. PICK k \in Matches(hdr) : autn = hdr.params[k].value
    BY <1>1, <1>3 DEF ScanInv, AutnIsLastScanned
  <2>4. FirstAutn(hdr) = hdr.params[m].value
    BY <1>3 DEF FirstAutn
  <2>5. QED
    BY <1>1, <2>2, <2>3, <2>4
<1>4. QED
  BY <1>2, <1>3

\* Resync forwarding (spec P6), for every header: the loop of lines 184-191
\* visits every extension parameter and compares names ignoring case, so a
\* header whose AUTN parameters all carry one token has that token passed
\* to hss->get_auth_vector, and a header without one passes the empty token.
THEOREM ResyncForwardedSafe == Spec => []ResyncForwarded
<1>1. ScanInv => ResyncForwarded
  BY ScanInvForwarded
<1>2. QED
  BY <1>1, InitScanInv, StepScanInv, PTL DEF Spec

\* What the code forwards when the AUTN parameters disagree: the loop has
\* no break (lines 184-191), so the HSS is given the value of the LAST
\* AUTN parameter of the header, not the first that spec 4.3 asks for.
THEOREM LastMatchForwarded ==
    Spec => [](pc = "done" /\ Matches(hdr) # {} =>
                 \E k \in Matches(hdr) : /\ hssAutn = hdr.params[k].value
                                         /\ \A j \in Matches(hdr) : j <= k)
<1>1. ScanInv => (pc = "done" /\ Matches(hdr) # {} =>
                 \E k \in Matches(hdr) : /\ hssAutn = hdr.params[k].value
                                         /\ \A j \in Matches(hdr) : j <= k)
  BY DoneScannedAll DEF ScanInv, AutnIsLastScanned
<1>2. QED
  BY <1>1, InitScanInv, StepScanInv, PTL DEF Spec

-----------------------------------------------------------------------------
(* The scan implements ResyncRequest (safety part of ResyncRefinesRequest; *)
(* the weak fairness is checked by TLC).                                   *)

\* At the sentinel autn is a token the header allows to be forwarded.
LEMMA AutnForwardable ==
    ASSUME ScanInv, ~AtParam
    PROVE  autn \in ForwardableTokens(hdr)
<1>1. Scanned = Matches(hdr)
  BY SentinelScannedAll
<1>2. CASE Matches(hdr) = {}
  BY <1>1, <1>2 DEF ScanInv, AutnIsLastScanned, ForwardableTokens
<1>3. CASE Matches(hdr) # {}
  <2>1. PICK k \in Matches(hdr) : autn = hdr.params[k].value
    BY <1>1, <1>3 DEF ScanInv, AutnIsLastScanned
  <2>2. QED
    BY <1>3, <2>1 DEF ForwardableTokens
<1>4. QED
  BY <1>2, <1>3

LEMMA ReqStepMapped ==
    ScanInv /\ [Next]_vars => [Req!AskCredentialSource]_(Req!reqVars)
<1> SUFFICES ASSUME ScanInv, [Next]_vars
             PROVE  [Req!AskCredentialSource]_(Req!reqVars)
  OBVIOUS
<1>1. CASE ScanParam
  BY <1>1 DEF ScanParam, Req!reqVars
<1>2. CASE GetAuthVector
  <2>1. autn \in ForwardableTokens(hdr)
    BY <1>2, AutnForwardable DEF GetAuthVector
  <2>2. QED
    BY <1>2, <2>1 DEF GetAuthVector, Req!AskCredentialSource
<1>3. CASE UNCHANGED vars
  BY <1>3 DEF vars, Req!reqVars
<1>4. QED
  BY <1>1, <1>2, <1>3 DEF Next

\* Every behaviour of the scan is one ResyncRequest allows: the turns of
\* the loop (lines 184-191) are invisible to CredentialSource, and the
\* call of line 195 is made once, with the value of one of the header's
\* AUTN parameters forwarded verbatim or with the empty token, for every
\* header, case folding and bound.
THEOREM ScanRefinesRequest ==
    Spec => Req!ReqInit /\ [][Req!AskCredentialSource]_(Req!reqVars)
<1>1. Init => Req!ReqInit
  BY DEF Init, Req!ReqInit
<1>2. QED
  BY <1>1, InitScanInv, StepScanInv, ReqStepMapped, PTL DEF Spec

=============================================================================
