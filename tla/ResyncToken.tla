----------------------------- MODULE ResyncToken -----------------------------
(***************************************************************************)
(* The resync token of create_challenge (src/sprout/authentication.cpp,    *)
(* lines 180-195): when the request has an Authorization header, the loop  *)
(* walks the header's list of extension parameters (a circular list with a *)
(* sentinel, other_param) and copies the value of every parameter whose    *)
(* name equals STR_AUTN ignoring case; the HSS is then asked for an AV     *)
(* with the token found, or the empty string.                              *)
(*                                                                         *)
(* The list is a sequence, the pointer p an index into it (the sentinel is *)
(* index Len + 1).  Names and values are model values; Fold maps a name to *)
(* its lower-case form, which is what pj_stricmp compares.                 *)
(***************************************************************************)
EXTENDS Naturals, Sequences, FiniteSets

CONSTANTS
    ParamNames,   \* names of extension parameters
    ParamValues,  \* their values
    Fold,         \* a name in lower case
    StrAutn,      \* STR_AUTN
    Empty,        \* the empty std::string autn starts as
    None,         \* no Authorization header
    MaxParams     \* bound on the number of extension parameters

ASSUME ResyncAssumption ==
    /\ Fold \in [ParamNames -> ParamNames]
    /\ StrAutn \in ParamNames
    /\ Empty \notin ParamValues
    /\ MaxParams \in Nat

Params == [name : ParamNames, value : ParamValues]
ParamLists == UNION {[1..n -> Params] : n \in 0..MaxParams}
\* An Authorization header, by its extension parameters, or none.
Headers == [params : ParamLists] \cup {None}

VARIABLES
    hdr,      \* auth_hdr
    p,        \* the loop's pointer into other_param
    autn,     \* the local autn
    pc,       \* "scan" until the HSS is called, then "done"
    hssAutn   \* the token passed to hss->get_auth_vector

vars == <<hdr, p, autn, pc, hssAutn>>

\* Mutant: the name is compared case-sensitively (pj_strcmp).
IsAutnCaseSensitive(prm) == prm.name = StrAutn

\* pj_stricmp(&p->name, &STR_AUTN) == 0 (line 186).
IsAutn(prm) == Fold[prm.name] = Fold[StrAutn]

Init ==
    /\ hdr \in Headers
    /\ p = 1
    /\ autn = Empty
    /\ pc = "scan"
    /\ hssAutn = None

\* The loop's condition (line 184): p has not come back to the sentinel.
AtParam == hdr # None /\ p <= Len(hdr.params)

\* Mutant: p = p->next moved inside the if, so a parameter of another name
\* is never passed.
ScanParamAdvanceOnMatch ==
    /\ pc = "scan"
    /\ AtParam
    /\ autn' = IF IsAutn(hdr.params[p]) THEN hdr.params[p].value ELSE autn
    /\ p' = IF IsAutn(hdr.params[p]) THEN p + 1 ELSE p
    /\ UNCHANGED <<hdr, pc, hssAutn>>

\* One turn of the while loop (lines 184-191).
ScanParam ==
    /\ pc = "scan"
    /\ AtParam
    /\ autn' = IF IsAutn(hdr.params[p]) THEN hdr.params[p].value ELSE autn
    /\ p' = p + 1
    /\ UNCHANGED <<hdr, pc, hssAutn>>

\* The loop ends at the sentinel, or is skipped without a header (line
\* 180); the AV is requested with the token found (line 195).
GetAuthVector ==
    /\ pc = "scan"
    /\ ~AtParam
    /\ hssAutn' = autn
    /\ pc' = "done"
    /\ UNCHANGED <<hdr, p, autn>>

Next == ScanParam \/ GetAuthVector

\* The handler's thread runs the loop to its end.
Spec == Init /\ [][Next]_vars /\ WF_vars(Next)

-----------------------------------------------------------------------------
\* The indices of the header's resync parameters, by the spec's rule (spec
\* 4.3 step 2: names compared ignoring case), and the token the spec
\* expects (first match wins).
Matches(h) ==
    IF h = None THEN {}
    ELSE {k \in 1..Len(h.params) : Fold[h.params[k].name] = Fold[StrAutn]}
FirstAutn(h) ==
    IF Matches(h) = {} THEN Empty
    ELSE h.params[CHOOSE k \in Matches(h) : \A j \in Matches(h) : k <= j].value

\* The tokens the header allows to be forwarded (spec section 2 and 4.3
\* step 2): the value of any parameter whose name is STR_AUTN ignoring
\* case, verbatim, or the empty token if there is none.
ForwardableTokens(h) ==
    IF Matches(h) = {} THEN {Empty} ELSE {h.params[k].value : k \in Matches(h)}

Req == INSTANCE ResyncRequest WITH Forwardable <- ForwardableTokens

\* The scan implements the promise: every turn of the loop (lines 184-191)
\* is invisible to CredentialSource, the call of line 195 forwards the
\* value of one of the header's AUTN parameters or the empty token, and
\* the loop ends, so the call is made.
ResyncRefinesRequest == Req!ReqSpec

\* Resync forwarding (spec P6): whatever the order of the parameters and
\* the case of their names, a header whose AUTN parameters all carry the
\* same token gets that token passed to the HSS, and a header without one
\* (or no header) gets the empty token; the loop of lines 184-191 must
\* visit every parameter and compare names ignoring case.
ResyncForwarded ==
    (pc = "done" /\ \A i, j \in Matches(hdr) : hdr.params[i].value = hdr.params[j].value)
        => hssAutn = FirstAutn(hdr)

\* Spec 4.3 step 2: with several AUTN parameters the first one wins.  The
\* loop has no break, so the code forwards the last one.
ResyncFirstMatchWins ==
    pc = "done" => hssAutn = FirstAutn(hdr)

=============================================================================
