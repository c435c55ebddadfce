---------------------------- MODULE ResyncRequest ----------------------------
(***************************************************************************)
(* What ChallengeBuilder promises CredentialSource about the resync token  *)
(* (spec section 2, "Resync request", and 4.3 steps 2-3): for a request    *)
(* with a credential header, CredentialSource is called once, with the     *)
(* value of one of the header's resync parameters forwarded verbatim, or   *)
(* with the empty token when the header has none.  Which parameter, when   *)
(* several disagree, is left open here (4.3 says the first; the code takes *)
(* the last).                                                              *)
(***************************************************************************)
CONSTANTS
    Headers,         \* credential headers, or none
    Forwardable(_),  \* the tokens a header allows to be forwarded
    None             \* CredentialSource not called yet

VARIABLES
    hdr,      \* the request's credential header
    pc,       \* "scan" before CredentialSource is called, "done" after
    hssAutn   \* the token CredentialSource was called with

reqVars == <<hdr, pc, hssAutn>>

ReqInit ==
    /\ hdr \in Headers
    /\ pc = "scan"
    /\ hssAutn = None

\* CredentialSource is called with a token the header allows.
AskCredentialSource ==
    /\ pc = "scan"
    /\ pc' = "done"
    /\ hssAutn' \in Forwardable(hdr)
    /\ UNCHANGED hdr

ReqSpec == ReqInit /\ [][AskCredentialSource]_reqVars /\ WF_reqVars(AskCredentialSource)

=============================================================================
