------------------------------ MODULE GraphAuth ------------------------------
(***************************************************************************)
(* The RM's Microsoft sign-in (backend/app/graph_auth.py, routers/auth.py):*)
(* sign-in flows, token requests and sign-outs that share one token cache  *)
(* in Redis.  Each operation loads the cache, lets MSAL work on its copy   *)
(* in a thread, and saves the copy if MSAL changed it; nothing locks the   *)
(* key in between.  A grant is what one authorization code is redeemed     *)
(* for: an account with its refresh token.                                 *)
(***************************************************************************)
CONSTANTS Calls,     \* the operations under way: requests, loops
          Grants,    \* the sign-ins Microsoft may grant, one per flow
          Early      \* the grants of an earlier session of the process

ASSUME GrantsAssumption == Early \subseteq Grants

VARIABLES store,     \* ms_graph:token_cache: the grants it holds
          flows,     \* ms_graph:flow:<state>: flows begun, not yet redeemed
          call,      \* call[c]: what c is doing and its copy of the cache
          issued,    \* history: grants given so far
          revoked    \* history: grants no one held when a sign-out ended

authVars == <<store, flows, call, issued, revoked>>

Steps == {"idle", "exchange", "signedIn", "silent", "refreshed", "refused",
          "token", "denied", "forget", "forgotten"}

Answers == {"token", "refreshed", "refused", "denied"}

Doing(at, cache, flow) == [at |-> at, cache |-> cache, flow |-> flow]

Idle == Doing("idle", {}, {})

AuthInit ==
    /\ store = Early /\ flows = {} /\ issued = Early /\ revoked = {}
    /\ call = [c \in Calls |-> Idle]

Step(c, at, cache) == call' = [call EXCEPT ![c] = Doing(at, cache, {})]

(* GET /auth/ms/login: the flow is parked in Redis, for ten minutes.       *)
Login(g) ==
    /\ g \notin issued
    /\ flows' = flows \cup {g}
    /\ UNCHANGED <<store, call, issued, revoked>>

FlowExpires(g) ==
    /\ g \in flows
    /\ flows' = flows \ {g}
    /\ UNCHANGED <<store, call, issued, revoked>>

(* GET /auth/ms/callback: the flow must still be there.  Microsoft takes a *)
(* code once, so of two callbacks of one flow the second is refused (it    *)
(* ends with nothing written); the flow goes before the cache is saved.    *)
CallbackLoad(c, g) ==
    /\ call[c] = Idle /\ g \in flows
    /\ call' = [call EXCEPT ![c] = Doing("exchange", store, {g})]
    /\ UNCHANGED <<store, flows, issued, revoked>>

(* The copy gets the new account; the same account signed in again replaces*)
(* its old token.                                                          *)
Exchange(c) ==
    /\ call[c].at = "exchange" /\ call[c].flow \cap issued = {}
    /\ flows' = flows \ call[c].flow
    /\ issued' = issued \cup call[c].flow
    /\ \E kept \in {call[c].cache, {}} :
          Step(c, "signedIn", kept \cup call[c].flow)
    /\ UNCHANGED <<store, revoked>>

(* Microsoft's refusal: the flow is gone.  MSAL raised: it is still there. *)
ExchangeFails(c) ==
    /\ call[c].at = "exchange"
    /\ flows' \in {flows, flows \ call[c].flow}
    /\ Step(c, "idle", {})
    /\ UNCHANGED <<store, issued, revoked>>

SignInSave(c) ==
    /\ call[c].at = "signedIn"
    /\ store' = call[c].cache
    /\ Step(c, "idle", {})
    /\ UNCHANGED <<flows, issued, revoked>>

(* get_access_token: no account in the cache, no token; otherwise MSAL     *)
(* answers from the copy, or refreshes, which changes the copy.  A refusal *)
(* may change it too (the account with or without its token): the copy is  *)
(* saved before the answer is looked at.                                   *)
TokenLoad(c) ==
    /\ call[c] = Idle
    /\ IF store = {} THEN Step(c, "denied", {}) ELSE Step(c, "silent", store)
    /\ UNCHANGED <<store, flows, issued, revoked>>

TokenSilent(c, answer) ==
    /\ call[c].at = "silent"
    /\ \E kept \in {call[c].cache, {}} :
          /\ Step(c, answer, kept)
          /\ answer = "refreshed" => kept = call[c].cache
          /\ answer \in {"token", "denied"} => kept = {}
    /\ UNCHANGED <<store, flows, issued, revoked>>

TokenSave(c) ==
    /\ call[c].at \in {"refreshed", "refused"}
    /\ store' = call[c].cache
    /\ Step(c, IF call[c].at = "refreshed" THEN "token" ELSE "denied", {})
    /\ UNCHANGED <<flows, issued, revoked>>

(* The caller has used the token, or has been told that nobody is signed in*)
TokenDone(c) ==
    /\ call[c].at \in {"token", "denied"}
    /\ Step(c, "idle", {})
    /\ UNCHANGED <<store, flows, issued, revoked>>

(* POST /auth/ms/logout: forget every account of the copy, save the copy if*)
(* it had any, delete the key.                                             *)
SignOutLoad(c) ==
    /\ call[c] = Idle
    /\ Step(c, IF store = {} THEN "forgotten" ELSE "forget", {})
    /\ UNCHANGED <<store, flows, issued, revoked>>

SignOutSave(c) ==
    /\ call[c].at = "forget"
    /\ store' = {}
    /\ Step(c, "forgotten", {})
    /\ UNCHANGED <<flows, issued, revoked>>

Held == UNION {call[c].cache : c \in Calls}

SignOutKeepsKey(c) ==
    /\ call[c].at = "forgotten"
    /\ Step(c, "idle", {})
    /\ revoked' = revoked \cup (issued \ Held)
    /\ UNCHANGED <<store, flows, issued>>

SignOutDelete(c) ==
    /\ call[c].at = "forgotten"
    /\ store' = {}
    /\ Step(c, "idle", {})
    /\ revoked' = revoked \cup (issued \ Held)
    /\ UNCHANGED <<flows, issued>>

TokenStep(c) ==
    \/ TokenLoad(c) \/ TokenSave(c)
    \/ \E answer \in Answers : TokenSilent(c, answer)

SignInStep(c) ==
    \/ \E g \in Grants : CallbackLoad(c, g)
    \/ Exchange(c) \/ ExchangeFails(c) \/ SignInSave(c)

SignOutStep(c) == SignOutLoad(c) \/ SignOutSave(c) \/ SignOutDelete(c)

(* A restart of the process ends the operations; Redis keeps both keys.     *)
AuthRestart ==
    /\ call' = [c \in Calls |-> Idle]
    /\ UNCHANGED <<store, flows, issued, revoked>>

AuthNext ==
    \/ \E g \in Grants : Login(g) \/ FlowExpires(g)
    \/ \E c \in Calls :
          TokenStep(c) \/ TokenDone(c) \/ SignInStep(c) \/ SignOutStep(c)
    \/ AuthRestart

AuthSpec == AuthInit /\ [][AuthNext]_authVars

-----------------------------------------------------------------------------
AuthTypeOK ==
    /\ store \subseteq Grants /\ flows \subseteq Grants
    /\ issued \subseteq Grants /\ revoked \subseteq Grants
    /\ call \in [Calls -> [at : Steps, cache : SUBSET Grants,
                        flow : SUBSET Grants]]

(* A sign-out is final: a grant that no operation under way had a copy of  *)
(* when the sign-out deleted the cache never comes back into it, whichever *)
(* refresh or callback saves its own copy later.  (A refresh that had one  *)
(* does bring it back.)                                                    *)
SignOutSticks == store \cap revoked = {}
=============================================================================
