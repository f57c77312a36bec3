-------------------------- MODULE AuthInterceptor --------------------------
(***************************************************************************)
(* The browser's side of a session: AuthInterceptor, which answers a 401   *)
(* by one refresh and holds back the calls that meet a 401 meanwhile, and  *)
(* AuthService's refresh, login and logout.  JavaScript runs one callback  *)
(* at a time: an action is what an answer, a click or a call runs at once. *)
(*                                                                         *)
(* Access tokens are numbered in the order the backend issues them and     *)
(* expire in that order; the refresh token issued with one has its number. *)
(* A call occupies a slot; the logout() that a failed call makes takes     *)
(* over its slot, since the call ends in the same callback.                *)
(***************************************************************************)
EXTENDS Integers

CONSTANTS
  Slots,       \* calls that may be under way at once
  MaxTokens    \* bound: access tokens issued

ASSUME TokensAssumption == MaxTokens \in Nat \ {0}

VARIABLES
  token,         \* localStorage access_token; 0 when there is none
  issued,        \* the last access token the backend issued
  expired,       \* access tokens up to this one have expired
  session,       \* the refresh token that the backend and the cookie agree on, or 0
  isRefreshing,
  pc,            \* [Slots -> Labels]
  kind,          \* [Slots -> {"api", "logout"}]
  carries,       \* [Slots -> Token]: what the call is sent with, or 0
  refreshFailed, \* history: a refresh has failed
  unsubscribed,  \* history: a call was unsubscribed
  retryFailed    \* history: a call failed when repeated behind its own refresh

backend == <<issued, expired, session>>
history == <<refreshFailed, unsubscribed, retryFailed>>
vars    == <<token, backend, isRefreshing, pc, kind, carries, history>>

Token  == 0..MaxTokens
Labels == {"idle", "sent", "refresh", "queued", "retry", "replay"}

TypeOK ==
  /\ token \in Token /\ issued \in Token /\ expired \in Token /\ session \in Token
  /\ isRefreshing \in BOOLEAN
  /\ pc \in [Slots -> Labels] /\ kind \in [Slots -> {"api", "logout"}]
  /\ carries \in [Slots -> Token]
  /\ refreshFailed \in BOOLEAN /\ unsubscribed \in BOOLEAN /\ retryFailed \in BOOLEAN

Init ==
  /\ issued = 1 /\ token \in 0..1 /\ expired \in 0..1 /\ session \in 0..1
  /\ isRefreshing = FALSE
  /\ pc = [r \in Slots |-> "idle"] /\ kind = [r \in Slots |-> "api"]
  /\ carries = [r \in Slots |-> 0]
  /\ refreshFailed = FALSE /\ unsubscribed = FALSE /\ retryFailed = FALSE
-----------------------------------------------------------------------------
(* An API call, or the logout button: intercept() attaches the token.       *)
Call(r, k) ==
  /\ pc[r] = "idle" /\ pc' = [pc EXCEPT ![r] = "sent"]
  /\ k = "logout" => token # 0
  /\ kind' = [kind EXCEPT ![r] = k] /\ carries' = [carries EXCEPT ![r] = token]
  /\ UNCHANGED <<token, backend, isRefreshing, history>>

(* The slot is free, with nothing left of the call that was in it.          *)
Vacate(r) ==
  /\ pc' = [pc EXCEPT ![r] = "idle"]
  /\ kind' = [kind EXCEPT ![r] = "api"] /\ carries' = [carries EXCEPT ![r] = 0]

(* The call completes, or fails for its subscriber; after a logout both     *)
(* clear the token, and the backend may have ended the session.             *)
End(r) ==
  /\ token' = IF kind[r] = "logout" THEN 0 ELSE token
  /\ session' \in {session} \cup
       IF kind[r] = "logout" /\ carries[r] > expired THEN {0} ELSE {}
  /\ Vacate(r)
  /\ UNCHANGED <<issued, expired>>

(* An answer other than 401, or a network error.                            *)
Answer(r) ==
  /\ pc[r] = "sent" /\ End(r)
  /\ UNCHANGED <<isRefreshing, history>>

(* handle401: wait for the refresh under way, or start one.                 *)
UnauthorizedUnguarded(r) ==
  /\ pc[r] = "sent" /\ carries[r] <= expired
  /\ pc' = [pc EXCEPT ![r] = IF isRefreshing THEN "queued" ELSE "refresh"]
  /\ carries' = [carries EXCEPT ![r] = session]
  /\ UNCHANGED <<token, backend, isRefreshing, kind, history>>

Unauthorized(r) ==
  /\ pc[r] = "sent" /\ carries[r] <= expired
  /\ \/ /\ isRefreshing /\ pc' = [pc EXCEPT ![r] = "queued"]
        /\ carries' = [carries EXCEPT ![r] = 0]
        /\ UNCHANGED isRefreshing
     \/ /\ ~isRefreshing /\ isRefreshing' = TRUE
        /\ pc' = [pc EXCEPT ![r] = "refresh"]
        /\ carries' = [carries EXCEPT ![r] = session]
  /\ UNCHANGED <<token, backend, kind, history>>

(* The refresh is answered with tokens: applyToken, and the gate opens for  *)
(* the calls that wait.                                                     *)
RefreshedAlone(r) ==
  /\ pc[r] = "refresh" /\ session # 0 /\ carries[r] = session /\ issued < MaxTokens
  /\ issued' = issued + 1 /\ session' = issued' /\ token' = issued'
  /\ isRefreshing' = FALSE
  /\ pc' = [pc EXCEPT ![r] = "retry"] /\ carries' = [carries EXCEPT ![r] = issued']
  /\ UNCHANGED <<expired, kind, history>>

Refreshed(r) ==
  /\ pc[r] = "refresh" /\ session # 0 /\ carries[r] = session /\ issued < MaxTokens
  /\ issued' = issued + 1 /\ session' = issued' /\ token' = issued'
  /\ isRefreshing' = FALSE
  /\ pc' = [q \in Slots |-> IF q = r THEN "retry"
                            ELSE IF pc[q] = "queued" THEN "replay" ELSE pc[q]]
  /\ carries' = [q \in Slots |-> IF q = r \/ pc[q] = "queued" THEN issued'
                                 ELSE carries[q]]
  /\ UNCHANGED <<expired, kind, history>>

(* The catchError behind the refresh: logout(), which intercept() sends     *)
(* with the token there is, and the call fails.                             *)
ForceLogoutSilently(r) ==
  /\ isRefreshing' = FALSE /\ Vacate(r)
  /\ UNCHANGED <<token, issued, expired>>

ForceLogout(r) ==
  /\ isRefreshing' = FALSE
  /\ pc' = [pc EXCEPT ![r] = "sent"] /\ kind' = [kind EXCEPT ![r] = "logout"]
  /\ carries' = [carries EXCEPT ![r] = token]
  /\ token' = IF kind[r] = "logout" THEN 0 ELSE token
  /\ UNCHANGED <<issued, expired>>

(* The refresh fails; when its answer is lost, the backend has rotated the  *)
(* refresh token and the cookie is the old one.                             *)
RefreshFails(r) ==
  /\ pc[r] = "refresh" /\ ForceLogout(r)
  /\ session' \in {0, session} /\ refreshFailed' = TRUE
  /\ UNCHANGED <<unsubscribed, retryFailed>>

(* The call that has refreshed is repeated inside the observable that       *)
(* catchError is behind; the calls that waited are not.                     *)
RetryEnds(r) ==
  /\ pc[r] = "retry"
  /\ \/ End(r) /\ UNCHANGED <<isRefreshing, history>>
     \/ ForceLogout(r) /\ retryFailed' = TRUE /\ UNCHANGED <<session, refreshFailed, unsubscribed>>

ReplayEnds(r) ==
  /\ pc[r] = "replay" /\ End(r) /\ UNCHANGED <<isRefreshing, history>>

(* switchMap, takeUntil or takeUntilDestroyed unsubscribes from an API call.*)
Unsubscribe(r) ==
  /\ pc[r] # "idle" /\ kind[r] = "api" /\ Vacate(r)
  /\ unsubscribed' = TRUE
  /\ UNCHANGED <<token, backend, isRefreshing, refreshFailed, retryFailed>>
-----------------------------------------------------------------------------
Login ==
  /\ issued < MaxTokens /\ issued' = issued + 1
  /\ session' = issued' /\ token' = issued'
  /\ UNCHANGED <<expired, isRefreshing, pc, kind, carries, history>>

TokenExpires ==
  /\ expired < issued /\ expired' = expired + 1
  /\ UNCHANGED <<token, issued, session, isRefreshing, pc, kind, carries, history>>

SessionEnds ==
  /\ session # 0 /\ session' = 0
  /\ UNCHANGED <<token, issued, expired, isRefreshing, pc, kind, carries, history>>

Network(r) ==
  \/ Answer(r) \/ Unauthorized(r) \/ Refreshed(r) \/ RefreshFails(r)
  \/ RetryEnds(r) \/ ReplayEnds(r)

Next ==
  \/ Login \/ TokenExpires \/ SessionEnds
  \/ \E r \in Slots : Network(r) \/ Unsubscribe(r) \/ Call(r, "api") \/ Call(r, "logout")

Spec == Init /\ [][Next]_vars

(* The browser settles every call that it has sent.                         *)
FairSpec == Spec /\ \A r \in Slots : WF_vars(Network(r))
-----------------------------------------------------------------------------
(* Until a call fails when it is repeated behind its own refresh, one       *)
(* refresh is under way at a time, however many calls meet a 401.           *)
SingleRefresh ==
  retryFailed \/ \A q, r \in Slots : pc[q] = "refresh" /\ pc[r] = "refresh" => q = r

(* A call that waits for a refresh is repeated, and every call ends, as     *)
(* long as no refresh or repeated call fails and nothing is unsubscribed.   *)
CallsEnd ==
  \A r \in Slots :
    pc[r] # "idle" ~> pc[r] = "idle" \/ refreshFailed \/ unsubscribed \/ retryFailed

(* "Refresh fallito ...: logout forzato": a logout that is under way, or    *)
(* waits for a refresh that is, leaves the browser without a token even     *)
(* when it meets a 401, or that refresh or its own fails.                   *)
UnderWay(r) ==
  \/ pc[r] \in {"sent", "refresh", "retry", "replay"}
  \/ pc[r] = "queued" /\ \E q \in Slots : pc[q] = "refresh"

LogoutClears ==
  \A r \in Slots : UnderWay(r) /\ kind[r] = "logout" ~> token = 0 \/ unsubscribed

(* "should queue concurrent 401s and perform single refresh", without the   *)
(* condition of SingleRefresh. No run lists it: as an INVARIANT of          *)
(* AuthInterceptor.cfg it is refuted, because a repeated call that fails    *)
(* resets isRefreshing while another refresh may be under way.              *)
OneRefresh ==
  \A q, r \in Slots : pc[q] = "refresh" /\ pc[r] = "refresh" => q = r
=============================================================================
