--------------------------- MODULE ReloadlyClient ---------------------------
(***************************************************************************)
(* ReloadlyService: the cached OAuth token, the refresh concurrent calls   *)
(* share, and the retry loop around every call.  Time is a counter; a call *)
(* is given up at its timeout, and a token is refreshed Skew before it     *)
(* expires.  What the calls ask for is left out, but whether they read     *)
(* (GET) or place an order (POST).                                         *)
(***************************************************************************)
EXTENDS Integers, Sequences, FiniteSets

CONSTANTS Callers,    \* concurrent users of the client
          Timeout,    \* REQUEST_TIMEOUT_MS, of a token request too
          Skew,       \* TOKEN_REFRESH_SKEW_MS
          Lives,      \* expires_in of the tokens Reloadly issues
          MaxRetries, \* MAX_TRANSIENT_RETRIES
          MaxTime, MaxCalls, MaxRevoked \* bounds: time, calls, revoked tokens

VARIABLES now,     \* Date.now()
          tokens,  \* tokens issued: when each expires at Reloadly, or was revoked
          cached,  \* cachedToken: a number of a token and expiresAt; token 0 for null
          refresh, \* tokenRefresh: when the token request left; -1 for null
          pc, call, \* what each caller awaits; its call's method, attempt, token,
                   \* when its request left and how often its order was placed
          calls    \* calls made

vars == <<now, tokens, cached, refresh, pc, call, calls>>

ASSUME TimesAssumption == Timeout \in Nat \ {0} /\ Skew \in Nat /\ MaxRetries \in Nat
ASSUME SkewAssumption == Skew >= 2 * Timeout                   \* 60 s and 30 s
ASSUME LivesAssumption == \A l \in Lives : l \in Nat /\ l > 2 * Timeout
ASSUME ClientBounds == MaxTime \in Nat /\ MaxCalls \in Nat /\ MaxRevoked \in Nat

NoToken == [token |-> 0, expiresAt |-> 0]
NoCall == [method |-> "none", attempt |-> 0, token |-> 0, at |-> 0, placed |-> 0]

Init ==
  /\ now = 0 /\ tokens = <<>> /\ cached = NoToken /\ refresh = -1
  /\ pc = [c \in Callers |-> "idle"]
  /\ call = [c \in Callers |-> NoCall]
  /\ calls = 0

-----------------------------------------------------------------------------
(* getAccessToken and execute: the token in the cache, or of the refresh     *)
(* under way, or of one this call starts; with it the request leaves.        *)

Attempt(c, w) ==
  IF now < cached.expiresAt
  THEN /\ pc' = [pc EXCEPT ![c] = "sent"]
       /\ call' = [call EXCEPT ![c] = [w EXCEPT !.token = cached.token, !.at = now]]
       /\ UNCHANGED refresh
  ELSE /\ pc' = [pc EXCEPT ![c] = "token"]
       /\ call' = [call EXCEPT ![c] = w]
       /\ refresh' = IF refresh < 0 THEN now ELSE refresh

Call(c, method) ==
  /\ pc[c] = "idle" /\ calls < MaxCalls /\ calls' = calls + 1
  /\ Attempt(c, [NoCall EXCEPT !.method = method])
  /\ UNCHANGED <<now, tokens, cached>>

\* The delay of a retry is over.
Retry(c) ==
  /\ pc[c] = "delay"
  /\ Attempt(c, [call[c] EXCEPT !.attempt = @ + 1])
  /\ UNCHANGED <<now, tokens, cached, calls>>

-----------------------------------------------------------------------------
(* fetchAccessToken                                                          *)

Waiting == {c \in Callers : pc[c] = "token"}

\* Mutant: nobody tells the callers that the token could not be fetched.
FetchFailsSilent ==
  /\ refresh >= 0
  /\ cached' = NoToken /\ refresh' = -1
  /\ UNCHANGED <<now, tokens, pc, call, calls>>

\* Mutant: the token is kept until it expires.
FetchOkUnskewed ==
  /\ refresh >= 0
  /\ \E life \in Lives, issued \in refresh..now :
       /\ tokens' = Append(tokens, [expires |-> issued + life, revoked |-> FALSE])
       /\ cached' = [token |-> Len(tokens'), expiresAt |-> now + life]
  /\ refresh' = -1
  /\ pc' = [c \in Callers |-> IF c \in Waiting THEN "sent" ELSE pc[c]]
  /\ call' = [c \in Callers |-> IF c \in Waiting
                                THEN [call[c] EXCEPT !.token = Len(tokens'), !.at = now] ELSE call[c]]
  /\ UNCHANGED <<now, calls>>

\* Its life runs from when Reloadly issued it, expiresAt from when it arrives.
FetchOk ==
  /\ refresh >= 0
  /\ \E life \in Lives, issued \in refresh..now :
       /\ tokens' = Append(tokens, [expires |-> issued + life, revoked |-> FALSE])
       /\ cached' = [token |-> Len(tokens'),
                     expiresAt |-> now + (IF life > Skew THEN life - Skew ELSE 0)]
  /\ refresh' = -1
  /\ pc' = [c \in Callers |-> IF c \in Waiting THEN "sent" ELSE pc[c]]
  /\ call' = [c \in Callers |-> IF c \in Waiting
                                THEN [call[c] EXCEPT !.token = Len(tokens'), !.at = now] ELSE call[c]]
  /\ UNCHANGED <<now, calls>>

\* The error has no HTTP status: it is transient to the retry loop.
FetchFails ==
  /\ refresh >= 0
  /\ cached' = NoToken /\ refresh' = -1
  /\ pc' = [c \in Callers |-> IF c \notin Waiting THEN pc[c]
                              ELSE IF call[c].method = "GET" /\ call[c].attempt < MaxRetries
                              THEN "delay" ELSE "idle"]
  /\ call' = [c \in Callers |-> IF pc'[c] = "idle" THEN NoCall ELSE call[c]]
  /\ UNCHANGED <<now, tokens, calls>>

-----------------------------------------------------------------------------
(* request: what becomes of an answer                                        *)

Dead(t) == tokens[t].revoked \/ now >= tokens[t].expires
End(c) == pc' = [pc EXCEPT ![c] = "idle"] /\ call' = [call EXCEPT ![c] = NoCall]

\* The answer arrives, or a rejection that is no transient error.
Answered(c) ==
  /\ pc[c] = "sent" /\ ~Dead(call[c].token)
  /\ End(c)
  /\ UNCHANGED <<now, tokens, cached, refresh, calls>>

\* 401: whatever token is cached by now is dropped; the loop does not retry.
Unauthorized(c) ==
  /\ pc[c] = "sent" /\ Dead(call[c].token)
  /\ cached' = NoToken
  /\ End(c)
  /\ UNCHANGED <<now, tokens, refresh, calls>>

\* Mutant: every call is retried.
TransientRetriesAll(c) ==
  /\ pc[c] = "sent"
  /\ \E placed \in 0..1 :
       /\ placed = 1 => call[c].method = "POST" /\ ~Dead(call[c].token)
       /\ LET w == [call[c] EXCEPT !.placed = @ + placed] IN
          IF w.attempt < MaxRetries
          THEN pc' = [pc EXCEPT ![c] = "delay"]
               /\ call' = [call EXCEPT ![c] = [w EXCEPT !.token = 0, !.at = 0]]
          ELSE End(c)
  /\ UNCHANGED <<now, tokens, cached, refresh, calls>>

\* 429, 5xx, no answer: a GET is tried again; an order may have been placed.
Transient(c) ==
  /\ pc[c] = "sent"
  /\ \E placed \in 0..1 :
       /\ placed = 1 => call[c].method = "POST" /\ ~Dead(call[c].token)
       /\ LET w == [call[c] EXCEPT !.placed = @ + placed] IN
          IF w.method = "GET" /\ w.attempt < MaxRetries
          THEN pc' = [pc EXCEPT ![c] = "delay"]
               /\ call' = [call EXCEPT ![c] = [w EXCEPT !.token = 0, !.at = 0]]
          ELSE End(c)
  /\ UNCHANGED <<now, tokens, cached, refresh, calls>>

-----------------------------------------------------------------------------
(* Time passes while no request is past its timeout; Reloadly revokes a      *)
(* token.                                                                    *)

Tick ==
  /\ now < MaxTime /\ now' = now + 1
  /\ refresh >= 0 => now < refresh + Timeout
  /\ \A c \in Callers : pc[c] = "sent" => now < call[c].at + Timeout
  /\ UNCHANGED <<tokens, cached, refresh, pc, call, calls>>

Revoke ==
  /\ Cardinality({t \in 1..Len(tokens) : tokens[t].revoked}) < MaxRevoked
  /\ \E t \in 1..Len(tokens) :
       ~Dead(t) /\ tokens' = [tokens EXCEPT ![t].revoked = TRUE]
  /\ UNCHANGED <<now, cached, refresh, pc, call, calls>>

-----------------------------------------------------------------------------
Answer(c) == Answered(c) \/ Unauthorized(c) \/ Transient(c)

Next ==
  \/ FetchOk \/ FetchFails \/ Tick \/ Revoke
  \/ \E c \in Callers :
       \/ \E method \in {"GET", "POST"} : Call(c, method)
       \/ Retry(c) \/ Answer(c)

Spec == Init /\ [][Next]_vars

\* Axios answers or times out, and a delay ends.
FairSpec ==
  /\ Spec
  /\ WF_vars(FetchOk \/ FetchFails)
  /\ \A c \in Callers : WF_vars(Retry(c)) /\ WF_vars(Answer(c))

-----------------------------------------------------------------------------
CallType == [method : {"none", "GET", "POST"}, attempt : 0..MaxRetries, token : 0..Len(tokens),
             at : 0..now, placed : {0, 1}]

\* The client's variables have their types, a request in flight carries a token
\* that was issued, and somebody waits for one only while one is being fetched.
TypeOK ==
  /\ now \in Nat /\ calls \in Nat
  /\ tokens \in Seq([expires : Nat, revoked : BOOLEAN])
  /\ cached \in [token : 0..Len(tokens), expiresAt : Nat]
  /\ refresh \in {-1} \cup 0..now
  /\ pc \in [Callers -> {"idle", "token", "sent", "delay"}]
  /\ call \in [Callers -> CallType]
  /\ \A c \in Callers :
       /\ pc[c] = "sent" => call[c].token # 0
       /\ pc[c] = "token" => refresh >= 0

\* However the calls, the refreshes they share and the clock interleave, a
\* request never meets the expiry of its token: one that is refused with 401
\* carried a token Reloadly had revoked.
UnrevokedAccepted ==
  \A c \in Callers :
    pc[c] = "sent" /\ Dead(call[c].token) => tokens[call[c].token].revoked

\* A call still under way has not placed an order: whatever is retried, no
\* order call is ever answered by two orders.
NeverPlacedTwice == \A c \in Callers : pc[c] # "idle" => call[c].placed = 0

\* Every call ends, whoever fetches the token it waits for and however that goes.
EveryCallEnds == \A c \in Callers : pc[c] # "idle" ~> pc[c] = "idle"
=============================================================================
