--------------------------- MODULE ReloadlyProofs ---------------------------
(***************************************************************************)
(* For any callers, timeouts, skew and token lives that meet the           *)
(* assumptions of ReloadlyClient, a request never meets the expiry of its  *)
(* token and no call places two orders.  The argument is about time: a     *)
(* token refresh takes at most a timeout, so a token outlives expiresAt by *)
(* a timeout (TokensLast), and a request that leaves before expiresAt is   *)
(* answered within a timeout (RequestsInTime).                             *)
(***************************************************************************)
EXTENDS ReloadlyClient, TLAPS, SequenceTheorems

\* A cached token is good for a timeout past expiresAt; no token, no expiry.
TokensLast ==
  IF cached.token = 0 THEN cached.expiresAt = 0
  ELSE tokens[cached.token].expires >= cached.expiresAt + Timeout

\* A token request is answered within a timeout.
RefreshInTime == refresh >= 0 => now <= refresh + Timeout

\* So is a call's, whose token outlives it.
RequestsInTime ==
  \A c \in Callers : pc[c] = "sent" =>
    /\ now <= call[c].at + Timeout
    /\ tokens[call[c].token].expires > call[c].at + Timeout

\* A call waits for its next attempt only if it has one.
RetriesLeft == \A c \in Callers : pc[c] = "delay" => call[c].attempt < MaxRetries

IInv == TypeOK /\ TokensLast /\ RefreshInTime /\ RequestsInTime /\ RetriesLeft /\ NeverPlacedTwice

-----------------------------------------------------------------------------
LEMMA InitHolds == Init => IInv
BY TimesAssumption DEF Init, IInv, TypeOK, TokensLast, RefreshInTime, RequestsInTime, RetriesLeft,
   NeverPlacedTwice, CallType, NoToken, NoCall

\* What the types say of the client's own variables ...
LEMMA ClientTypes ==
  ASSUME TypeOK
  PROVE  /\ now \in Nat /\ Len(tokens) \in Nat
         /\ \A t \in 1..Len(tokens) : tokens[t].expires \in Nat
         /\ cached.token \in 0..Len(tokens) /\ cached.expiresAt \in Nat
         /\ refresh >= 0 => refresh \in 0..now
<1>1. tokens \in Seq([expires : Nat, revoked : BOOLEAN])
  BY DEF TypeOK
<1>2. Len(tokens) \in Nat
  BY <1>1, LenProperties
<1>3. \A t \in 1..Len(tokens) : tokens[t] \in [expires : Nat, revoked : BOOLEAN]
  BY <1>1, ElementOfSeq
<1> QED BY <1>2, <1>3 DEF TypeOK

\* ... and of one call.
LEMMA OneCall ==
  ASSUME TypeOK, NEW c \in Callers
  PROVE  /\ call[c] \in CallType /\ call[c].at \in Nat /\ call[c].attempt \in 0..MaxRetries
         /\ pc[c] = "sent" => call[c].token \in 1..Len(tokens)
<1>1. now \in Nat /\ Len(tokens) \in Nat
  BY ClientTypes
<1> QED BY <1>1 DEF TypeOK, CallType

\* A cached token that is handed out outlives the request by more than a timeout.
LEMMA HandedOut ==
  ASSUME TypeOK, TokensLast, now < cached.expiresAt
  PROVE  cached.token \in 1..Len(tokens) /\ tokens[cached.token].expires > now + Timeout
<1>1. now \in Nat /\ cached.expiresAt \in Nat /\ Timeout \in Nat /\ cached.token \in 0..Len(tokens)
  BY ClientTypes, TimesAssumption
<1>2. cached.token # 0
  BY <1>1 DEF TokensLast
<1>3. cached.token \in 1..Len(tokens) /\ tokens[cached.token].expires \in Nat
  BY <1>1, <1>2, ClientTypes
<1>4. tokens[cached.token].expires >= cached.expiresAt + Timeout
  BY <1>2 DEF TokensLast
<1> QED BY <1>1, <1>3, <1>4

-----------------------------------------------------------------------------
(* Steps of one caller that change neither time nor tokens: what they leave. *)

LEMMA CallerStep ==
  ASSUME IInv, NEW c \in Callers, NEW l \in {"idle", "token", "sent", "delay"}, NEW w \in CallType,
         pc' = [pc EXCEPT ![c] = l], call' = [call EXCEPT ![c] = w],
         UNCHANGED <<now, tokens>>, calls' \in Nat,
         cached' \in {cached, NoToken}, refresh' \in {refresh, now}, refresh >= 0 => refresh' = refresh,
         w.placed = 0,
         l = "token" => refresh' >= 0,
         l = "delay" => w.attempt < MaxRetries,
         l = "sent" => /\ w.token # 0 /\ now <= w.at + Timeout
                       /\ tokens[w.token].expires > w.at + Timeout
  PROVE  IInv'
<1>0. TypeOK /\ TokensLast /\ RefreshInTime /\ RequestsInTime /\ RetriesLeft /\ NeverPlacedTwice
  BY DEF IInv
<1>1. /\ pc'[c] = l /\ call'[c] = w
      /\ \A d \in Callers : d # c => pc'[d] = pc[d] /\ call'[d] = call[d]
  BY <1>0 DEF TypeOK
<1>2. now \in Nat /\ Timeout \in Nat /\ Len(tokens) \in Nat
  BY <1>0, ClientTypes, TimesAssumption
<1>3. TypeOK'
  <2>1. now' \in Nat /\ calls' \in Nat /\ tokens' \in Seq([expires : Nat, revoked : BOOLEAN])
        /\ refresh' \in {-1} \cup 0..now'
    BY <1>0, <1>2 DEF TypeOK
  <2>2. cached' \in [token : 0..Len(tokens'), expiresAt : Nat]
    BY <1>0, <1>2 DEF TypeOK, NoToken
  <2>3. pc' \in [Callers -> {"idle", "token", "sent", "delay"}] /\ call' \in [Callers -> CallType']
    BY <1>0 DEF TypeOK, CallType
  <2>4. ASSUME NEW d \in Callers
        PROVE  /\ pc'[d] = "sent" => call'[d].token # 0
               /\ pc'[d] = "token" => refresh' >= 0
    BY <1>0, <1>1 DEF TypeOK
  <2> QED BY <2>1, <2>2, <2>3, <2>4 DEF TypeOK
<1>4. TokensLast'
  BY <1>0 DEF TokensLast, NoToken
<1>5. RefreshInTime'
  BY <1>0, <1>2 DEF RefreshInTime
<1>6. RequestsInTime'
  BY <1>0, <1>1 DEF RequestsInTime
<1>7. RetriesLeft' /\ NeverPlacedTwice'
  BY <1>0, <1>1 DEF RetriesLeft, NeverPlacedTwice
<1> QED BY <1>3, <1>4, <1>5, <1>6, <1>7 DEF IInv

\* A call that starts, or starts again, takes the cached token or waits for one.
LEMMA AttemptStep ==
  ASSUME IInv, NEW c \in Callers, NEW w \in CallType, Attempt(c, w), w.placed = 0,
         UNCHANGED <<now, tokens, cached>>, calls' \in Nat
  PROVE  IInv'
<1>0. TypeOK /\ TokensLast
  BY DEF IInv
<1>1. now \in Nat /\ Timeout \in Nat /\ Len(tokens) \in Nat
  BY <1>0, ClientTypes, TimesAssumption
<1>2. CASE now < cached.expiresAt
  <2> DEFINE v == [w EXCEPT !.token = cached.token, !.at = now]
  <2>1. cached.token \in 1..Len(tokens) /\ tokens[cached.token].expires > now + Timeout
    BY <1>0, <1>2, HandedOut
  <2>2. v \in CallType /\ v.token = cached.token /\ v.at = now /\ v.placed = 0
    <3>1. cached.token \in 0..Len(tokens) /\ now \in 0..now
      BY <1>1, <2>1
    <3> QED BY <3>1 DEF CallType
  <2>3. pc' = [pc EXCEPT ![c] = "sent"] /\ call' = [call EXCEPT ![c] = v] /\ refresh' = refresh
    BY <1>2 DEF Attempt
  <2> HIDE DEF v
  <2>4. v.token # 0 /\ now <= v.at + Timeout /\ tokens[v.token].expires > v.at + Timeout
    BY <1>1, <2>1, <2>2
  <2> QED BY <2>2, <2>3, <2>4, CallerStep
<1>3. CASE ~(now < cached.expiresAt)
  <2>1. /\ pc' = [pc EXCEPT ![c] = "token"] /\ call' = [call EXCEPT ![c] = w]
        /\ refresh' = IF refresh < 0 THEN now ELSE refresh
    BY <1>3 DEF Attempt
  <2>2. refresh' \in {refresh, now} /\ (refresh >= 0 => refresh' = refresh) /\ refresh' >= 0
    BY <1>0, <1>1, <2>1 DEF TypeOK
  <2> QED BY <2>1, <2>2, CallerStep
<1> QED BY <1>2, <1>3

\* A call that ends leaves nothing behind.
LEMMA EndStep ==
  ASSUME IInv, NEW c \in Callers, End(c), UNCHANGED <<now, tokens, refresh, calls>>,
         cached' \in {cached, NoToken}
  PROVE  IInv'
<1>0. TypeOK
  BY DEF IInv
<1>1. NoCall \in CallType /\ NoCall.placed = 0 /\ calls' \in Nat
  BY <1>0, ClientTypes, TimesAssumption DEF TypeOK, NoCall, CallType
<1> QED BY <1>1, CallerStep DEF End

\* A new token outlives the request of whoever waited for it, and expiresAt.
LEMMA FetchOkStep ==
  ASSUME IInv, FetchOk
  PROVE  IInv'
<1>0. TypeOK /\ TokensLast /\ RefreshInTime /\ RequestsInTime /\ RetriesLeft /\ NeverPlacedTwice
  BY DEF IInv
<1>1. PICK life \in Lives, issued \in refresh..now :
        /\ tokens' = Append(tokens, [expires |-> issued + life, revoked |-> FALSE])
        /\ cached' = [token |-> Len(tokens'),
                      expiresAt |-> now + (IF life > Skew THEN life - Skew ELSE 0)]
  BY DEF FetchOk
<1>2. /\ refresh >= 0 /\ refresh' = -1 /\ now' = now /\ calls' = calls
      /\ pc' = [c \in Callers |-> IF c \in Waiting THEN "sent" ELSE pc[c]]
      /\ call' = [c \in Callers |-> IF c \in Waiting
                  THEN [call[c] EXCEPT !.token = Len(tokens'), !.at = now] ELSE call[c]]
  BY DEF FetchOk
<1>3. now \in Nat /\ Timeout \in Nat /\ Len(tokens) \in Nat /\ refresh \in 0..now
  BY <1>0, <1>2, ClientTypes, TimesAssumption
<1>4. now <= refresh + Timeout /\ life \in Nat /\ life > 2 * Timeout /\ issued \in Nat
  <2>1. now <= refresh + Timeout
    BY <1>0, <1>2 DEF RefreshInTime
  <2>2. life \in Nat /\ life > 2 * Timeout
    BY LivesAssumption
  <2>3. issued \in Nat
    BY <1>3
  <2> QED BY <2>1, <2>2, <2>3
<1>5. issued + life \in Nat /\ issued + life > now + Timeout
  BY <1>3, <1>4
<1>6. /\ tokens' \in Seq([expires : Nat, revoked : BOOLEAN]) /\ Len(tokens') = Len(tokens) + 1
      /\ \A t \in 1..Len(tokens) : tokens'[t] = tokens[t]
      /\ tokens'[Len(tokens')].expires = issued + life
  <2> DEFINE new == [expires |-> issued + life, revoked |-> FALSE]
  <2>1. new \in [expires : Nat, revoked : BOOLEAN] /\ new.expires = issued + life
    BY <1>5
  <2>2. tokens \in Seq([expires : Nat, revoked : BOOLEAN]) /\ tokens' = Append(tokens, new)
    BY <1>0, <1>1 DEF TypeOK
  <2> HIDE DEF new
  <2>3. /\ tokens' \in Seq([expires : Nat, revoked : BOOLEAN]) /\ Len(tokens') = Len(tokens) + 1
        /\ \A t \in 1..Len(tokens) : tokens'[t] = tokens[t]
        /\ tokens'[Len(tokens) + 1] = new
    BY <2>1, <2>2, AppendProperties
  <2> QED BY <2>1, <2>3
<1>7. cached'.token = Len(tokens') /\ cached' \in [token : 0..Len(tokens'), expiresAt : Nat]
  <2>1. now + (IF life > Skew THEN life - Skew ELSE 0) \in Nat
    BY <1>3, <1>4, TimesAssumption
  <2>2. Len(tokens') \in 0..Len(tokens')
    BY <1>3, <1>6
  <2> QED BY <1>1, <2>1, <2>2
<1>8. TokensLast'
  <2>1. CASE life > Skew
    <3>1. cached'.expiresAt = now + (life - Skew)
      BY <1>1, <2>1
    <3>2. issued + life >= now + (life - Skew) + Timeout
      BY <1>3, <1>4, TimesAssumption, SkewAssumption
    <3> QED BY <1>3, <1>6, <1>7, <3>1, <3>2 DEF TokensLast
  <2>2. CASE ~(life > Skew)
    <3>1. cached'.expiresAt = now
      BY <1>1, <1>3, <2>2
    <3> QED BY <1>3, <1>5, <1>6, <1>7, <3>1 DEF TokensLast
  <2> QED BY <2>1, <2>2
<1>9. ASSUME NEW c \in Callers
      PROVE  /\ call'[c] \in CallType' /\ call'[c].placed = call[c].placed
             /\ pc'[c] \in {"idle", "sent", "delay"}
             /\ pc'[c] = "sent" => /\ call'[c].token # 0 /\ now <= call'[c].at + Timeout
                                   /\ tokens'[call'[c].token].expires > call'[c].at + Timeout
  <2>1. call[c] \in CallType /\ pc[c] \in {"idle", "token", "sent", "delay"}
    BY <1>0, OneCall DEF TypeOK
  <2>2. CASE c \in Waiting
    <3>1. pc'[c] = "sent" /\ call'[c] = [call[c] EXCEPT !.token = Len(tokens'), !.at = now]
      BY <1>2, <2>2
    <3>2. Len(tokens') \in 0..Len(tokens') /\ now \in 0..now /\ Len(tokens') # 0
      BY <1>3, <1>6
    <3>3. /\ call'[c] \in CallType' /\ call'[c].placed = call[c].placed
          /\ call'[c].token = Len(tokens') /\ call'[c].at = now
      BY <1>2, <2>1, <3>1, <3>2 DEF CallType
    <3> QED BY <1>3, <1>5, <1>6, <3>1, <3>2, <3>3
  <2>3. CASE c \notin Waiting
    <3>1. pc'[c] = pc[c] /\ call'[c] = call[c] /\ pc[c] # "token"
      BY <1>2, <2>3 DEF Waiting
    <3>2. call'[c] \in CallType'
      <4>1. Len(tokens') = Len(tokens) + 1 /\ now' = now
        BY <1>2, <1>6
      <4>2. 0..Len(tokens) \subseteq 0..Len(tokens')
        BY <1>3, <4>1
      <4> QED BY <2>1, <3>1, <4>1, <4>2 DEF CallType
    <3>3. pc[c] = "sent" => /\ call[c].token \in 1..Len(tokens) /\ now <= call[c].at + Timeout
                            /\ tokens[call[c].token].expires > call[c].at + Timeout
      BY <1>0, OneCall DEF RequestsInTime
    <3> QED BY <1>3, <1>6, <2>1, <3>1, <3>2, <3>3
  <2> QED BY <2>2, <2>3
<1>10. TypeOK'
  <2>1. pc' \in [Callers -> {"idle", "token", "sent", "delay"}]
    BY <1>2, <1>9
  <2>2. call' \in [Callers -> CallType']
    BY <1>2, <1>9
  <2>3. now' \in Nat /\ calls' \in Nat /\ refresh' \in {-1} \cup 0..now'
    BY <1>0, <1>2 DEF TypeOK
  <2> QED BY <1>6, <1>7, <1>9, <2>1, <2>2, <2>3 DEF TypeOK
<1>11. RequestsInTime'
  BY <1>2, <1>9 DEF RequestsInTime
<1>12. RefreshInTime'
  <2>1. refresh' = -1
    BY <1>2
  <2> QED BY <2>1 DEF RefreshInTime
<1>13. RetriesLeft' /\ NeverPlacedTwice'
  BY <1>0, <1>2, <1>9 DEF RetriesLeft, NeverPlacedTwice, Waiting
<1> QED BY <1>8, <1>10, <1>11, <1>12, <1>13 DEF IInv

\* When no token comes, its callers wait for their next attempt or end.
LEMMA FetchFailsStep ==
  ASSUME IInv, FetchFails
  PROVE  IInv'
<1>0. TypeOK /\ TokensLast /\ RefreshInTime /\ RequestsInTime /\ RetriesLeft /\ NeverPlacedTwice
  BY DEF IInv
<1>1. /\ cached' = NoToken /\ refresh' = -1 /\ now' = now /\ tokens' = tokens /\ calls' = calls
      /\ pc' = [c \in Callers |-> IF c \notin Waiting THEN pc[c]
                               ELSE IF call[c].method = "GET" /\ call[c].attempt < MaxRetries
                               THEN "delay" ELSE "idle"]
      /\ call' = [c \in Callers |-> IF pc'[c] = "idle" THEN NoCall ELSE call[c]]
  BY DEF FetchFails
<1>2. now \in Nat /\ Len(tokens) \in Nat
  BY <1>0, ClientTypes
<1>3. NoCall \in CallType /\ NoCall.placed = 0
  BY <1>2, TimesAssumption DEF NoCall, CallType
<1>4. ASSUME NEW c \in Callers
      PROVE  /\ pc'[c] \in {"idle", "sent", "delay"} /\ call'[c] \in CallType
             /\ pc'[c] # "idle" => call'[c] = call[c] /\ pc[c] # "idle"
             /\ pc'[c] = "sent" => pc[c] = "sent"
             /\ pc'[c] = "delay" => call[c].attempt < MaxRetries
  <2>1. call[c] \in CallType /\ pc[c] \in {"idle", "token", "sent", "delay"}
    BY <1>0, OneCall DEF TypeOK
  <2>2. call'[c] \in CallType /\ (pc'[c] # "idle" => call'[c] = call[c])
    BY <1>1, <1>3, <2>1
  <2>3. CASE c \in Waiting
    <3>1. pc[c] = "token" /\ pc'[c] \in {"delay", "idle"}
          /\ (pc'[c] = "delay" => call[c].attempt < MaxRetries)
      BY <1>1, <2>3 DEF Waiting
    <3> QED BY <2>2, <3>1
  <2>4. CASE c \notin Waiting
    <3>1. pc[c] # "token" /\ pc'[c] = pc[c]
      BY <1>1, <2>4 DEF Waiting
    <3> QED BY <1>0, <2>1, <2>2, <3>1 DEF RetriesLeft
  <2> QED BY <2>3, <2>4
<1>5. TypeOK'
  <2>1. pc' \in [Callers -> {"idle", "token", "sent", "delay"}]
    BY <1>1, <1>4
  <2>2. call' \in [Callers -> CallType'] /\ CallType' = CallType
    BY <1>1, <1>4 DEF CallType
  <2>3. /\ now' \in Nat /\ calls' \in Nat /\ refresh' \in {-1} \cup 0..now'
        /\ tokens' \in Seq([expires : Nat, revoked : BOOLEAN])
    BY <1>0, <1>1 DEF TypeOK
  <2>4. cached' \in [token : 0..Len(tokens'), expiresAt : Nat]
    BY <1>1, <1>2 DEF NoToken
  <2>5. ASSUME NEW c \in Callers
        PROVE  (pc'[c] = "sent" => call'[c].token # 0) /\ pc'[c] # "token"
    BY <1>0, <1>4 DEF TypeOK
  <2> QED BY <2>1, <2>2, <2>3, <2>4, <2>5 DEF TypeOK
<1>6. TokensLast' /\ RefreshInTime'
  <2>1. refresh' = -1 /\ cached'.token = 0 /\ cached'.expiresAt = 0
    BY <1>1 DEF NoToken
  <2> QED BY <2>1 DEF TokensLast, RefreshInTime
<1>7. RequestsInTime'
  <2>1. ASSUME NEW c \in Callers, pc'[c] = "sent"
        PROVE  now' <= call'[c].at + Timeout /\ tokens'[call'[c].token].expires > call'[c].at + Timeout
    <3>1. pc[c] = "sent" /\ call'[c] = call[c] /\ now' = now /\ tokens' = tokens
      BY <1>1, <1>4, <2>1
    <3> QED BY <1>0, <3>1 DEF RequestsInTime
  <2> QED BY <2>1 DEF RequestsInTime
<1>8. RetriesLeft' /\ NeverPlacedTwice'
  BY <1>0, <1>4 DEF RetriesLeft, NeverPlacedTwice
<1> QED BY <1>5, <1>6, <1>7, <1>8 DEF IInv

\* An answer that failed on the way: a GET waits for its next attempt.
LEMMA TransientStep ==
  ASSUME IInv, NEW c \in Callers, Transient(c)
  PROVE  IInv'
<1>0. TypeOK /\ NeverPlacedTwice
  BY DEF IInv
<1>1. PICK placed \in 0..1 :
        /\ placed = 1 => call[c].method = "POST"
        /\ LET w == [call[c] EXCEPT !.placed = @ + placed] IN
           IF w.method = "GET" /\ w.attempt < MaxRetries
           THEN pc' = [pc EXCEPT ![c] = "delay"]
                /\ call' = [call EXCEPT ![c] = [w EXCEPT !.token = 0, !.at = 0]]
           ELSE End(c)
  BY DEF Transient
<1>2. /\ pc[c] = "sent" /\ now' = now /\ tokens' = tokens /\ cached' = cached
      /\ refresh' = refresh /\ calls' = calls
  BY DEF Transient
<1>3. call[c] \in CallType /\ call[c].placed = 0 /\ now \in Nat /\ Len(tokens) \in Nat
  BY <1>0, <1>2, OneCall, ClientTypes DEF NeverPlacedTwice
<1> DEFINE w == [call[c] EXCEPT !.placed = @ + placed]
           v == [w EXCEPT !.token = 0, !.at = 0]
<1>4. w.method = call[c].method /\ w.attempt = call[c].attempt /\ w.placed = placed
  BY <1>3 DEF CallType
<1>5. CASE w.method = "GET" /\ w.attempt < MaxRetries
  <2>1. placed = 0 /\ pc' = [pc EXCEPT ![c] = "delay"] /\ call' = [call EXCEPT ![c] = v]
    BY <1>1, <1>4, <1>5
  <2>2. 0 \in 0..Len(tokens) /\ 0 \in 0..now
    BY <1>3
  <2>3. v \in CallType /\ v.placed = 0 /\ v.attempt < MaxRetries
    BY <1>3, <1>4, <1>5, <2>1, <2>2 DEF CallType
  <2> HIDE DEF v
  <2>4. calls' \in Nat
    BY <1>0, <1>2 DEF TypeOK
  <2> QED BY <1>2, <2>1, <2>3, <2>4, CallerStep
<1>6. CASE ~(w.method = "GET" /\ w.attempt < MaxRetries)
  <2>1. End(c)
    BY <1>1, <1>6
  <2> QED BY <1>2, <2>1, EndStep
<1> QED BY <1>5, <1>6

\* Time passes only while every request is within its timeout.
LEMMA TickStep ==
  ASSUME IInv, Tick
  PROVE  IInv'
<1>0. TypeOK /\ TokensLast /\ RefreshInTime /\ RequestsInTime /\ RetriesLeft /\ NeverPlacedTwice
  BY DEF IInv
<1>1. /\ now' = now + 1 /\ tokens' = tokens /\ cached' = cached /\ refresh' = refresh
      /\ pc' = pc /\ call' = call /\ calls' = calls
  BY DEF Tick
<1>2. (refresh >= 0 => now < refresh + Timeout)
      /\ (\A c \in Callers : pc[c] = "sent" => now < call[c].at + Timeout)
  BY DEF Tick
<1>3. now \in Nat /\ Timeout \in Nat /\ Len(tokens) \in Nat
  BY <1>0, ClientTypes, TimesAssumption
<1>4. TypeOK'
  <2>1. now' \in Nat /\ 0..now \subseteq 0..now'
    BY <1>1, <1>3
  <2>2. CallType \subseteq CallType'
    BY <1>1, <2>1 DEF CallType
  <2>3. call' \in [Callers -> CallType']
    BY <1>0, <1>1, <2>2 DEF TypeOK
  <2>4. refresh' \in {-1} \cup 0..now'
    BY <1>0, <1>1, <2>1 DEF TypeOK
  <2> QED BY <1>0, <1>1, <2>1, <2>3, <2>4 DEF TypeOK
<1>5. RefreshInTime'
  <2>1. refresh >= 0 => refresh \in Nat
    BY <1>0, <1>3, ClientTypes
  <2> QED BY <1>1, <1>2, <1>3, <2>1 DEF RefreshInTime
<1>6. RequestsInTime'
  <2>1. ASSUME NEW c \in Callers, pc'[c] = "sent"
        PROVE  now' <= call'[c].at + Timeout
    <3>1. call[c].at \in Nat /\ now < call[c].at + Timeout
      BY <1>0, <1>1, <1>2, <2>1, OneCall
    <3> QED BY <1>1, <1>3, <3>1
  <2> QED BY <1>0, <1>1, <2>1 DEF RequestsInTime
<1>7. TokensLast' /\ RetriesLeft' /\ NeverPlacedTwice'
  BY <1>0, <1>1 DEF TokensLast, RetriesLeft, NeverPlacedTwice
<1> QED BY <1>4, <1>5, <1>6, <1>7 DEF IInv

\* A revoked token keeps its expiry.
LEMMA RevokeStep ==
  ASSUME IInv, Revoke
  PROVE  IInv'
<1>0. TypeOK /\ TokensLast /\ RefreshInTime /\ RequestsInTime /\ RetriesLeft /\ NeverPlacedTwice
  BY DEF IInv
<1>1. PICK t \in 1..Len(tokens) : tokens' = [tokens EXCEPT ![t].revoked = TRUE]
  BY DEF Revoke
<1>2. /\ now' = now /\ cached' = cached /\ refresh' = refresh
      /\ pc' = pc /\ call' = call /\ calls' = calls
  BY DEF Revoke
<1>3. tokens \in Seq([expires : Nat, revoked : BOOLEAN]) /\ Len(tokens) \in Nat
  BY <1>0, ClientTypes DEF TypeOK
<1> DEFINE new == [tokens[t] EXCEPT !.revoked = TRUE]
<1>4. tokens[t] \in [expires : Nat, revoked : BOOLEAN]
  BY <1>3, ElementOfSeq
<1>5. new \in [expires : Nat, revoked : BOOLEAN] /\ new.expires = tokens[t].expires
  BY <1>4
<1>6. tokens' = [tokens EXCEPT ![t] = new]
  BY <1>1
<1> HIDE DEF new
<1>7. /\ tokens' \in Seq([expires : Nat, revoked : BOOLEAN]) /\ Len(tokens') = Len(tokens)
      /\ \A u \in 1..Len(tokens) : tokens'[u] = IF u = t THEN new ELSE tokens[u]
  BY <1>3, <1>5, <1>6, ExceptSeq
<1>8. \A u \in 1..Len(tokens) : tokens'[u].expires = tokens[u].expires
  BY <1>5, <1>7
<1>9. TypeOK'
  <2>1. CallType' = CallType
    BY <1>2, <1>7 DEF CallType
  <2> QED BY <1>0, <1>2, <1>7, <2>1 DEF TypeOK
<1>10. TokensLast'
  <2>1. cached.token # 0 => cached.token \in 1..Len(tokens)
    BY <1>0, <1>3, ClientTypes
  <2> QED BY <1>0, <1>2, <1>8, <2>1 DEF TokensLast
<1>11. RequestsInTime'
  <2>1. \A c \in Callers : pc[c] = "sent" => call[c].token \in 1..Len(tokens)
    BY <1>0, OneCall
  <2> QED BY <1>0, <1>2, <1>8, <2>1 DEF RequestsInTime
<1>12. RefreshInTime' /\ RetriesLeft' /\ NeverPlacedTwice'
  BY <1>0, <1>2 DEF RefreshInTime, RetriesLeft, NeverPlacedTwice
<1> QED BY <1>9, <1>10, <1>11, <1>12 DEF IInv

-----------------------------------------------------------------------------
\* A new call, and the next attempt of one.
LEMMA CallStep ==
  ASSUME IInv, NEW c \in Callers, NEW method \in {"GET", "POST"}, Call(c, method)
  PROVE  IInv'
<1>1. TypeOK
  BY DEF IInv
<1> DEFINE w == [NoCall EXCEPT !.method = method]
<1>2. w \in CallType /\ w.placed = 0
  BY <1>1, ClientTypes, TimesAssumption DEF NoCall, CallType
<1>3. Attempt(c, w) /\ UNCHANGED <<now, tokens, cached>> /\ calls' = calls + 1
  BY DEF Call
<1>4. calls' \in Nat
  BY <1>1, <1>3 DEF TypeOK
<1> HIDE DEF w
<1> QED BY <1>2, <1>3, <1>4, AttemptStep

LEMMA RetryStep ==
  ASSUME IInv, NEW c \in Callers, Retry(c)
  PROVE  IInv'
<1>1. TypeOK /\ RetriesLeft /\ NeverPlacedTwice
  BY DEF IInv
<1> DEFINE w == [call[c] EXCEPT !.attempt = @ + 1]
<1>2. pc[c] = "delay" /\ Attempt(c, w) /\ UNCHANGED <<now, tokens, cached>> /\ calls' \in Nat
  BY <1>1 DEF Retry, TypeOK
<1>3. call[c] \in CallType /\ call[c].attempt \in 0..MaxRetries /\ call[c].attempt < MaxRetries
      /\ call[c].placed = 0
  BY <1>1, <1>2, OneCall DEF RetriesLeft, NeverPlacedTwice
<1>4. call[c].attempt + 1 \in 0..MaxRetries
  BY <1>3, TimesAssumption
<1>5. w \in CallType /\ w.placed = 0
  BY <1>3, <1>4 DEF CallType
<1> HIDE DEF w
<1> QED BY <1>2, <1>5, AttemptStep

LEMMA StepHolds == IInv /\ [Next]_vars => IInv'
<1> SUFFICES ASSUME IInv, [Next]_vars PROVE IInv'
  OBVIOUS
<1>1. CASE FetchOk
  BY <1>1, FetchOkStep
<1>2. CASE FetchFails
  BY <1>2, FetchFailsStep
<1>3. CASE Tick
  BY <1>3, TickStep
<1>4. CASE Revoke
  BY <1>4, RevokeStep
<1>5. CASE \E c \in Callers : \E method \in {"GET", "POST"} : Call(c, method)
  BY <1>5, CallStep
<1>6. CASE \E c \in Callers : Retry(c)
  BY <1>6, RetryStep
<1>7. ASSUME NEW c \in Callers, Answer(c) PROVE IInv'
  <2>1. CASE Answered(c)
    BY <2>1, EndStep DEF Answered
  <2>2. CASE Unauthorized(c)
    BY <2>2, EndStep DEF Unauthorized
  <2>3. CASE Transient(c)
    BY <2>3, TransientStep
  <2> QED BY <1>7, <2>1, <2>2, <2>3 DEF Answer
<1>8. CASE UNCHANGED vars
  BY <1>8 DEF vars, IInv, TypeOK, CallType, TokensLast, RefreshInTime, RequestsInTime, RetriesLeft,
              NeverPlacedTwice
<1> QED BY <1>1, <1>2, <1>3, <1>4, <1>5, <1>6, <1>7, <1>8 DEF Next

LEMMA InvariantHolds == Spec => []IInv
<1> QED BY InitHolds, StepHolds, PTL DEF Spec

-----------------------------------------------------------------------------
\* The client's variables keep their types (reloadly.service.ts).
THEOREM TypeCorrect == Spec => []TypeOK
<1>1. IInv => TypeOK
  BY DEF IInv
<1> QED BY <1>1, InvariantHolds, PTL

\* With a refresh skew of at least two request timeouts, no request of the
\* client is refused because its token expired, however calls share refreshes.
THEOREM NoExpiryMet == Spec => []UnrevokedAccepted
<1>1. IInv => UnrevokedAccepted
  <2> SUFFICES ASSUME IInv, NEW c \in Callers, pc[c] = "sent", Dead(call[c].token)
               PROVE  tokens[call[c].token].revoked
    BY DEF UnrevokedAccepted
  <2>1. TypeOK /\ RequestsInTime
    BY DEF IInv
  <2>2. /\ now \in Nat /\ Timeout \in Nat /\ call[c].at \in Nat
        /\ tokens[call[c].token].expires \in Nat
    BY <2>1, ClientTypes, OneCall, TimesAssumption
  <2>3. now < tokens[call[c].token].expires
    BY <2>1, <2>2 DEF RequestsInTime
  <2> QED BY <2>2, <2>3 DEF Dead
<1> QED BY <1>1, InvariantHolds, PTL

\* No call of the client places two orders: only reads are retried (execute).
THEOREM PlacedOnce == Spec => []NeverPlacedTwice
<1>1. IInv => NeverPlacedTwice
  BY DEF IInv
<1> QED BY <1>1, InvariantHolds, PTL
=============================================================================
