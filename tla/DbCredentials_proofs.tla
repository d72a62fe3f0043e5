-------------------------- MODULE DbCredentials_proofs --------------------------
(***************************************************************************)
(* Proofs about DbCredentials for any number of threads, any lifetime and  *)
(* throttle, any number of rotations and failures.                         *)
(***************************************************************************)
EXTENDS DbCredentials, TLAPS

(* The lock is held by exactly the thread whose call is outstanding, and   *)
(* that call is the last attempt.                                          *)
LockInv ==
    \A c \in Threads :
        /\ conn[c].phase \in {"call", "answer"} <=> c \in holder
        /\ c \in holder => holder = {c} /\ lastAttempt <= conn[c].since

ClockInv ==
    /\ lastAttempt <= now /\ settledAt <= now /\ failedAt <= now
    /\ \A c \in Threads : conn[c].phase \in Exchanging =>
            conn[c].since <= now /\ now <= conn[c].since + MaxStep

(* Generations: nobody has a password the database has not had.            *)
GenerationInv ==
    /\ secret <= password /\ cached <= secret
    /\ \A c \in Threads : conn[c].tried <= secret /\ conn[c].read <= secret

(* A password that was rejected, or is replaced after a rejection, is one  *)
(* the database will not take again.                                       *)
RejectedForGood ==
    \A c \in Threads :
        /\ conn[c].phase = "force" => conn[c].tried < password
        /\ conn[c].phase \in {"call", "answer"} /\ conn[c].forced =>
                conn[c].tried < password

(* The secret was promoted, or a fetch failed, at t or later.              *)
Disturbed(t) == t <= settledAt \/ (failedAt # Never /\ t <= failedAt)

(* What is known to be old was fetched before the secret was promoted.     *)
FreshInv ==
    /\ holder = {} /\ cached # secret => Disturbed(lastAttempt)
    /\ \A c \in Threads :
        conn[c].phase = "answer" /\ conn[c].read # secret => conn[c].since <= settledAt

(* The longest a refresh is held off, or takes.                            *)
Wait == IF MinRefresh > MaxStep THEN MinRefresh ELSE MaxStep + 1

RetryInv ==
    \A c \in Threads :
        conn[c].phase = "retry" /\ conn[c].tried # secret =>
            \/ conn[c].since < settledAt + Wait
            \/ failedAt # Never /\ conn[c].since < failedAt + Wait

(* When nobody is fetching, what is cached outlasts the shortest gap.      *)
SpacingInv == holder = {} /\ lastAttempt # Never => lastAttempt + MinGap <= expiresAt

CredentialInv ==
    /\ TypeOK
    /\ LockInv
    /\ ClockInv
    /\ GenerationInv
    /\ RejectedForGood
    /\ FreshInv
    /\ RetryInv
    /\ SpacingInv

-------------------------------------------------------------------------------
(* Type correctness                                                          *)

(* The phases the actions name are phases.                                 *)
LEMMA PhaseMembers ==
    /\ "idle" \in Phase /\ "current" \in Phase /\ "force" \in Phase
    /\ "call" \in Phase /\ "answer" \in Phase /\ "attempt" \in Phase
    /\ "retry" \in Phase /\ "connected" \in Phase /\ "rejected" \in Phase
    /\ "unreachable" \in Phase
BY DEF Phase, Exchanging, Outcome

(* The three ways a thread moves on: it waits or is done, it logs in, or   *)
(* it retries.                                                             *)
LEMMA GotoFacts ==
    ASSUME TypeOK, NEW c \in Threads, NEW phase \in Phase, Goto(c, phase)
    PROVE  /\ conn' \in [Threads -> ConnState]
           /\ conn'[c].phase = phase /\ conn'[c].tried = conn[c].tried
           /\ conn'[c].read = 0 /\ conn'[c].forced = conn[c].forced
           /\ \A d \in Threads \ {c} : conn'[d] = conn[d]
<1>1. conn \in [Threads -> ConnState]
    BY DEF TypeOK
<1>. QED BY <1>1 DEF Goto, ConnState

(* What LogInWith does to the connecting thread, and to no other.          *)
LEMMA LogInWithFacts ==
    ASSUME TypeOK, NEW c \in Threads, NEW credential \in Nat \union {NoCredential},
           LogInWith(c, credential)
    PROVE  /\ conn' \in [Threads -> ConnState]
           /\ conn'[c].phase = "attempt" /\ conn'[c].since = now /\ conn'[c].read = 0
           /\ conn'[c].tried \in {StaticPassword, credential} \ {NoCredential}
           /\ \A d \in Threads \ {c} : conn'[d] = conn[d]
<1>1. conn \in [Threads -> ConnState] /\ now \in Nat
    BY DEF TypeOK
<1>. DEFINE tried == IF credential = NoCredential THEN StaticPassword ELSE credential
<1>2. conn' = [conn EXCEPT ![c].phase = "attempt", ![c].since = now, ![c].read = 0,
                           ![c].tried = tried]
    BY DEF LogInWith
<1>3. tried \in Nat /\ tried \in {StaticPassword, credential} \ {NoCredential}
    BY DEF StaticPassword, NoCredential
<1>4. "attempt" \in Phase
    BY PhaseMembers
<1>. HIDE DEF tried
<1>. QED BY <1>1, <1>2, <1>3, <1>4 DEF ConnState

(* RetryWith either ends the connect or sends it to its second attempt.    *)
LEMMA RetryWithFacts ==
    ASSUME TypeOK, NEW c \in Threads, NEW credential \in Nat \union {NoCredential},
           RetryWith(c, credential)
    PROVE  /\ conn' \in [Threads -> ConnState]
           /\ \/ /\ conn'[c].phase = "rejected" /\ conn'[c].tried = conn[c].tried
                 /\ conn'[c].read = 0 /\ credential \in {NoCredential, conn[c].tried}
              \/ /\ conn'[c].phase = "retry" /\ conn'[c].since = now
                 /\ conn'[c].read = 0 /\ conn'[c].tried = credential /\ credential \in Nat
           /\ \A d \in Threads \ {c} : conn'[d] = conn[d]
<1>1. conn \in [Threads -> ConnState] /\ now \in Nat
    BY DEF TypeOK
<1>2. CASE credential \in {NoCredential, conn[c].tried}
    <2>1. Goto(c, "rejected")
        BY <1>2 DEF RetryWith
    <2>. QED BY <1>2, <2>1, GotoFacts, PhaseMembers
<1>3. CASE credential \notin {NoCredential, conn[c].tried}
    <2>1. conn' = [conn EXCEPT ![c].phase = "retry", ![c].since = now,
                               ![c].read = 0, ![c].tried = credential]
        BY <1>3 DEF RetryWith
    <2>2. credential \in Nat /\ "retry" \in Phase
        BY <1>3, PhaseMembers
    <2>3. conn' \in [Threads -> ConnState]
        <3>1. [conn[c] EXCEPT !.phase = "retry", !.since = now, !.read = 0,
                              !.tried = credential] \in ConnState
            BY <1>1, <2>2 DEF ConnState
        <3>. QED BY <1>1, <2>1, <3>1
    <2>4. /\ conn'[c].phase = "retry" /\ conn'[c].since = now
          /\ conn'[c].read = 0 /\ conn'[c].tried = credential
          /\ \A d \in Threads \ {c} : conn'[d] = conn[d]
        BY <1>1, <2>1 DEF ConnState
    <2>. QED BY <2>2, <2>3, <2>4
<1>. QED BY <1>2, <1>3

(* BeginFetch takes the lock and dates the attempt, and nothing else.      *)
LEMMA BeginFetchFacts ==
    ASSUME TypeOK, NEW c \in Threads, NEW forced \in BOOLEAN, BeginFetch(c, forced)
    PROVE  /\ conn' \in [Threads -> ConnState]
           /\ conn'[c].phase = "call" /\ conn'[c].since = now
           /\ conn'[c].forced = forced /\ conn'[c].read = conn[c].read
           /\ conn'[c].tried = conn[c].tried
           /\ \A d \in Threads \ {c} : conn'[d] = conn[d]
           /\ holder = {} /\ holder' = {c} /\ lastAttempt' = now
<1>1. conn \in [Threads -> ConnState] /\ now \in Nat
    BY DEF TypeOK
<1>2. conn' = [conn EXCEPT ![c].phase = "call", ![c].since = now, ![c].forced = forced]
    BY DEF BeginFetch
<1>3. "call" \in Phase
    BY PhaseMembers
<1>4. holder = {} /\ holder' = {c} /\ lastAttempt' = now
    BY DEF BeginFetch, LockFree, TypeOK
<1>. QED BY <1>1, <1>2, <1>3, <1>4 DEF ConnState

(* A lifetime is a natural number no shorter than the jitter allows.       *)
LEMMA LifetimeBounds ==
    ASSUME NEW lifetime \in (TTL - Jitter) .. (TTL + Jitter)
    PROVE  lifetime \in Nat /\ TTL - Jitter <= lifetime
BY CredentialConstants

(* Every step keeps the types.                                             *)
LEMMA CredentialTypes == TypeOK /\ [Next]_vars => TypeOK'
<1>. SUFFICES ASSUME TypeOK, [Next]_vars PROVE TypeOK'
    OBVIOUS
<1>0. conn \in [Threads -> ConnState] /\ now \in Nat
    BY DEF TypeOK
<1>1. ASSUME NEW c \in Threads, Connect(c) PROVE TypeOK'
    <2>1. Fresh("current") \in ConnState
        BY PhaseMembers DEF Fresh, ConnState, StaticPassword
    <2>2. conn' \in [Threads -> ConnState]
        BY <1>0, <1>1, <2>1 DEF Connect
    <2>. QED BY <1>1, <2>2 DEF Connect, TypeOK, environment, provider
<1>2. ASSUME NEW c \in Threads, CurrentCached(c) PROVE TypeOK'
    <2>1. cached \in Nat \union {NoCredential}
        BY DEF TypeOK
    <2>2. conn' \in [Threads -> ConnState]
        BY <1>2, <2>1, LogInWithFacts DEF CurrentCached
    <2>. QED BY <1>2, <2>2 DEF CurrentCached, TypeOK, environment, provider
<1>3. ASSUME NEW c \in Threads, NEW forced \in BOOLEAN, BeginFetch(c, forced) PROVE TypeOK'
    <2>1. conn' \in [Threads -> ConnState] /\ holder' = {c} /\ lastAttempt' = now
        BY <1>3, BeginFetchFacts
    <2>. QED BY <1>3, <2>1 DEF BeginFetch, TypeOK, environment
<1>4. ASSUME NEW c \in Threads, SecretRead(c) PROVE TypeOK'
    <2>1. conn' \in [Threads -> ConnState]
        <3>1. secret \in Nat /\ "answer" \in Phase
            BY PhaseMembers DEF TypeOK
        <3>. QED BY <1>0, <1>4, <3>1 DEF SecretRead, ConnState
    <2>. QED BY <1>4, <2>1 DEF SecretRead, TypeOK, environment, provider
<1>5. ASSUME NEW c \in Threads, NEW credential \in Nat \union {NoCredential},
             Resume(c, credential)
      PROVE  conn' \in [Threads -> ConnState]
    BY <1>5, LogInWithFacts, RetryWithFacts DEF Resume
<1>6. ASSUME NEW c \in Threads, FetchSucceeds(c) PROVE TypeOK'
    <2>1. conn[c].read \in Nat
        BY <1>0 DEF ConnState
    <2>2. conn' \in [Threads -> ConnState] /\ cached' \in Nat
        BY <1>5, <1>6, <2>1 DEF FetchSucceeds
    <2>3. expiresAt' \in Nat
        BY <1>0, <1>6, LifetimeBounds DEF FetchSucceeds
    <2>. QED BY <1>6, <2>2, <2>3 DEF FetchSucceeds, TypeOK, environment
<1>7. ASSUME NEW c \in Threads, FetchFails(c) PROVE TypeOK'
    <2>1. cached \in Nat \union {NoCredential}
        BY DEF TypeOK
    <2>2. conn' \in [Threads -> ConnState]
        BY <1>5, <1>7, <2>1 DEF FetchFails
    <2>3. expiresAt' \in Nat /\ faults' \in Nat /\ failedAt' \in Nat
        BY <1>0, <1>7, CredentialConstants DEF FetchFails, TypeOK
    <2>. QED BY <1>7, <2>2, <2>3 DEF FetchFails, TypeOK, environment
<1>8. ASSUME NEW c \in Threads, Attempt(c) \/ Retry(c) PROVE TypeOK'
    <2>1. PICK rejected \in {"force", "rejected"} : LogIn(c, rejected)
        BY <1>8 DEF Attempt, Retry
    <2>2. conn' \in [Threads -> ConnState]
        <3>. DEFINE phase == IF ~up THEN "unreachable"
                             ELSE IF conn[c].tried = password THEN "connected" ELSE rejected
        <3>1. Goto(c, phase) /\ phase \in Phase
            BY <2>1, PhaseMembers DEF LogIn
        <3>. HIDE DEF phase
        <3>. QED BY <3>1, GotoFacts
    <2>. QED BY <2>1, <2>2 DEF LogIn, TypeOK, environment, provider
<1>9. ASSUME NEW c \in Threads, ForceThrottled(c) PROVE TypeOK'
    <2>1. cached \in Nat \union {NoCredential}
        BY DEF TypeOK
    <2>2. conn' \in [Threads -> ConnState]
        BY <1>9, <2>1, RetryWithFacts DEF ForceThrottled
    <2>. QED BY <1>9, <2>2 DEF ForceThrottled, TypeOK, environment, provider
<1>10. CASE SetPassword \/ PromoteSecret \/ StopOrStart
    <2>1. CASE SetPassword
        <3>1. password' \in Nat /\ secret' \in Nat /\ settledAt' \in Nat
            BY <2>1, CredentialConstants DEF SetPassword, TypeOK
        <3>. QED BY <2>1, <3>1 DEF SetPassword, TypeOK, provider
    <2>2. CASE PromoteSecret
        BY <2>2 DEF PromoteSecret, TypeOK, provider
    <2>3. CASE StopOrStart
        <3>1. up' \in BOOLEAN
            BY <2>3 DEF StopOrStart
        <3>. QED BY <2>3, <3>1 DEF StopOrStart, TypeOK, provider
    <2>. QED BY <1>10, <2>1, <2>2, <2>3
<1>11. CASE Tick \/ UNCHANGED vars
    BY <1>11 DEF Tick, vars, TypeOK, environment, provider
<1>. QED BY <1>1, <1>2, <1>3, <1>4, <1>6, <1>7, <1>8, <1>9, <1>10, <1>11
         DEF Next, Step, CurrentFetch, ForceFetch

(* The provider, the environment and every connect keep their shape.       *)
THEOREM CredentialsTypeCorrect == Spec => []TypeOK
<1>1. Init => TypeOK
    <2>1. Fresh("idle") \in ConnState
        BY PhaseMembers DEF Fresh, ConnState, StaticPassword
    <2>. QED BY <2>1 DEF Init, TypeOK
<1>. QED BY <1>1, CredentialTypes, PTL DEF Spec

-------------------------------------------------------------------------------
(* The inductive invariant                                                   *)

(* What the types say of the numbers.                                      *)
LEMMA Numbers ==
    ASSUME TypeOK
    PROVE  /\ now \in Nat /\ password \in Nat /\ secret \in Nat /\ settledAt \in Nat
           /\ expiresAt \in Nat /\ cached \in Int /\ lastAttempt \in Int /\ failedAt \in Int
           /\ MaxStep \in Nat /\ MinRefresh \in Nat /\ Wait \in Nat /\ MaxStep < Wait
           /\ MinRefresh <= Wait
           /\ MinGap \in Nat /\ MinGap <= MinRefresh /\ MinGap <= TTL - Jitter
           /\ \A d \in Threads :
                conn[d].since \in Nat /\ conn[d].tried \in Nat /\ conn[d].read \in Nat
<1>1. \A d \in Threads :
        conn[d].since \in Nat /\ conn[d].tried \in Nat /\ conn[d].read \in Nat
    BY DEF TypeOK, ConnState
<1>2. /\ Wait \in Nat /\ MaxStep < Wait /\ MinRefresh <= Wait
      /\ MinGap \in Nat /\ MinGap <= MinRefresh /\ MinGap <= TTL - Jitter
    BY CredentialConstants DEF Wait, MinGap
<1>. QED BY <1>1, <1>2, CredentialConstants DEF TypeOK, NoCredential, Never

(* Steps that open a connection or log in leave the provider alone.        *)
LEMMA ConnectingInv ==
    ASSUME CredentialInv, TypeOK', NEW c \in Threads,
           Connect(c) \/ CurrentCached(c) \/ Attempt(c) \/ Retry(c)
    PROVE  CredentialInv'
<1>0. TypeOK /\ conn \in [Threads -> ConnState]
    BY DEF CredentialInv, TypeOK
<1>1. /\ UNCHANGED <<now, environment, provider, failedAt>>
      /\ now' = now /\ password' = password /\ secret' = secret /\ settledAt' = settledAt
      /\ cached' = cached /\ expiresAt' = expiresAt /\ lastAttempt' = lastAttempt
      /\ holder' = holder /\ failedAt' = failedAt
    BY DEF Connect, CurrentCached, Attempt, Retry, LogIn, environment, provider
<1>2. /\ \A d \in Threads \ {c} : conn'[d] = conn[d]
      /\ conn[c].phase \notin {"call", "answer"}
      /\ conn'[c].phase \notin {"call", "answer", "retry"}
      /\ conn'[c].phase = "force" => conn[c].tried < password
      /\ conn'[c].phase \in Exchanging => conn'[c].since = now
      /\ conn'[c].tried <= secret /\ conn'[c].read <= secret
      /\ conn'[c].phase = "force" => conn'[c].tried = conn[c].tried
    <2>1. CASE Connect(c)
        <3>1. /\ conn'[c] = Fresh("current") /\ \A d \in Threads \ {c} : conn'[d] = conn[d]
              /\ conn[c].phase \in {"idle"} \union Outcome
            BY <1>0, <2>1 DEF Connect
        <3>. QED BY <1>0, <3>1, Numbers DEF Fresh, StaticPassword, Exchanging, Outcome
    <2>2. CASE CurrentCached(c)
        <3>1. cached \in Nat \union {NoCredential} /\ cached <= secret
            BY <1>0 DEF TypeOK, CredentialInv, GenerationInv
        <3>2. LogInWith(c, cached) /\ conn[c].phase = "current"
            BY <2>2 DEF CurrentCached
        <3>. QED BY <1>0, <3>1, <3>2, LogInWithFacts, Numbers DEF StaticPassword
    <2>3. CASE Attempt(c) \/ Retry(c)
        <3>. DEFINE phase(rejected) == IF ~up THEN "unreachable"
                    ELSE IF conn[c].tried = password THEN "connected" ELSE rejected
        <3>1. PICK rejected \in {"force", "rejected"} : Goto(c, phase(rejected))
            BY <2>3 DEF Attempt, Retry, LogIn
        <3>2. phase(rejected) \in Outcome \union {"force"}
            BY DEF Outcome
        <3>3. phase(rejected) = "force" => conn[c].tried # password
            OBVIOUS
        <3>4. conn[c].tried <= secret /\ secret <= password
            BY DEF CredentialInv, GenerationInv
        <3>5. phase(rejected) \in Phase
            BY <3>2, PhaseMembers DEF Outcome
        <3>6. conn[c].phase \notin {"call", "answer"}
            BY <2>3 DEF Attempt, Retry
        <3>. DEFINE next == phase(rejected)
        <3>7. Goto(c, next) /\ next \in Phase /\ next \in Outcome \union {"force"}
              /\ (next = "force" => conn[c].tried # password)
            BY <3>1, <3>2, <3>3, <3>5
        <3>. HIDE DEF next
        <3>. QED BY <1>0, <3>4, <3>6, <3>7, GotoFacts, Numbers DEF Exchanging, Outcome
    <2>. QED BY <2>1, <2>2, <2>3
<1>3. LockInv'
    BY <1>1, <1>2 DEF CredentialInv, LockInv
<1>4. ClockInv'
    BY <1>0, <1>1, <1>2, Numbers DEF CredentialInv, ClockInv
<1>5. GenerationInv'
    BY <1>1, <1>2 DEF CredentialInv, GenerationInv
<1>6. RejectedForGood'
    BY <1>1, <1>2 DEF CredentialInv, RejectedForGood
<1>7. FreshInv'
    BY <1>1, <1>2 DEF CredentialInv, FreshInv, Disturbed
<1>8. RetryInv'
    BY <1>1, <1>2 DEF CredentialInv, RetryInv
<1>9. SpacingInv'
    BY <1>1 DEF CredentialInv, SpacingInv
<1>. QED BY <1>3, <1>4, <1>5, <1>6, <1>7, <1>8, <1>9 DEF CredentialInv

(* A fetch begins only with the lock free, and keeps it.                   *)
LEMMA BeginFetchInv ==
    ASSUME CredentialInv, TypeOK', NEW c \in Threads, NEW forced \in BOOLEAN,
           conn[c].phase \in {"current", "force"},
           forced => conn[c].phase = "force",
           BeginFetch(c, forced)
    PROVE  CredentialInv'
<1>0. TypeOK /\ conn \in [Threads -> ConnState]
    BY DEF CredentialInv, TypeOK
<1>1. /\ now' = now /\ password' = password /\ secret' = secret /\ settledAt' = settledAt
      /\ cached' = cached /\ expiresAt' = expiresAt /\ failedAt' = failedAt
    BY DEF BeginFetch, environment
<1>2. /\ conn'[c].phase = "call" /\ conn'[c].since = now
      /\ conn'[c].forced = forced /\ conn'[c].read = conn[c].read
      /\ conn'[c].tried = conn[c].tried
      /\ \A d \in Threads \ {c} : conn'[d] = conn[d]
      /\ holder = {} /\ holder' = {c} /\ lastAttempt' = now
    BY <1>0, BeginFetchFacts
<1>3. LockInv'
    BY <1>0, <1>1, <1>2, Numbers DEF CredentialInv, LockInv
<1>4. ClockInv'
    BY <1>0, <1>1, <1>2, Numbers DEF CredentialInv, ClockInv
<1>5. GenerationInv'
    BY <1>1, <1>2 DEF CredentialInv, GenerationInv
<1>6. RejectedForGood'
    BY <1>1, <1>2 DEF CredentialInv, RejectedForGood
<1>7. FreshInv'
    BY <1>1, <1>2 DEF CredentialInv, FreshInv
<1>8. RetryInv'
    BY <1>1, <1>2 DEF CredentialInv, RetryInv
<1>9. SpacingInv'
    BY <1>2 DEF SpacingInv
<1>. QED BY <1>3, <1>4, <1>5, <1>6, <1>7, <1>8, <1>9 DEF CredentialInv

(* Reading the secret answers a fetch without touching the cache.          *)
LEMMA SecretReadInv ==
    ASSUME CredentialInv, TypeOK', NEW c \in Threads, SecretRead(c)
    PROVE  CredentialInv'
<1>0. TypeOK /\ conn \in [Threads -> ConnState]
    BY DEF CredentialInv, TypeOK
<1>1. /\ now' = now /\ password' = password /\ secret' = secret /\ settledAt' = settledAt
      /\ cached' = cached /\ expiresAt' = expiresAt /\ lastAttempt' = lastAttempt
      /\ holder' = holder /\ failedAt' = failedAt
    BY DEF SecretRead, environment, provider
<1>2. /\ conn[c].phase = "call"
      /\ conn'[c].phase = "answer" /\ conn'[c].since = now /\ conn'[c].read = secret
      /\ conn'[c].forced = conn[c].forced /\ conn'[c].tried = conn[c].tried
      /\ \A d \in Threads \ {c} : conn'[d] = conn[d]
    BY <1>0 DEF SecretRead, ConnState
<1>3. LockInv'
    BY <1>0, <1>1, <1>2, Numbers DEF CredentialInv, LockInv, ClockInv
<1>4. ClockInv'
    BY <1>0, <1>1, <1>2, Numbers DEF CredentialInv, ClockInv
<1>5. GenerationInv'
    BY <1>0, <1>1, <1>2, Numbers DEF CredentialInv, GenerationInv
<1>6. RejectedForGood'
    BY <1>1, <1>2 DEF CredentialInv, RejectedForGood
<1>7. FreshInv'
    BY <1>1, <1>2 DEF CredentialInv, FreshInv, Disturbed
<1>8. RetryInv'
    BY <1>1, <1>2 DEF CredentialInv, RetryInv
<1>9. SpacingInv'
    BY <1>1 DEF CredentialInv, SpacingInv
<1>. QED BY <1>3, <1>4, <1>5, <1>6, <1>7, <1>8, <1>9 DEF CredentialInv

(* After a refresh the thread logs in, retries or gives up.                *)
LEMMA ResumeFacts ==
    ASSUME CredentialInv, NEW c \in Threads, NEW credential \in Nat \union {NoCredential},
           credential <= secret, Resume(c, credential)
    PROVE  /\ conn'[c].phase \in {"attempt", "retry", "rejected"}
           /\ conn'[c].phase # "rejected" => conn'[c].since = now
           /\ conn'[c].phase = "retry" => conn'[c].tried = credential
           /\ conn'[c].tried <= secret /\ conn'[c].read = 0
           /\ \A d \in Threads \ {c} : conn'[d] = conn[d]
           /\ conn'[c].phase = "rejected" =>
                conn[c].forced /\ credential \in {NoCredential, conn[c].tried}
<1>0. TypeOK /\ conn[c].tried <= secret /\ 0 <= secret
    BY DEF CredentialInv, GenerationInv, TypeOK
<1>1. CASE conn[c].forced
    <2>1. RetryWith(c, credential)
        BY <1>1 DEF Resume
    <2>. QED BY <1>0, <1>1, <2>1, RetryWithFacts
<1>2. CASE ~conn[c].forced
    <2>1. LogInWith(c, credential)
        BY <1>2 DEF Resume
    <2>. QED BY <1>0, <2>1, LogInWithFacts DEF StaticPassword
<1>. QED BY <1>1, <1>2

(* A successful fetch caches what was read and arms the jittered TTL.      *)
LEMMA FetchSucceedsInv ==
    ASSUME CredentialInv, TypeOK', NEW c \in Threads, FetchSucceeds(c)
    PROVE  CredentialInv'
<1>0. TypeOK /\ conn[c].read \in Nat /\ conn[c].read <= secret /\ conn[c].phase = "answer"
    BY Numbers DEF CredentialInv, GenerationInv, FetchSucceeds
<1>1. /\ now' = now /\ password' = password /\ secret' = secret /\ settledAt' = settledAt
      /\ cached' = conn[c].read /\ lastAttempt' = lastAttempt
      /\ holder' = {} /\ failedAt' = failedAt
    BY DEF FetchSucceeds, environment
<1>2. /\ conn'[c].phase \in {"attempt", "retry", "rejected"}
      /\ conn'[c].phase # "rejected" => conn'[c].since = now
      /\ conn'[c].phase = "retry" => conn'[c].tried = conn[c].read
      /\ conn'[c].tried <= secret /\ conn'[c].read = 0
      /\ \A d \in Threads \ {c} : conn'[d] = conn[d]
    BY <1>0, ResumeFacts DEF FetchSucceeds
<1>a. holder = {c} /\ lastAttempt <= conn[c].since
    BY <1>0 DEF CredentialInv, LockInv
<1>b. /\ conn[c].since <= now /\ now <= conn[c].since + MaxStep
      /\ conn[c].read # secret => conn[c].since <= settledAt
    BY <1>0 DEF CredentialInv, ClockInv, FreshInv, Exchanging
<1>3. LockInv'
    BY <1>1, <1>2, <1>a DEF CredentialInv, LockInv
<1>4. ClockInv'
    BY <1>0, <1>1, <1>2, Numbers DEF CredentialInv, ClockInv, Exchanging
<1>5. GenerationInv'
    BY <1>0, <1>1, <1>2, Numbers DEF CredentialInv, GenerationInv
<1>6. RejectedForGood'
    BY <1>1, <1>2 DEF CredentialInv, RejectedForGood
<1>7. FreshInv'
    <2>1. cached' # secret' => lastAttempt' <= settledAt'
        BY <1>0, <1>1, <1>a, <1>b, Numbers
    <2>. QED BY <1>1, <1>2, <2>1 DEF CredentialInv, FreshInv, Disturbed
<1>8. RetryInv'
    <2>1. conn[c].read # secret => now < settledAt + Wait
        BY <1>0, <1>b, Numbers
    <2>. QED BY <1>1, <1>2, <2>1 DEF CredentialInv, RetryInv
<1>9. SpacingInv'
    <2>1. PICK lifetime \in (TTL - Jitter) .. (TTL + Jitter) : expiresAt' = now + lifetime
        BY DEF FetchSucceeds
    <2>2. lastAttempt + MinGap <= expiresAt'
        BY <1>0, <1>a, <1>b, <2>1, Numbers, LifetimeBounds, CredentialConstants
    <2>. QED BY <1>1, <2>2 DEF SpacingInv, MinGap
<1>. QED BY <1>3, <1>4, <1>5, <1>6, <1>7, <1>8, <1>9 DEF CredentialInv

(* A failed fetch keeps the cache and arms the short negative TTL.         *)
LEMMA FetchFailsInv ==
    ASSUME CredentialInv, TypeOK', NEW c \in Threads, FetchFails(c)
    PROVE  CredentialInv'
<1>0. /\ TypeOK /\ conn[c].phase = "call"
      /\ cached \in Nat \union {NoCredential} /\ cached <= secret
    BY DEF CredentialInv, GenerationInv, FetchFails, TypeOK
<1>1. /\ now' = now /\ password' = password /\ secret' = secret /\ settledAt' = settledAt
      /\ cached' = cached /\ lastAttempt' = lastAttempt
      /\ expiresAt' = now + MinRefresh /\ holder' = {} /\ failedAt' = now
    BY DEF FetchFails, environment
<1>2. /\ conn'[c].phase \in {"attempt", "retry", "rejected"}
      /\ conn'[c].phase # "rejected" => conn'[c].since = now
      /\ conn'[c].tried <= secret /\ conn'[c].read = 0
      /\ \A d \in Threads \ {c} : conn'[d] = conn[d]
    BY <1>0, ResumeFacts DEF FetchFails
<1>a. holder = {c} /\ lastAttempt <= now /\ failedAt <= now /\ now # Never
    BY <1>0, Numbers DEF CredentialInv, LockInv, ClockInv, Never
<1>3. LockInv'
    BY <1>1, <1>2, <1>a DEF CredentialInv, LockInv
<1>4. ClockInv'
    BY <1>0, <1>1, <1>2, Numbers DEF CredentialInv, ClockInv, Exchanging
<1>5. GenerationInv'
    BY <1>0, <1>1, <1>2, Numbers DEF CredentialInv, GenerationInv
<1>6. RejectedForGood'
    BY <1>1, <1>2 DEF CredentialInv, RejectedForGood
<1>7. FreshInv'
    BY <1>1, <1>2, <1>a DEF CredentialInv, FreshInv, Disturbed
<1>8. RetryInv'
    <2>1. now < failedAt' + Wait
        BY <1>0, <1>1, Numbers
    <2>2. ASSUME NEW d \in Threads \ {c}, failedAt # Never, conn[d].since < failedAt + Wait
          PROVE  conn[d].since < failedAt' + Wait
        BY <1>0, <1>1, <1>a, <2>2, Numbers
    <2>. QED BY <1>1, <1>2, <1>a, <2>1, <2>2 DEF CredentialInv, RetryInv
<1>9. SpacingInv'
    <2>1. lastAttempt + MinGap <= now + MinRefresh
        BY <1>0, <1>a, Numbers
    <2>. QED BY <1>1, <2>1 DEF SpacingInv, MinGap
<1>. QED BY <1>3, <1>4, <1>5, <1>6, <1>7, <1>8, <1>9 DEF CredentialInv

(* Held off by the throttle, a thread uses what is cached: the secret, or  *)
(* something old only because it was fetched shortly before.               *)
LEMMA ThrottledIsRecent ==
    ASSUME CredentialInv, Throttled, holder = {}, cached # secret
    PROVE  \/ now < settledAt + MinRefresh
           \/ failedAt # Never /\ now < failedAt + MinRefresh
<1>1. Disturbed(lastAttempt) /\ TypeOK /\ now - lastAttempt < MinRefresh
    BY DEF CredentialInv, FreshInv, Throttled
<1>. QED BY <1>1, Numbers DEF Disturbed

(* A throttled force_refresh hands back whatever is cached.                *)
LEMMA ForceThrottledInv ==
    ASSUME CredentialInv, TypeOK', NEW c \in Threads, ForceThrottled(c)
    PROVE  CredentialInv'
<1>0. /\ TypeOK /\ conn[c].phase = "force" /\ Throttled /\ holder = {}
      /\ cached \in Nat \union {NoCredential} /\ cached <= secret
    BY DEF CredentialInv, GenerationInv, ForceThrottled, TypeOK, LockFree
<1>1. /\ now' = now /\ password' = password /\ secret' = secret /\ settledAt' = settledAt
      /\ cached' = cached /\ expiresAt' = expiresAt /\ lastAttempt' = lastAttempt
      /\ holder' = holder /\ failedAt' = failedAt
    BY DEF ForceThrottled, environment, provider
<1>2. /\ conn'[c].phase \in {"retry", "rejected"}
      /\ conn'[c].phase = "retry" => conn'[c].since = now /\ conn'[c].tried = cached
      /\ conn'[c].tried \in {conn[c].tried, cached} /\ conn'[c].read = 0
      /\ \A d \in Threads \ {c} : conn'[d] = conn[d]
    BY <1>0, RetryWithFacts DEF ForceThrottled
<1>3. LockInv'
    BY <1>0, <1>1, <1>2 DEF CredentialInv, LockInv
<1>4. ClockInv'
    BY <1>0, <1>1, <1>2, Numbers DEF CredentialInv, ClockInv, Exchanging
<1>5. GenerationInv'
    BY <1>0, <1>1, <1>2, Numbers DEF CredentialInv, GenerationInv
<1>6. RejectedForGood'
    BY <1>1, <1>2 DEF CredentialInv, RejectedForGood
<1>7. FreshInv'
    BY <1>1, <1>2 DEF CredentialInv, FreshInv, Disturbed
<1>8. RetryInv'
    <2>1. cached # secret =>
            \/ now < settledAt + Wait
            \/ failedAt # Never /\ now < failedAt + Wait
        BY <1>0, ThrottledIsRecent, Numbers
    <2>. QED BY <1>1, <1>2, <2>1 DEF CredentialInv, RetryInv
<1>9. SpacingInv'
    BY <1>1 DEF CredentialInv, SpacingInv
<1>. QED BY <1>3, <1>4, <1>5, <1>6, <1>7, <1>8, <1>9 DEF CredentialInv

(* A rotation makes what is known old, and dates it.                       *)
LEMMA EnvironmentInv ==
    ASSUME CredentialInv, TypeOK', SetPassword \/ PromoteSecret \/ StopOrStart
    PROVE  CredentialInv'
<1>0. TypeOK /\ secret <= password /\ settledAt <= now
    BY DEF CredentialInv, GenerationInv, ClockInv
<1>1. /\ now' = now /\ conn' = conn /\ cached' = cached /\ expiresAt' = expiresAt
      /\ lastAttempt' = lastAttempt /\ holder' = holder /\ failedAt' = failedAt
    BY DEF SetPassword, PromoteSecret, StopOrStart, provider
<1>2. /\ password <= password' /\ secret <= secret' /\ secret' <= password'
      /\ \/ secret' = secret /\ settledAt' = settledAt
         \/ settledAt' = now
    <2>1. CASE SetPassword
        BY <1>0, <2>1, Numbers DEF SetPassword
    <2>2. CASE PromoteSecret
        BY <1>0, <2>2, Numbers DEF PromoteSecret
    <2>3. CASE StopOrStart
        BY <1>0, <2>3, Numbers DEF StopOrStart
    <2>. QED BY <2>1, <2>2, <2>3
<1>a. /\ password' \in Nat /\ secret' \in Nat
    BY DEF TypeOK
<1>b. lastAttempt <= now /\ \A c \in Threads : conn[c].phase \in Exchanging => conn[c].since <= now
    BY DEF CredentialInv, ClockInv
<1>3. LockInv'
    BY <1>1 DEF CredentialInv, LockInv
<1>4. ClockInv'
    BY <1>0, <1>1, <1>2, Numbers DEF CredentialInv, ClockInv
<1>5. GenerationInv'
    BY <1>0, <1>1, <1>2, <1>a, Numbers DEF CredentialInv, GenerationInv
<1>6. RejectedForGood'
    BY <1>0, <1>1, <1>2, <1>a, Numbers DEF CredentialInv, RejectedForGood
<1>7. FreshInv'
    BY <1>1, <1>2, <1>b DEF CredentialInv, FreshInv, Disturbed, Exchanging
<1>8. RetryInv'
    <2>1. ASSUME settledAt' = now, NEW c \in Threads, conn[c].phase = "retry"
          PROVE  conn[c].since < settledAt' + Wait
        BY <1>0, <1>b, <2>1, Numbers DEF Exchanging
    <2>. QED BY <1>1, <1>2, <2>1 DEF CredentialInv, RetryInv
<1>9. SpacingInv'
    BY <1>1 DEF CredentialInv, SpacingInv
<1>. QED BY <1>3, <1>4, <1>5, <1>6, <1>7, <1>8, <1>9 DEF CredentialInv

(* Waiting threads only get older credentials, never newer failures.       *)
LEMMA CredentialTickInv ==
    ASSUME CredentialInv, TypeOK', Tick \/ UNCHANGED vars
    PROVE  CredentialInv'
<1>0. TypeOK
    BY DEF CredentialInv
<1>1. /\ password' = password /\ secret' = secret /\ settledAt' = settledAt
      /\ cached' = cached /\ expiresAt' = expiresAt /\ lastAttempt' = lastAttempt
      /\ holder' = holder /\ failedAt' = failedAt /\ conn' = conn
      /\ \/ now' = now
         \/ /\ now' = now + 1
            /\ \A c \in Threads : conn[c].phase \in Exchanging => now < conn[c].since + MaxStep
    BY DEF Tick, vars, environment, provider
<1>2. ClockInv'
    BY <1>0, <1>1, Numbers DEF CredentialInv, ClockInv
<1>3. LockInv' /\ GenerationInv' /\ RejectedForGood' /\ SpacingInv'
    BY <1>1 DEF CredentialInv, LockInv, GenerationInv, RejectedForGood, SpacingInv
<1>4. FreshInv' /\ RetryInv'
    BY <1>1 DEF CredentialInv, FreshInv, RetryInv, Disturbed
<1>. QED BY <1>2, <1>3, <1>4 DEF CredentialInv

(* The provider starts empty, and every generation is settled.             *)
LEMMA CredentialInitInv == Init => CredentialInv
<1>. SUFFICES ASSUME Init PROVE CredentialInv
    OBVIOUS
<1>1. \A c \in Threads : conn[c] = Fresh("idle")
    BY DEF Init
<1>2. TypeOK
    <2>1. Fresh("idle") \in ConnState
        BY PhaseMembers DEF Fresh, ConnState, StaticPassword
    <2>. QED BY <2>1 DEF Init, TypeOK
<1>3. LockInv /\ ClockInv
    BY <1>1 DEF Init, LockInv, ClockInv, Fresh, Exchanging, Never
<1>4. GenerationInv
    BY <1>1 DEF Init, GenerationInv, Fresh, StaticPassword, NoCredential
<1>5. RejectedForGood /\ RetryInv
    BY <1>1 DEF RejectedForGood, RetryInv, Fresh
<1>6. FreshInv /\ SpacingInv
    BY <1>1 DEF Init, FreshInv, SpacingInv, Fresh, Disturbed, Never
<1>. QED BY <1>2, <1>3, <1>4, <1>5, <1>6 DEF CredentialInv

(* Every step preserves the invariant.                                     *)
LEMMA CredentialNextInv == CredentialInv /\ [Next]_vars => CredentialInv'
<1>. SUFFICES ASSUME CredentialInv, [Next]_vars PROVE CredentialInv'
    OBVIOUS
<1>1. TypeOK'
    BY CredentialTypes DEF CredentialInv
<1>2. ASSUME NEW c \in Threads, CurrentFetch(c) \/ ForceFetch(c) PROVE CredentialInv'
    BY <1>1, <1>2, BeginFetchInv DEF CurrentFetch, ForceFetch
<1>. QED BY <1>1, <1>2, ConnectingInv, SecretReadInv, FetchSucceedsInv, FetchFailsInv,
            ForceThrottledInv, EnvironmentInv, CredentialTickInv DEF Next, Step

(* The inductive invariant.                                                *)
THEOREM CredentialInvariantHolds == Spec => []CredentialInv
BY CredentialInitInv, CredentialNextInv, PTL DEF Spec

-------------------------------------------------------------------------------
(* What follows from it                                                      *)

(* A step that attempts a fetch does so after the interval or the TTL.     *)
LEMMA FetchIsSpaced ==
    ASSUME CredentialInv, [Next]_vars, holder = {}, holder' # {}, lastAttempt # Never
    PROVE  now - lastAttempt >= MinGap
<1>0. TypeOK /\ lastAttempt + MinGap <= expiresAt
    BY DEF CredentialInv, SpacingInv
<1>1. PICK c \in Threads : CurrentFetch(c) \/ ForceFetch(c)
    <2>1. ASSUME NEW c \in Threads, Connect(c) \/ Step(c) \/ FetchFails(c),
                 ~CurrentFetch(c), ~ForceFetch(c)
          PROVE  holder' = holder \/ holder' = {}
        BY <2>1 DEF Step, Connect, CurrentCached, SecretRead, FetchSucceeds, FetchFails,
                    Attempt, Retry, LogIn, ForceThrottled, provider
    <2>2. CASE SetPassword \/ PromoteSecret \/ StopOrStart \/ Tick \/ UNCHANGED vars
        BY <2>2 DEF SetPassword, PromoteSecret, StopOrStart, Tick, vars, provider
    <2>. QED BY <2>1, <2>2 DEF Next
<1>2. CASE CurrentFetch(c)
    BY <1>0, <1>2, Numbers DEF CurrentFetch
<1>3. CASE ForceFetch(c)
    BY <1>0, <1>3, Numbers DEF ForceFetch, Throttled
<1>. QED BY <1>1, <1>2, <1>3

(* Secrets Manager is never asked more often than the throttle and the     *)
(* lifetime of a credential allow, whatever fails and whoever connects.    *)
THEOREM FetchesAreSpaced == Spec => FetchesSpaced
<1>. DEFINE Spaced == holder = {} /\ holder' # {} /\ lastAttempt # Never =>
                        now - lastAttempt >= MinGap
<1>1. CredentialInv /\ [Next]_vars => [Spaced]_vars
    BY FetchIsSpaced
<1>2. Spec => [][Spaced]_vars
    <2>. HIDE DEF Spaced
    <2>. QED BY <1>1, CredentialInvariantHolds, PTL DEF Spec
<1>. QED BY <1>2 DEF FetchesSpaced

(* A step that ends a connect rejected is excused by a recovery window.    *)
LEMMA RejectionIsExcused ==
    ASSUME CredentialInv, [Next]_vars, NEW c \in Threads,
           conn[c].phase # "rejected", conn'[c].phase = "rejected"
    PROVE  \/ secret # password
           \/ now < settledAt + Recovery
           \/ failedAt # Never /\ now < failedAt + Recovery
           \/ failedAt' = now
<1>. SUFFICES ASSUME secret = password PROVE
           \/ now < settledAt + Recovery
           \/ failedAt # Never /\ now < failedAt + Recovery
           \/ failedAt' = now
    OBVIOUS
<1>0. /\ TypeOK /\ Recovery = Wait + MaxStep
      /\ cached \in Nat \union {NoCredential} /\ cached <= secret
      /\ conn[c].read \in Nat /\ conn[c].read <= secret /\ NoCredential # secret
    BY Numbers DEF CredentialInv, GenerationInv, TypeOK, Recovery, Wait, NoCredential
<1>1. \/ ForceThrottled(c) \/ FetchSucceeds(c) \/ FetchFails(c) \/ Retry(c)
    <2>0. conn \in [Threads -> ConnState]
        BY <1>0 DEF TypeOK
    <2>1. CASE UNCHANGED conn
        BY <2>1
    <2>2. ASSUME NEW d \in Threads, Connect(d) \/ Step(d) \/ FetchFails(d),
                 d # c \/ Connect(c) \/ CurrentCached(c) \/ CurrentFetch(c) \/ SecretRead(c)
                    \/ Attempt(c) \/ ForceFetch(c)
          PROVE  FALSE
        <3>1. CASE Connect(d)
            <4>1. conn'[d] = Fresh("current") /\ \A e \in Threads \ {d} : conn'[e] = conn[e]
                BY <2>0, <3>1 DEF Connect
            <4>. QED BY <4>1 DEF Fresh
        <3>2. CASE CurrentCached(d)
            BY <1>0, <3>2, LogInWithFacts DEF CurrentCached
        <3>3. CASE CurrentFetch(d) \/ ForceFetch(d)
            BY <1>0, <3>3, BeginFetchFacts DEF CurrentFetch, ForceFetch
        <3>4. CASE SecretRead(d)
            BY <2>0, <3>4 DEF SecretRead, ConnState
        <3>5. CASE Attempt(d)
            <4>. DEFINE phase == IF ~up THEN "unreachable"
                        ELSE IF conn[d].tried = password THEN "connected" ELSE "force"
            <4>1. Goto(d, phase) /\ phase \in Phase /\ phase # "rejected"
                BY <3>5, PhaseMembers DEF Attempt, LogIn
            <4>. HIDE DEF phase
            <4>. QED BY <1>0, <4>1, GotoFacts
        <3>6. CASE d # c /\ (FetchSucceeds(d) \/ FetchFails(d))
            <4>1. PICK credential \in Nat \union {NoCredential} :
                        credential <= secret /\ Resume(d, credential)
                <5>1. conn[d].read \in Nat /\ conn[d].read <= secret
                    BY <1>0, Numbers DEF CredentialInv, GenerationInv
                <5>. QED BY <1>0, <3>6, <5>1 DEF FetchSucceeds, FetchFails
            <4>. QED BY <3>6, <4>1, ResumeFacts
        <3>7. CASE d # c /\ ForceThrottled(d)
            BY <1>0, <3>7, RetryWithFacts DEF ForceThrottled
        <3>8. CASE d # c /\ Retry(d)
            BY <2>0, <3>8 DEF Retry, LogIn, Goto
        <3>. QED BY <2>2, <3>1, <3>2, <3>3, <3>4, <3>5, <3>6, <3>7, <3>8 DEF Step
    <2>3. CASE SetPassword \/ PromoteSecret \/ StopOrStart \/ Tick \/ UNCHANGED vars
        BY <2>1, <2>3 DEF SetPassword, PromoteSecret, StopOrStart, Tick, vars
    <2>. QED BY <2>2, <2>3 DEF Next, Step
<1>2. CASE ForceThrottled(c)
    <2>1. /\ conn[c].phase = "force" /\ Throttled /\ holder = {}
          /\ cached \in {NoCredential, conn[c].tried}
        BY <1>0, <1>2, RetryWithFacts DEF ForceThrottled, LockFree, TypeOK
    <2>2. conn[c].tried < password
        BY <2>1 DEF CredentialInv, RejectedForGood
    <2>3. cached # secret
        BY <1>0, <2>1, <2>2, Numbers
    <2>. QED BY <1>0, <2>1, <2>3, ThrottledIsRecent, Numbers
<1>3. CASE FetchSucceeds(c)
    <2>1. conn[c].phase = "answer" /\ conn[c].forced /\ conn[c].read = conn[c].tried
        BY <1>0, <1>3, ResumeFacts DEF FetchSucceeds, NoCredential
    <2>2. conn[c].tried < password
        BY <2>1 DEF CredentialInv, RejectedForGood
    <2>3. conn[c].read # secret
        BY <1>0, <2>1, <2>2, Numbers
    <2>4. conn[c].since <= settledAt /\ now <= conn[c].since + MaxStep
        BY <2>1, <2>3 DEF CredentialInv, FreshInv, ClockInv, Exchanging
    <2>. QED BY <1>0, <2>4, Numbers
<1>4. CASE FetchFails(c)
    BY <1>4 DEF FetchFails
<1>5. CASE Retry(c)
    <2>1. conn[c].phase = "retry" /\ conn[c].tried # password
        <3>. DEFINE phase == IF ~up THEN "unreachable"
                    ELSE IF conn[c].tried = password THEN "connected" ELSE "rejected"
        <3>1. Goto(c, phase) /\ phase \in Phase /\ conn[c].phase = "retry"
            BY <1>5, PhaseMembers DEF Retry, LogIn
        <3>2. phase = "rejected"
            <4>. HIDE DEF phase
            <4>. QED BY <1>0, <3>1, GotoFacts
        <3>. QED BY <3>1, <3>2
    <2>2. \/ conn[c].since < settledAt + Wait
          \/ failedAt # Never /\ conn[c].since < failedAt + Wait
        BY <2>1 DEF CredentialInv, RetryInv
    <2>3. now <= conn[c].since + MaxStep
        BY <2>1 DEF CredentialInv, ClockInv, Exchanging
    <2>. QED BY <1>0, <2>2, <2>3, Numbers
<1>. QED BY <1>1, <1>2, <1>3, <1>4, <1>5

(* However many threads connect, however rotations and failures fall: a    *)
(* connect is only ever rejected while a rotation is under way, or within  *)
(* the recovery time of one or of a failed fetch.                          *)
THEOREM RejectionsAreExcused == Spec => RejectedOnlyInRecovery
<1>. DEFINE Excused == \A c \in Threads :
        conn[c].phase # "rejected" /\ conn'[c].phase = "rejected" =>
            \/ secret # password
            \/ now < settledAt + Recovery
            \/ failedAt # Never /\ now < failedAt + Recovery
            \/ failedAt' = now
<1>1. CredentialInv /\ [Next]_vars => [Excused]_vars
    BY RejectionIsExcused
<1>2. Spec => [][Excused]_vars
    <2>. HIDE DEF Excused
    <2>. QED BY <1>1, CredentialInvariantHolds, PTL DEF Spec
<1>. QED BY <1>2 DEF RejectedOnlyInRecovery

-------------------------------------------------------------------------------
(* How long an old password stays in use                                     *)

(* What is cached expires within a lifetime, or within the back-off of a   *)
(* failure; what is known to be old, within a lifetime of the promotion.   *)
LifetimeInv ==
    LET backedOff == failedAt # Never /\ expiresAt <= failedAt + MinRefresh
    IN  /\ expiresAt <= now + TTL + Jitter \/ backedOff
        /\ cached \notin {NoCredential, secret} =>
                expiresAt <= settledAt + TTL + Jitter + MaxStep \/ backedOff

(* A fetch that read the secret before it was promoted began before that.  *)
LEMMA FetchedLifetime ==
    ASSUME CredentialInv, NEW c \in Threads, FetchSucceeds(c)
    PROVE  LifetimeInv'
<1>0. TypeOK /\ TTL \in Nat /\ Jitter \in Nat /\ MaxStep \in Nat
    BY CredentialConstants DEF CredentialInv
<1>1. /\ now' = now /\ secret' = secret /\ settledAt' = settledAt
      /\ cached' = conn[c].read /\ conn[c].phase = "answer"
    BY DEF FetchSucceeds, environment
<1>2. expiresAt' \in Nat /\ expiresAt' <= now + TTL + Jitter
    <2>1. PICK lifetime \in (TTL - Jitter) .. (TTL + Jitter) : expiresAt' = now + lifetime
        BY DEF FetchSucceeds
    <2>2. lifetime \in Nat /\ lifetime <= TTL + Jitter
        BY <1>0, LifetimeBounds
    <2>. QED BY <1>0, <2>1, <2>2, Numbers
<1>3. now <= conn[c].since + MaxStep
    BY <1>1 DEF CredentialInv, ClockInv, Exchanging
<1>4. conn[c].read # secret => conn[c].since <= settledAt
    BY <1>1 DEF CredentialInv, FreshInv
<1>. QED BY <1>0, <1>1, <1>2, <1>3, <1>4, Numbers DEF LifetimeInv

(* Every other step leaves the cache alone, or dates a failure.            *)
LEMMA LifetimeStep == CredentialInv /\ LifetimeInv /\ [Next]_vars => LifetimeInv'
<1>. SUFFICES ASSUME CredentialInv, LifetimeInv, [Next]_vars PROVE LifetimeInv'
    OBVIOUS
<1>0. TypeOK /\ TTL \in Nat /\ Jitter \in Nat /\ MaxStep \in Nat
    BY CredentialConstants DEF CredentialInv
<1>1. ASSUME NEW c \in Threads, FetchFails(c) PROVE LifetimeInv'
    <2>1. failedAt' = now /\ expiresAt' = now + MinRefresh
        BY <1>1 DEF FetchFails
    <2>2. now # Never
        BY <1>0, Numbers DEF Never
    <2>. QED BY <1>0, <2>1, <2>2, Numbers DEF LifetimeInv
<1>2. ASSUME NEW c \in Threads, Connect(c) \/ Step(c), ~FetchSucceeds(c) PROVE LifetimeInv'
    <2>1. UNCHANGED <<now, secret, settledAt, cached, expiresAt, failedAt>>
        BY <1>2 DEF Step, Connect, CurrentCached, CurrentFetch, ForceFetch, BeginFetch,
                    SecretRead, Attempt, Retry, LogIn, ForceThrottled, provider, environment
    <2>. QED BY <2>1 DEF LifetimeInv
<1>3. CASE SetPassword \/ PromoteSecret \/ StopOrStart
    <2>1. /\ UNCHANGED <<now, cached, expiresAt, failedAt>>
          /\ UNCHANGED <<secret, settledAt>> \/ settledAt' = now
        BY <1>3 DEF SetPassword, PromoteSecret, StopOrStart, provider
    <2>. QED BY <1>0, <2>1, Numbers DEF LifetimeInv
<1>4. CASE Tick \/ UNCHANGED vars
    <2>1. /\ UNCHANGED <<secret, settledAt, cached, expiresAt, failedAt>>
          /\ now' = now \/ now' = now + 1
        BY <1>4 DEF Tick, vars, provider, environment
    <2>. QED BY <1>0, <2>1, Numbers DEF LifetimeInv
<1>. QED BY <1>1, <1>2, <1>3, <1>4, FetchedLifetime DEF Next

(* Whatever the lifetime, the jitter and the throttle: a password that is  *)
(* no longer the secret's is handed out for one lifetime after a rotation, *)
(* or within the back-off of a failed fetch, and no longer.                *)
THEOREM StaleForALifetime == Spec => []StaleOnlyForALifetime
<1>1. Init => LifetimeInv
    <2>. SUFFICES ASSUME Init PROVE LifetimeInv
        OBVIOUS
    <2>1. TypeOK
        BY CredentialInitInv DEF CredentialInv
    <2>. QED BY <2>1, CredentialConstants DEF Init, LifetimeInv, NoCredential
<1>2. CredentialInv /\ LifetimeInv => StaleOnlyForALifetime
    <2>. SUFFICES ASSUME CredentialInv, LifetimeInv PROVE StaleOnlyForALifetime
        OBVIOUS
    <2>1. TypeOK /\ TTL \in Nat /\ Jitter \in Nat
        BY CredentialConstants DEF CredentialInv
    <2>. QED BY <2>1, Numbers DEF LifetimeInv, StaleOnlyForALifetime
<1>. QED BY <1>1, <1>2, LifetimeStep, CredentialInvariantHolds, PTL DEF Spec

===============================================================================
