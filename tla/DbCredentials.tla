----------------------------- MODULE DbCredentials -----------------------------
(***************************************************************************)
(* Connect-time refresh of the rotating database password:                 *)
(* backend/app/db_credentials.py.  The SQLAlchemy engine and the           *)
(* checkpointer's pool open physical connections from many threads; every  *)
(* one asks the shared DbCredentialProvider for the password, tries to log *)
(* in, and after an authentication failure forces a refresh and tries at   *)
(* most once more.  The provider's lock is held across the Secrets Manager *)
(* call.  The rotation, the outages and the nightly stop of the database   *)
(* are the environment.                                                    *)
(***************************************************************************)
EXTENDS Integers

CONSTANTS
    Threads,            \* threads that open physical connections
    TTL,                \* db_password_refresh_ttl_seconds
    Jitter,             \* at most how far a lifetime is from TTL
    MinRefresh,         \* db_password_min_refresh_interval_seconds
    PromotedAtOnce,     \* TRUE: database and secret change in one step
    MaxStep,            \* bound: the longest network exchange
    MaxTime,            \* bound on the clock
    MaxRotations,       \* bound on rotations of the master password
    MaxFaults           \* bound on failed Secrets Manager calls

ASSUME CredentialConstants ==
    /\ TTL \in Nat \ {0} /\ Jitter \in Nat /\ Jitter < TTL
    /\ MinRefresh \in Nat
    /\ PromotedAtOnce \in BOOLEAN
    /\ MaxStep \in Nat /\ MaxTime \in Nat /\ MaxRotations \in Nat /\ MaxFaults \in Nat

VARIABLES
    now,            \* the monotonic clock
    password,       \* generation of the password the database accepts
    secret,         \* generation of the secret's current version
    up,             \* the database instance is running
    cached,         \* provider: _cached, or NoCredential
    expiresAt,      \* provider: _expires_at
    lastAttempt,    \* provider: _last_attempt_at, or Never
    holder,         \* provider: who holds the lock across a fetch, or none
    conn,           \* each thread's progress through a connect
    settledAt,      \* history: when the last rotation completed
    failedAt,       \* history: when the last fetch failed, or Never
    faults

environment == <<password, secret, up, settledAt>>
provider == <<cached, expiresAt, lastAttempt, holder>>
vars == <<now, environment, provider, conn, failedAt, faults>>

NoCredential == -1
Never == -1
StaticPassword == 0     \* DB_PASSWORD as injected at container start

Exchanging == {"call", "answer", "attempt", "retry"}
Outcome == {"connected", "rejected", "unreachable"}
Phase == {"idle", "current", "force"} \union Exchanging \union Outcome

ConnState == [phase : Phase,
              tried : Nat,                      \* cparams["password"]
              forced : BOOLEAN,                 \* reason of the fetch
              read : Nat,                       \* the response being awaited
              since : Nat]                      \* start of the exchange

-------------------------------------------------------------------------------
(* Helpers                                                                   *)

(* Secrets Manager's answer reaches only a caller that holds the lock.     *)
LockFree == \A d \in Threads : d \notin holder

Goto(c, phase) ==
    conn' = [conn EXCEPT ![c].phase = phase, ![c].since = 0, ![c].read = 0]

(* Faulty variant: the boot password is forgotten.                         *)
LogInWith_NoFallback(c, credential) ==
    conn' = [conn EXCEPT ![c].phase = "attempt", ![c].since = now, ![c].read = 0,
                         ![c].tried = credential]

(* Go on to log in with this credential, or with the boot password.        *)
LogInWith(c, credential) ==
    conn' = [conn EXCEPT
        ![c].phase = "attempt", ![c].since = now, ![c].read = 0,
        ![c].tried = IF credential = NoCredential THEN StaticPassword ELSE credential]

(* The compare-and-skip gate: only a password other than the rejected one. *)
RetryWith(c, credential) ==
    IF credential \in {NoCredential, conn[c].tried}
        THEN Goto(c, "rejected")
        ELSE conn' = [conn EXCEPT ![c].phase = "retry", ![c].since = now,
                                  ![c].read = 0, ![c].tried = credential]

Resume(c, credential) ==
    IF conn[c].forced THEN RetryWith(c, credential) ELSE LogInWith(c, credential)

Fresh(phase) ==
    [phase |-> phase, tried |-> StaticPassword, forced |-> FALSE, read |-> 0, since |-> 0]

-------------------------------------------------------------------------------
Init ==
    /\ now = 0
    /\ password = 0 /\ secret = 0 /\ up = TRUE
    /\ cached = NoCredential /\ expiresAt = 0 /\ lastAttempt = Never /\ holder = {}
    /\ conn = [c \in Threads |-> Fresh("idle")]
    /\ settledAt = 0 /\ failedAt = Never
    /\ faults = 0

(* A pool decides to open a physical connection, with parameters of its own. *)
Connect(c) ==
    /\ conn[c].phase \in {"idle"} \union Outcome
    /\ conn' = [conn EXCEPT ![c] = Fresh("current")]
    /\ UNCHANGED <<now, environment, provider, failedAt, faults>>

(* current(), within the lifetime of what is cached: nothing is also cached. *)
CurrentCached(c) ==
    /\ conn[c].phase = "current"
    /\ LockFree
    /\ now < expiresAt
    /\ LogInWith(c, cached)
    /\ UNCHANGED <<now, environment, provider, failedAt, faults>>

(* _fetch_locked, up to the request: the lock is kept across the call.     *)
BeginFetch(c, forced) ==
    /\ LockFree
    /\ holder' = {c}
    /\ lastAttempt' = now
    /\ conn' = [conn EXCEPT ![c].phase = "call", ![c].since = now, ![c].forced = forced]
    /\ UNCHANGED <<now, environment, cached, expiresAt, failedAt, faults>>

CurrentFetch(c) ==
    /\ conn[c].phase = "current"
    /\ expiresAt <= now
    /\ BeginFetch(c, FALSE)

(* Secrets Manager reads the secret's current version ...                  *)
SecretRead(c) ==
    /\ conn[c].phase = "call"
    /\ conn' = [conn EXCEPT ![c].phase = "answer", ![c].since = now, ![c].read = secret]
    /\ UNCHANGED <<now, environment, provider, failedAt, faults>>

(* ... and its answer is cached for a jittered lifetime.                   *)
FetchSucceeds(c) ==
    /\ conn[c].phase = "answer"
    /\ cached' = conn[c].read
    /\ \E lifetime \in (TTL - Jitter) .. (TTL + Jitter) : expiresAt' = now + lifetime
    /\ holder' = {}
    /\ Resume(c, conn[c].read)
    /\ UNCHANGED <<now, environment, lastAttempt, failedAt, faults>>

(* Faulty variant: a failed fetch does not hold off the next one.          *)
FetchFails_NoBackoff(c) ==
    /\ conn[c].phase = "call"
    /\ faults < MaxFaults
    /\ faults' = faults + 1
    /\ failedAt' = now
    /\ holder' = {}
    /\ Resume(c, cached)
    /\ UNCHANGED <<now, environment, cached, expiresAt, lastAttempt>>

(* Faulty variant: a failure is cached for as long as a success.           *)
FetchFails_LongBackoff(c) ==
    /\ conn[c].phase = "call"
    /\ faults < MaxFaults
    /\ faults' = faults + 1
    /\ failedAt' = now
    /\ expiresAt' = now + TTL
    /\ holder' = {}
    /\ Resume(c, cached)
    /\ UNCHANGED <<now, environment, cached, lastAttempt>>

(* Faulty variant: the lock is not released when the call raises.          *)
FetchFails_KeepsLock(c) ==
    /\ conn[c].phase = "call"
    /\ faults < MaxFaults
    /\ faults' = faults + 1
    /\ failedAt' = now
    /\ expiresAt' = now + MinRefresh
    /\ Resume(c, cached)
    /\ UNCHANGED <<now, environment, cached, lastAttempt, holder>>

(* A failed call is cached too, and the last good value is used.           *)
FetchFails(c) ==
    /\ conn[c].phase = "call"
    /\ faults < MaxFaults
    /\ faults' = faults + 1
    /\ failedAt' = now
    /\ expiresAt' = now + MinRefresh
    /\ holder' = {}
    /\ Resume(c, cached)
    /\ UNCHANGED <<now, environment, cached, lastAttempt>>

(* The database's answer to a login.  looks_like_auth_failure tells a      *)
(* rejected password from an instance that cannot be reached.              *)
LogIn(c, rejected) ==
    /\ Goto(c, IF ~up THEN "unreachable"
               ELSE IF conn[c].tried = password THEN "connected" ELSE rejected)
    /\ UNCHANGED <<now, environment, provider, failedAt, faults>>

Attempt(c) == conn[c].phase = "attempt" /\ LogIn(c, "force")

Retry(c) == conn[c].phase = "retry" /\ LogIn(c, "rejected")

Throttled == lastAttempt # Never /\ now - lastAttempt < MinRefresh

(* Faulty variant: throttled means give up, whatever has been cached since. *)
ForceThrottled_GiveUp(c) ==
    /\ conn[c].phase = "force"
    /\ LockFree
    /\ Throttled
    /\ Goto(c, "rejected")
    /\ UNCHANGED <<now, environment, provider, failedAt, faults>>

(* force_refresh(), too soon after the last fetch by any thread.           *)
ForceThrottled(c) ==
    /\ conn[c].phase = "force"
    /\ LockFree
    /\ Throttled
    /\ RetryWith(c, cached)
    /\ UNCHANGED <<now, environment, provider, failedAt, faults>>

ForceFetch(c) ==
    /\ conn[c].phase = "force"
    /\ ~Throttled
    /\ BeginFetch(c, TRUE)

-------------------------------------------------------------------------------
(* The environment                                                           *)

(* Rotation: the database takes the new password, then the secret's new    *)
(* version becomes the current one.                                        *)
SetPassword ==
    /\ secret = password /\ password < MaxRotations
    /\ password' = password + 1
    /\ IF PromotedAtOnce THEN secret' = password' /\ settledAt' = now
                         ELSE UNCHANGED <<secret, settledAt>>
    /\ UNCHANGED <<now, up, provider, conn, failedAt, faults>>

PromoteSecret ==
    /\ secret # password
    /\ secret' = password
    /\ settledAt' = now
    /\ UNCHANGED <<now, password, up, provider, conn, failedAt, faults>>

(* The instance is stopped at night and started in the morning.            *)
StopOrStart ==
    /\ up' = ~up
    /\ UNCHANGED <<now, password, secret, settledAt, provider, conn, failedAt, faults>>

(* Network exchanges end within MaxStep: connect_timeout and the client's  *)
(* timeouts bound them.  Waiting for the lock is not bounded.              *)
Tick ==
    /\ now < MaxTime
    /\ \A c \in Threads : conn[c].phase \in Exchanging => now < conn[c].since + MaxStep
    /\ now' = now + 1
    /\ UNCHANGED <<environment, provider, conn, failedAt, faults>>

Step(c) ==
    \/ CurrentCached(c) \/ CurrentFetch(c) \/ SecretRead(c) \/ FetchSucceeds(c)
    \/ Attempt(c) \/ ForceThrottled(c) \/ ForceFetch(c) \/ Retry(c)

Next ==
    \/ \E c \in Threads : Connect(c) \/ Step(c) \/ FetchFails(c)
    \/ SetPassword \/ PromoteSecret \/ StopOrStart
    \/ Tick

(* A thread that is connecting keeps running.                              *)
Fairness == \A c \in Threads : WF_vars(Step(c))

Spec == Init /\ [][Next]_vars

FairSpec == Spec /\ Fairness

-------------------------------------------------------------------------------
(* Properties                                                                *)

TypeOK ==
    /\ now \in Nat /\ faults \in Nat /\ settledAt \in Nat
    /\ password \in Nat /\ secret \in Nat /\ up \in BOOLEAN
    /\ cached \in Nat \union {NoCredential}
    /\ expiresAt \in Nat
    /\ lastAttempt \in Nat \union {Never} /\ failedAt \in Nat \union {Never}
    /\ holder \subseteq Threads
    /\ conn \in [Threads -> ConnState]

(* Whatever fails and however many threads connect, Secrets Manager is     *)
(* never asked again sooner than the throttle, or the shortest lifetime of *)
(* a cached credential, allows.                                            *)
MinGap == IF MinRefresh < TTL - Jitter THEN MinRefresh ELSE TTL - Jitter

FetchesSpaced ==
    [][holder = {} /\ holder' # {} /\ lastAttempt # Never =>
            now - lastAttempt >= MinGap]_vars

(* How long after a rotation, or a failed fetch, a connect may still be    *)
(* refused: the throttle, or a fetch that read the old secret, and then    *)
(* one login.                                                              *)
Recovery == (IF MinRefresh > MaxStep THEN MinRefresh ELSE MaxStep + 1) + MaxStep

(* A connect is given up as rejected, logged and raised, only while a      *)
(* rotation is under way, or soon after one or after a failed fetch.       *)
RejectedOnlyInRecovery ==
    [][\A c \in Threads :
        conn[c].phase # "rejected" /\ conn'[c].phase = "rejected" =>
            \/ secret # password
            \/ now < settledAt + Recovery
            \/ failedAt # Never /\ now < failedAt + Recovery
            \/ failedAt' = now]_vars

(* current() hands out a password that is no longer the secret's only for  *)
(* one lifetime after the rotation, or within the back-off of a failure.   *)
StaleOnlyForALifetime ==
    now < expiresAt /\ cached \notin {NoCredential, secret} =>
        \/ now < settledAt + TTL + Jitter + MaxStep
        \/ failedAt # Never /\ now < failedAt + MinRefresh

(* No connect waits for ever, for the lock or for an answer.               *)
EveryConnectEnds ==
    \A c \in Threads :
        conn[c].phase \in {"current", "force"} \union Exchanging
            ~> conn[c].phase \in Outcome

(* The claim made for the checkpointer's connection class: with Secrets    *)
(* Manager answering and the new secret current at once, a rotation is     *)
(* absorbed and no connect is ever rejected.                               *)
RotationAbsorbed == \A c \in Threads : conn[c].phase # "rejected"
===============================================================================
