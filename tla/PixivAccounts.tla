--------------------------- MODULE PixivAccounts ---------------------------
(***************************************************************************)
(* The Pixiv account pool (pixiv/account.py, accounts.py) under the retry  *)
(* loop of PixivClient (client.py).  A client call holds one slot of the   *)
(* client's semaphore for its whole retry loop; each attempt picks an      *)
(* account, authenticates it if its token is not fresh, sits out a         *)
(* cooldown, queues on the account's request lock, keeps the minimum       *)
(* interval, and sends one request from a thread.                          *)
(*                                                                         *)
(* All of it runs on one event loop: a step is the code between two        *)
(* awaits.  An asyncio.Lock is the FIFO queue of its waiters, its holder   *)
(* first.  Times are countdowns: ticks until a cooldown ends, until the    *)
(* minimum interval is over, until a sleeping call wakes.  The backoff     *)
(* sleep may have any length.                                              *)
(*                                                                         *)
(* A thread cannot be cancelled: the request or refresh of a cancelled     *)
(* call runs on as a stray, outside the locks its call has released.       *)
(***************************************************************************)
EXTENDS Naturals, Sequences, FiniteSets, SequencesExt

CONSTANTS Calls,       \* the slots of the client's semaphore
          Pool,        \* AccountPool._accounts, in order
          Premium,     \* the accounts with a subscription
          Strategies,  \* the AccountStrategy values in use
          NoAccount,
          Cooling,     \* cooling_duration, in ticks
          Interval,    \* min_interval, in ticks
          MaxRetries,  \* PixivClient._MAX_RETRIES
          MaxStray     \* bound on the strays under way at a time

Accounts == Range(Pool)

\* The ContextVar's default.
DefaultStrategy == [premium |-> FALSE, pin |-> NoAccount]

ASSUME PoolAssumption ==
    /\ Pool \in Seq(Accounts) /\ Pool # <<>> /\ IsInjective(Pool)
    /\ NoAccount \notin Accounts
    /\ Premium \subseteq Accounts
    /\ DefaultStrategy \in Strategies
    /\ Strategies \subseteq [premium : BOOLEAN, pin : Accounts \cup {NoAccount}]
    /\ Cooling \in Nat /\ Interval \in Nat /\ MaxRetries \in Nat /\ MaxStray \in Nat

Stages == {"idle", "select", "authwait", "authing", "cooling", "reqwait",
           "pacing", "calling", "backoff"}

\* The stages that have a thread at work.
Threaded == {"authing", "calling"}

VARIABLES
    status,   \* PixivAccount.status; ACTIVE with a token older than _AUTH_TTL
              \* is INACTIVE here, the code treats the two alike
    cool,     \* ticks until _cooldown_until
    quiet,    \* ticks until _last_call_end + min_interval
    lru,      \* the accounts by last_req_time, oldest first
    authQ,    \* _auth_lock: holder and waiters
    reqQ,     \* _req_lock: holder and waiters
    pc,       \* where a call is
    strategy, \* the AccountStrategy its task set
    acct,     \* the account of the current attempt
    attempt,  \* the retry loop's counter
    again,    \* re-authenticating after an auth error in the body
    nap,      \* ticks the call's own sleep still lasts
    stray     \* the threads of cancelled calls, by account and stage

accountVars == <<status, cool, quiet, lru>>
lockVars    == <<authQ, reqQ>>
callVars    == <<pc, strategy, acct, attempt, again, nap>>
vars        == <<accountVars, lockVars, callVars, stray>>

\* A new PixivAccount.
Fresh == [status |-> "INACTIVE", cool |-> 0, quiet |-> 0]

\* The pool as start-up loads it.
Init ==
    /\ status = [a \in Accounts |-> Fresh.status]
    /\ cool = [a \in Accounts |-> Fresh.cool]
    /\ quiet = [a \in Accounts |-> Fresh.quiet]
    /\ lru = Pool
    /\ authQ = [a \in Accounts |-> <<>>]
    /\ reqQ = [a \in Accounts |-> <<>>]
    /\ pc = [c \in Calls |-> "idle"]
    /\ strategy = [c \in Calls |-> DefaultStrategy]
    /\ acct = [c \in Calls |-> NoAccount]
    /\ attempt = [c \in Calls |-> 0]
    /\ again = [c \in Calls |-> FALSE]
    /\ nap = [c \in Calls |-> 0]
    /\ stray = [k \in Accounts \X Threaded |-> 0]

----------------------------------------------------------------------------
(* Locks *)

Holds(q, c) == q[acct[c]] # <<>> /\ Head(q[acct[c]]) = c
Join(q, a, c) == [q EXCEPT ![a] = Append(@, c)]
\* Leaving a lock: the holder releases it, a cancelled waiter drops out.
Leave(q, c) == [a \in DOMAIN q |-> RemoveFirst(q[a], c)]

(* AccountPool.select *)

Candidates(s) == {a \in Accounts : status[a] # "INVALID" /\ (s.premium => a \in Premium)}
Ready(s)      == {a \in Candidates(s) : cool[a] = 0}
Oldest(S)     == SelectSeq(lru, LAMBDA a : a \in S)[1]
Pinned(s)     == s.pin \in Candidates(s)

Selectable(s) ==
    IF Pinned(s) THEN {s.pin}
    ELSE IF Ready(s) # {} THEN {Oldest(Ready(s))}
    ELSE {a \in Candidates(s) : \A b \in Candidates(s) : cool[a] <= cool[b]}

\* The LRU branch alone marks the account as just used.
MarkUsed(s, a) ==
    IF Pinned(s) \/ Ready(s) = {} THEN lru ELSE Append(RemoveFirst(lru, a), a)

(* PixivAccount.authenticate and the cooldown check of execute *)

TokenFresh(a) == status[a] = "ACTIVE"

\* Where a call goes once its account a is authenticated: the retry after an
\* auth error goes straight to its second request; otherwise the call sleeps
\* as long as the cooldown lasts now, or joins the request lock.
Enter(c, a, redo) ==
    /\ pc' = [pc EXCEPT ![c] = IF redo THEN "calling"
                               ELSE IF cool[a] > 0 THEN "cooling" ELSE "reqwait"]
    /\ nap' = [nap EXCEPT ![c] = IF redo THEN 0 ELSE cool[a]]
    /\ reqQ' = IF redo \/ cool[a] > 0 THEN reqQ ELSE Join(reqQ, a, c)

(* The ways an attempt ends: every lock is released on the way out. *)

\* Slip: an exit that leaves the locks taken.
KeepLocks(c) == UNCHANGED lockVars
Release(c) == authQ' = Leave(authQ, c) /\ reqQ' = Leave(reqQ, c)

End(c) ==
    /\ pc' = [pc EXCEPT ![c] = "idle"]
    /\ acct' = [acct EXCEPT ![c] = NoAccount]
    /\ again' = [again EXCEPT ![c] = FALSE]
    /\ nap' = [nap EXCEPT ![c] = 0]
    /\ strategy' = [strategy EXCEPT ![c] = DefaultStrategy]
    /\ attempt' = [attempt EXCEPT ![c] = 0]

\* The next round of the retry loop starts at stage "to".
Again(c, to) ==
    /\ pc' = [pc EXCEPT ![c] = to]
    /\ attempt' = [attempt EXCEPT ![c] = @ + 1]
    /\ acct' = [acct EXCEPT ![c] = NoAccount]
    /\ again' = [again EXCEPT ![c] = FALSE]
    /\ nap' = [nap EXCEPT ![c] = 0]
    /\ UNCHANGED strategy

\* _execute_with_retry: a transient error backs off (and an invalid account
\* is switched at once) unless this was the last attempt.
Retry(c, to) ==
    IF attempt[c] < MaxRetries THEN Again(c, to) ELSE End(c)

----------------------------------------------------------------------------
(* The call up to its request *)

\* PixivClient._call takes a slot of the semaphore.
Begin(c, s) ==
    /\ pc[c] = "idle"
    /\ pc' = [pc EXCEPT ![c] = "select"]
    /\ strategy' = [strategy EXCEPT ![c] = s]
    /\ UNCHANGED <<accountVars, lockVars, acct, attempt, again, nap, stray>>

\* No valid account, or no premium one: raised through the retry loop.
NoneToSelect(c) ==
    /\ pc[c] = "select"
    /\ Candidates(strategy[c]) = {}
    /\ End(c)
    /\ UNCHANGED <<accountVars, lockVars>>

\* select and the entry of execute run without an await between them: a fresh
\* token skips the authentication lock.
Select(c, a) ==
    /\ pc[c] = "select"
    /\ a \in Selectable(strategy[c])
    /\ acct' = [acct EXCEPT ![c] = a]
    /\ lru' = MarkUsed(strategy[c], a)
    /\ IF TokenFresh(a)
       THEN Enter(c, a, FALSE) /\ UNCHANGED authQ
       ELSE /\ pc' = [pc EXCEPT ![c] = "authwait"]
            /\ authQ' = Join(authQ, a, c)
            /\ UNCHANGED <<reqQ, nap>>
    /\ UNCHANGED <<status, cool, quiet, strategy, attempt, again>>

\* The lock is ours and the token has been refreshed in the meantime.
FoundFresh(c) ==
    /\ pc[c] = "authwait" /\ Holds(authQ, c) /\ TokenFresh(acct[c])
    /\ authQ' = Leave(authQ, c)
    /\ Enter(c, acct[c], again[c])
    /\ UNCHANGED <<accountVars, strategy, acct, attempt, again>>

\* Slip: no second look at the token once the lock is ours.
SendAuthUnchecked(c) ==
    /\ pc[c] = "authwait" /\ Holds(authQ, c)
    /\ pc' = [pc EXCEPT ![c] = "authing"]
    /\ UNCHANGED <<accountVars, lockVars, strategy, acct, attempt, again, nap>>
SendAuth(c) ==
    /\ pc[c] = "authwait" /\ Holds(authQ, c) /\ ~TokenFresh(acct[c])
    /\ pc' = [pc EXCEPT ![c] = "authing"]
    /\ UNCHANGED <<accountVars, lockVars, strategy, acct, attempt, again, nap>>

AuthAccepted(c) ==
    /\ pc[c] = "authing"
    /\ status' = [status EXCEPT ![acct[c]] = "ACTIVE"]
    /\ authQ' = Leave(authQ, c)
    /\ Enter(c, acct[c], again[c])
    /\ UNCHANGED <<cool, quiet, lru, strategy, acct, attempt, again>>

\* HTTP 400 or 401, or "auth() failed": the refresh token is bad.
AuthRefused(c) ==
    /\ pc[c] = "authing"
    /\ status' = [status EXCEPT ![acct[c]] = "INVALID"]
    /\ Release(c)
    /\ Retry(c, "select")
    /\ UNCHANGED <<cool, quiet, lru>>

\* Any other failure of the auth request; an HTTP status in 4xx (403) makes
\* it permanent for the client, 429, 5xx and network errors do not.
AuthTrouble(c) ==
    /\ pc[c] = "authing"
    /\ Release(c)
    /\ Retry(c, "backoff") \/ End(c)
    /\ UNCHANGED accountVars

\* The cooldown sleep of execute is over.
WakeUp(c) ==
    /\ pc[c] = "cooling" /\ nap[c] = 0
    /\ pc' = [pc EXCEPT ![c] = "reqwait"]
    /\ reqQ' = Join(reqQ, acct[c], c)
    /\ UNCHANGED <<accountVars, authQ, strategy, acct, attempt, again, nap>>

\* Slip: the request lock is not taken.
PaceUnlocked(c) ==
    /\ pc[c] = "reqwait"
    /\ pc' = [pc EXCEPT ![c] = "pacing"]
    /\ nap' = [nap EXCEPT ![c] = quiet[acct[c]]]
    /\ UNCHANGED <<accountVars, lockVars, strategy, acct, attempt, again>>
\* Slip: the interval is not slept out.
PaceAtOnce(c) ==
    /\ pc[c] = "reqwait" /\ Holds(reqQ, c)
    /\ pc' = [pc EXCEPT ![c] = "pacing"]
    /\ UNCHANGED <<accountVars, lockVars, strategy, acct, attempt, again, nap>>
\* The request lock is ours: sleep for what is left of the minimum interval.
Pace(c) ==
    /\ pc[c] = "reqwait" /\ Holds(reqQ, c)
    /\ pc' = [pc EXCEPT ![c] = "pacing"]
    /\ nap' = [nap EXCEPT ![c] = quiet[acct[c]]]
    /\ UNCHANGED <<accountVars, lockVars, strategy, acct, attempt, again>>

Send(c) ==
    /\ pc[c] = "pacing" /\ nap[c] = 0
    /\ pc' = [pc EXCEPT ![c] = "calling"]
    /\ UNCHANGED <<accountVars, lockVars, strategy, acct, attempt, again, nap>>

----------------------------------------------------------------------------
(* What the request comes back with *)

\* _last_call_end is set whenever Pixiv answers with HTTP 200, whatever the
\* body says, and never when the request raises.
Stamp(c) == quiet' = [quiet EXCEPT ![acct[c]] = Interval]
Cool(c)  == cool' = [cool EXCEPT ![acct[c]] = Cooling]

Answered(c) ==
    /\ pc[c] = "calling"
    /\ Stamp(c)
    /\ Release(c)
    /\ End(c)
    /\ UNCHANGED <<status, cool, lru>>

\* A first auth error in the body: authenticate and send once more, holding
\* the request lock throughout.
AuthErrorBody(c) ==
    /\ pc[c] = "calling" /\ ~again[c]
    /\ Stamp(c)
    /\ status' = [status EXCEPT ![acct[c]] = "INACTIVE"]
    /\ pc' = [pc EXCEPT ![c] = "authwait"]
    /\ again' = [again EXCEPT ![c] = TRUE]
    /\ authQ' = Join(authQ, acct[c], c)
    /\ UNCHANGED <<cool, lru, reqQ, strategy, acct, attempt, nap>>

\* A second auth error in the body, or invalid_grant from the library.
BadGrant(c) ==
    /\ pc[c] = "calling"
    /\ (again[c] /\ Stamp(c)) \/ UNCHANGED quiet
    /\ status' = [status EXCEPT ![acct[c]] = "INVALID"]
    /\ Release(c)
    /\ Retry(c, "select")
    /\ UNCHANGED <<cool, lru>>

\* A rate limit: in the body, as HTTP 429 or as a library error.
RateLimited(c) ==
    /\ pc[c] = "calling"
    /\ Stamp(c) \/ UNCHANGED quiet
    /\ Cool(c)
    /\ Release(c)
    /\ Retry(c, "backoff")
    /\ UNCHANGED <<status, lru>>

\* HTTP 401: the access token died early.
TokenDied(c) ==
    /\ pc[c] = "calling"
    /\ status' = [status EXCEPT ![acct[c]] = "INACTIVE"]
    /\ Release(c)
    /\ End(c)
    /\ UNCHANGED <<cool, quiet, lru>>

\* A permanent 4xx, or NovelNotFoundError: the work is gone.
Gone(c) ==
    /\ pc[c] = "calling"
    /\ Release(c)
    /\ End(c)
    /\ UNCHANGED accountVars

\* Another error in the body, 5xx, 408, or a network error.
Trouble(c) ==
    /\ pc[c] = "calling"
    /\ Stamp(c) \/ UNCHANGED quiet
    /\ Release(c)
    /\ Retry(c, "backoff")
    /\ UNCHANGED <<status, cool, lru>>

BackoffOver(c) ==
    /\ pc[c] = "backoff"
    /\ pc' = [pc EXCEPT ![c] = "select"]
    /\ UNCHANGED <<accountVars, lockVars, strategy, acct, attempt, again, nap>>

----------------------------------------------------------------------------
(* Cancellation *)

Strays == FoldFunction(LAMBDA m, n : m + n, 0, stray)

\* CancelledError reaches the await but not the thread of asyncio.to_thread.
LeaveThread(c) ==
    IF pc[c] \in Threaded
    THEN /\ Strays < MaxStray
         /\ stray' = [stray EXCEPT ![<<acct[c], pc[c]>>] = @ + 1]
    ELSE UNCHANGED stray

\* The task is cancelled or runs out of time: CancelledError at the await the
\* call is in.
Cancel(c) ==
    /\ pc[c] # "idle"
    /\ LeaveThread(c)
    /\ Release(c)
    /\ End(c)
    /\ UNCHANGED accountVars

\* A stray comes back.  Nobody awaits it: the account is not stamped, its
\* status not set.
StrayEnds(a, stage) ==
    /\ stray[<<a, stage>>] > 0
    /\ stray' = [stray EXCEPT ![<<a, stage>>] = @ - 1]
    /\ UNCHANGED <<accountVars, lockVars, callVars>>

----------------------------------------------------------------------------
(* Time *)

Less(n) == IF n = 0 THEN 0 ELSE n - 1

Tick ==
    /\ \/ \E a \in Accounts : cool[a] + quiet[a] > 0
       \/ \E c \in Calls : nap[c] > 0
    /\ cool' = [a \in Accounts |-> Less(cool[a])]
    /\ quiet' = [a \in Accounts |-> Less(quiet[a])]
    /\ nap' = [c \in Calls |-> Less(nap[c])]
    /\ UNCHANGED <<status, lru, lockVars, pc, strategy, acct, attempt, again, stray>>

\* _AUTH_TTL after the last authentication.
TokenExpires(a) ==
    /\ TokenFresh(a)
    /\ status' = [status EXCEPT ![a] = "INACTIVE"]
    /\ UNCHANGED <<cool, quiet, lru, lockVars, callVars, stray>>

Step(c) ==
    /\ \/ NoneToSelect(c) \/ (\E a \in Accounts : Select(c, a))
       \/ FoundFresh(c) \/ SendAuth(c)
       \/ AuthAccepted(c) \/ AuthRefused(c) \/ AuthTrouble(c)
       \/ WakeUp(c) \/ Pace(c) \/ Send(c)
       \/ Answered(c) \/ AuthErrorBody(c) \/ BadGrant(c) \/ RateLimited(c)
       \/ TokenDied(c) \/ Gone(c) \/ Trouble(c) \/ BackoffOver(c)
    /\ UNCHANGED stray

Next ==
    \/ \E c \in Calls, s \in Strategies : Begin(c, s)
    \/ \E c \in Calls : Step(c) \/ Cancel(c)
    \/ \E a \in Accounts, stage \in Threaded : StrayEnds(a, stage)
    \/ Tick
    \/ \E a \in Accounts : TokenExpires(a)

Spec == Init /\ [][Next]_vars

\* Requests end (AppPixivAPI has a timeout), sleeps end, and the loop runs
\* every ready call; tasks need not make calls nor be cancelled.
FairSpec == Spec /\ WF_vars(Tick) /\ \A c \in Calls : WF_vars(Step(c))

----------------------------------------------------------------------------
(* Properties *)

AtAccount(c) == pc[c] \notin {"idle", "select", "backoff"}

TypeOK ==
    /\ status \in [Accounts -> {"INACTIVE", "ACTIVE", "INVALID"}]
    /\ cool \in [Accounts -> 0..Cooling]
    /\ quiet \in [Accounts -> 0..Interval]
    /\ lru \in [1..Len(Pool) -> Accounts] /\ IsInjective(lru)
    /\ authQ \in [Accounts -> Seq(Calls)]
    /\ reqQ \in [Accounts -> Seq(Calls)]
    /\ pc \in [Calls -> Stages]
    /\ strategy \in [Calls -> Strategies]
    /\ acct \in [Calls -> Accounts \cup {NoAccount}]
    /\ \A c \in Calls : (acct[c] \in Accounts) = AtAccount(c)
    /\ attempt \in [Calls -> 0..MaxRetries]
    /\ again \in [Calls -> BOOLEAN]
    /\ nap \in [Calls -> Nat]
    /\ stray \in [Accounts \X Threaded -> Nat]

\* A call is inside the request lock: pacing itself, its request under way, or
\* re-authenticating between its two requests.
InRequest(c) == pc[c] \in {"pacing", "calling"} \/ (pc[c] \in {"authwait", "authing"} /\ again[c])

\* _req_lock: of the calls that still wait for their answer an account serves
\* one at a time, from the interval check to the answer of the second request,
\* through re-authentication, errors and cancellations of the others.  Only the
\* request of a cancelled call can be under way beside it.
OneCallPerAccount ==
    \A c, d \in Calls : InRequest(c) /\ InRequest(d) /\ acct[c] = acct[d] => c = d

\* Rate limiting of execute: a call's first request leaves its account no
\* sooner than min_interval after the account's last answered one, however
\* long the call queued and whoever was answered meanwhile.  The answer of a
\* stray is not among them: nobody is there to note it.
PacedAfterAnswer ==
    [][\A c \in Calls : Send(c) => quiet[acct[c]] = 0]_vars

\* Double-checked locking of authenticate: the refreshes that calls of one
\* account wait for never overlap, and while one is under way nothing makes the
\* token fresh, so calls that find it stale at the same time refresh it once.
\* Only the refresh of a cancelled call can be under way beside it.
OneRefreshPerAccount ==
    \A c, d \in Calls :
        /\ pc[c] = "authing" => ~TokenFresh(acct[c])
        /\ pc[c] = "authing" /\ pc[d] = "authing" /\ acct[c] = acct[d] => c = d

\* Every call comes back, with an answer or an error: no lock is left taken,
\* no wait is circular (a call re-authenticates inside the request lock), no
\* retry loop goes on for ever.
CallsEnd == \A c \in Calls : []<>(pc[c] = "idle")

\* The threads at work for an account in a stage, strays included.
AtWork(a, stage) == stray[<<a, stage>>] + Cardinality({c \in Calls : pc[c] = stage /\ acct[c] = a})

\* What the two locks do not give: at most one request of an account, and one
\* refresh of its token, really under way.  Violated: a cancelled call releases
\* its locks while its thread runs on, and the next call starts another.
OneThreadPerAccount == \A a \in Accounts, stage \in Threaded : AtWork(a, stage) <= 1

\* account.py: "a cooling account returned by select() ... is made to actually
\* wait before issuing its next request".  The code checks the cooldown before
\* it queues on the request lock and not again: violated.
NoRequestInCooldown ==
    [][\A c \in Calls : Send(c) => cool[acct[c]] = 0]_vars

\* account.py on HTTP 401: "force a fresh auth on the next attempt instead of
\* retrying with the dead token"; its test: "stays_retryable".  The client
\* takes 401 for permanent and makes no next attempt: violated.
DeadTokenIsRetried ==
    [][\A c \in Calls : TokenDied(c) /\ attempt[c] < MaxRetries => pc'[c] # "idle"]_vars

=============================================================================
