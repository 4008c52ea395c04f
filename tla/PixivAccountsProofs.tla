------------------------ MODULE PixivAccountsProofs ------------------------
(***************************************************************************)
(* Safety of the account locks and of the pacing for any calls, pool and   *)
(* limits.                                                                 *)
(***************************************************************************)
EXTENDS PixivAccounts, SequenceTheorems, TLAPS

\* q is the queues of a lock that each account has: W are the calls that hold
\* it or wait for it, each once, at its account; H those that work inside it.
LockOK(q, at, W, H) ==
    /\ q \in [Accounts -> Seq(Calls)]
    /\ \A a \in Accounts : IsInjective(q[a])
    /\ \A a \in Accounts, c \in Calls :
         c \in Range(q[a]) <=> c \in W /\ at[c] = a
    /\ H \subseteq W
    /\ \A c \in H : Head(q[at[c]]) = c

AtAuth     == {c \in Calls : pc[c] \in {"authwait", "authing"}}
Refreshing == {c \in Calls : pc[c] = "authing"}
AtRequest  == {c \in Calls : pc[c] = "reqwait" \/ InRequest(c)}
Requesting == {c \in Calls : InRequest(c)}

\* While a refresh is under way nothing makes the token fresh.
RefreshNeeded == \A c \in Refreshing : ~TokenFresh(acct[c])

\* The strays are counts.
StrayOK == stray \in [Accounts \X Threaded -> Nat]

\* A call that paces itself sleeps at least as long as its account is quiet.
SleepsLongEnough == \A c \in Calls : pc[c] = "pacing" => quiet[acct[c]] <= nap[c]

\* A call authenticates again only between its two requests.
AgainOK == \A c \in Calls : again[c] => pc[c] \in {"authwait", "authing", "calling"}

IndInv == /\ TypeOK /\ AgainOK /\ Range(lru) = Accounts
          /\ LockOK(authQ, acct, AtAuth, Refreshing)
          /\ LockOK(reqQ, acct, AtRequest, Requesting)
          /\ RefreshNeeded /\ SleepsLongEnough
----------------------------------------------------------------------------
(* Queues *)

\* Leaving a queue takes the call out and nobody else, and a head that stays
\* remains the head.
LEMMA RemoveOnce ==
    ASSUME NEW S, NEW s \in Seq(S), IsInjective(s), NEW c
    PROVE  /\ RemoveFirst(s, c) \in Seq(S) /\ IsInjective(RemoveFirst(s, c))
           /\ Range(RemoveFirst(s, c)) = Range(s) \ {c}
           /\ s # <<>> /\ Head(s) # c =>
                RemoveFirst(s, c) # <<>> /\ Head(RemoveFirst(s, c)) = Head(s)
           /\ c \in Range(s) => Len(RemoveFirst(s, c)) = Len(s) - 1
<1> DEFINE r == RemoveFirst(s, c)
<1>0. DOMAIN s = 1..Len(s) /\ Len(s) \in Nat
  OBVIOUS
<1>1. CASE ~\E i \in 1..Len(s) : s[i] = c
  <2>1. r = s
    BY <1>1 DEF RemoveFirst
  <2>2. QED
    BY <1>0, <1>1, <2>1 DEF Range
<1>2. CASE \E i \in 1..Len(s) : s[i] = c
  <2>1. PICK k \in 1..Len(s) : s[k] = c
    BY <1>2
  <2>2. {i \in 1..Len(s) : s[i] = c} = {k}
    BY <1>0, <2>1 DEF IsInjective
  <2>3. SelectInSeq(s, LAMBDA v : v = c) = k
    BY <2>2 DEF SelectInSeq, Min
  <2>4. r = RemoveAt(s, k)
    BY <1>2, <2>3 DEF RemoveFirst
  <2>5. /\ r \in Seq(S) /\ Len(r) = Len(s) - 1
        /\ \A i \in 1..(Len(s) - 1) : r[i] = IF i < k THEN s[i] ELSE s[i + 1]
    <3> DEFINE front == SubSeq(s, 1, k - 1)
               back  == SubSeq(s, k + 1, Len(s))
    <3>1. /\ front \in Seq(S) /\ Len(front) = k - 1
          /\ \A i \in 1..(k - 1) : front[i] = s[i]
      <4>1. \A i \in 1..(k - 1) : s[i] \in S
        BY <1>0
      <4>2. QED
        BY <1>0, <4>1, SubSeqProperties
    <3>2. /\ back \in Seq(S) /\ Len(back) = Len(s) - k
          /\ \A i \in 1..(Len(s) - k) : back[i] = s[k + i]
      <4>1. \A i \in (k + 1)..Len(s) : s[i] \in S
        BY <1>0
      <4>2. k + 1 \in Int /\ Len(s) \in Int
        BY <1>0
      <4>3. /\ back \in Seq(S)
            /\ Len(back) = IF k + 1 <= Len(s) THEN Len(s) - (k + 1) + 1 ELSE 0
            /\ \A i \in 1..(Len(s) - (k + 1) + 1) : back[i] = s[k + 1 + i - 1]
        BY <4>1, <4>2, SubSeqProperties
      <4> HIDE DEF back
      <4>4. \A i \in 1..(Len(s) - k) : back[i] = s[k + i]
        <5> SUFFICES ASSUME NEW i \in 1..(Len(s) - k) PROVE back[i] = s[k + i]
          OBVIOUS
        <5>1. i \in 1..(Len(s) - (k + 1) + 1) /\ k + 1 + i - 1 = k + i
          BY <1>0
        <5>2. QED
          BY <4>3, <5>1
      <4>5. Len(back) = Len(s) - k
        <5>1. Len(back) = IF k + 1 <= Len(s) THEN Len(s) - (k + 1) + 1 ELSE 0
          BY <4>3
        <5>2. CASE k + 1 <= Len(s)
          BY <1>0, <5>1, <5>2
        <5>3. CASE ~(k + 1 <= Len(s))
          <6>1. k \in Nat /\ k <= Len(s) /\ Len(s) \in Nat
            BY <1>0, <2>1
          <6>2. k = Len(s)
            BY <5>3, <6>1
          <6>3. QED
            BY <5>1, <5>3, <6>1, <6>2
        <5>4. QED
          BY <5>2, <5>3
      <4>6. QED
        BY <4>3, <4>4, <4>5
    <3>3. r = front \o back
      BY <2>4 DEF RemoveAt
    <3> HIDE DEF front, back, r
    <3>4. /\ r \in Seq(S) /\ Len(r) = Len(front) + Len(back)
          /\ \A i \in 1..(Len(front) + Len(back)) :
               r[i] = IF i <= Len(front) THEN front[i] ELSE back[i - Len(front)]
      BY <3>1, <3>2, <3>3, ConcatProperties
    <3>5. Len(r) = Len(s) - 1
      BY <1>0, <3>1, <3>2, <3>4
    <3>6. ASSUME NEW i \in 1..(Len(s) - 1)
          PROVE  r[i] = IF i < k THEN s[i] ELSE s[i + 1]
      <4>1. CASE i < k
        <5>1. i \in 1..(k - 1) /\ i \in 1..(Len(front) + Len(back))
          BY <1>0, <2>1, <3>1, <3>2, <4>1
        <5>2. r[i] = front[i]
          BY <3>1, <3>4, <5>1
        <5>3. QED
          BY <3>1, <4>1, <5>1, <5>2
      <4>2. CASE ~(i < k)
        <5>1. r[i] = back[i - (k - 1)] /\ i - (k - 1) \in 1..(Len(s) - k)
          BY <1>0, <2>1, <3>1, <3>2, <3>4, <4>2
        <5>2. k + (i - (k - 1)) = i + 1
          BY <1>0
        <5>3. QED
          BY <3>2, <4>2, <5>1, <5>2
      <4>3. QED
        BY <4>1, <4>2
    <3>7. QED
      BY <3>4, <3>5, <3>6
  <2> HIDE DEF r
  <2>6. Range(r) = Range(s) \ {c}
    <3>1. ASSUME NEW x \in Range(r) PROVE x \in Range(s) /\ x # c
      BY <1>0, <2>1, <2>5, <3>1 DEF Range, IsInjective
    <3>2. ASSUME NEW x \in Range(s), x # c PROVE x \in Range(r)
      <4>1. PICK i \in 1..Len(s) : s[i] = x
        BY <1>0, <3>2 DEF Range
      <4>2. CASE i < k
        BY <1>0, <2>5, <4>1, <4>2 DEF Range
      <4>3. CASE i > k
        <5>1. i - 1 \in 1..(Len(s) - 1) /\ r[i - 1] = x
          BY <1>0, <2>5, <4>1, <4>3
        <5>2. QED
          BY <2>5, <5>1 DEF Range
      <4>4. QED
        BY <2>1, <3>2, <4>1, <4>2, <4>3
    <3>3. QED
      BY <3>1, <3>2
  <2>7. IsInjective(r)
    <3> DEFINE old(i) == IF i < k THEN i ELSE i + 1
    <3>1. \A i \in 1..(Len(s) - 1) : old(i) \in 1..Len(s) /\ r[i] = s[old(i)]
      BY <1>0, <2>5
    <3>2. \A i, j \in 1..(Len(s) - 1) : old(i) = old(j) => i = j
      BY <1>0
    <3>3. DOMAIN r = 1..(Len(s) - 1)
      BY <2>5
    <3> HIDE DEF old
    <3>4. QED
      BY <1>0, <3>1, <3>2, <3>3 DEF IsInjective
  <2>8. s # <<>> /\ Head(s) # c => r # <<>> /\ Head(r) = Head(s)
    BY <1>0, <2>1, <2>5
  <2>9. QED
    BY <2>5, <2>6, <2>7, <2>8 DEF r
<1>3. QED
  BY <1>1, <1>2

\* A call that was not in a queue joins it at the end.
LEMMA AppendOnce ==
    ASSUME NEW S, NEW s \in Seq(S), IsInjective(s), NEW c \in S, c \notin Range(s)
    PROVE  /\ Append(s, c) \in Seq(S) /\ IsInjective(Append(s, c))
           /\ Range(Append(s, c)) = Range(s) \cup {c}
           /\ s # <<>> => Head(Append(s, c)) = Head(s)
           /\ Len(Append(s, c)) = Len(s) + 1
<1> DEFINE r == Append(s, c)
<1>1. /\ DOMAIN s = 1..Len(s) /\ Len(s) \in Nat
      /\ r \in Seq(S) /\ Len(r) = Len(s) + 1 /\ DOMAIN r = 1..(Len(s) + 1)
      /\ \A i \in 1..Len(s) : r[i] = s[i]
      /\ r[Len(s) + 1] = c
  OBVIOUS
<1>2. s # <<>> => Head(r) = Head(s)
  OBVIOUS
<1> HIDE DEF r
<1>3. \A i \in DOMAIN r : i \in DOMAIN s \/ i = Len(s) + 1
  BY <1>1
<1>4. \A i \in DOMAIN s : i \in DOMAIN r /\ s[i] # c
  BY <1>1 DEF Range
<1>5. IsInjective(r)
  BY <1>1, <1>3, <1>4 DEF IsInjective
<1>6. Range(r) = Range(s) \cup {c}
  BY <1>1, <1>3, <1>4 DEF Range
<1>7. QED
  BY <1>1, <1>2, <1>5, <1>6 DEF r

----------------------------------------------------------------------------
(* Locks *)

LEMMA JoinOK ==
    ASSUME NEW q, NEW at, NEW W \in SUBSET Calls, NEW H, LockOK(q, at, W, H),
           \A d \in W : at[d] \in Accounts,
           NEW c \in Calls \ W, NEW a \in Accounts, NEW at2, at2[c] = a,
           \A d \in W : at2[d] = at[d]
    PROVE  LockOK(Join(q, a, c), at2, W \cup {c}, H)
<1> DEFINE p == Join(q, a, c)
<1>1. /\ q[a] \in Seq(Calls) /\ IsInjective(q[a]) /\ c \notin Range(q[a])
      /\ q \in [Accounts -> Seq(Calls)]
  BY DEF LockOK
<1>2. /\ p[a] = Append(q[a], c) /\ \A b \in Accounts \ {a} : p[b] = q[b]
  BY <1>1 DEF Join
<1>3. p[a] \in Seq(Calls) /\ IsInjective(p[a]) /\ Range(p[a]) = Range(q[a]) \cup {c}
  BY <1>1, <1>2, AppendOnce
<1>4. p \in [Accounts -> Seq(Calls)]
  BY <1>1, <1>3 DEF Join
<1> HIDE DEF p
<1>5. \A b \in Accounts : IsInjective(p[b])
  BY <1>2, <1>3 DEF LockOK
<1>6. \A b \in Accounts, d \in Calls :
        d \in Range(p[b]) <=> d \in W \cup {c} /\ at2[d] = b
  <2> SUFFICES ASSUME NEW b \in Accounts, NEW d \in Calls
               PROVE  d \in Range(p[b]) <=> d \in W \cup {c} /\ at2[d] = b
    OBVIOUS
  <2>1. d \in Range(q[b]) <=> d \in W /\ at[d] = b
    BY DEF LockOK
  <2>2. d \in Range(p[b]) <=> d \in Range(q[b]) \/ (d = c /\ b = a)
    BY <1>2, <1>3
  <2>3. QED
    BY <2>1, <2>2
<1>7. ASSUME NEW d \in H PROVE d \in W /\ Head(p[at2[d]]) = d
  <2>1. d \in W /\ at2[d] = at[d] /\ at[d] \in Accounts /\ Head(q[at[d]]) = d
    BY DEF LockOK
  <2>2. CASE at[d] = a
    <3>1. d \in Range(q[a])
      BY <2>1, <2>2 DEF LockOK
    <3>2. q[a] # <<>>
      BY <3>1 DEF Range
    <3>3. QED
      BY <1>1, <1>2, <2>1, <2>2, <3>2, AppendOnce
  <2>3. QED
    BY <1>2, <2>1, <2>2
<1>8. QED
  BY <1>4, <1>5, <1>6, <1>7 DEF LockOK, p

LEMMA LeaveOK ==
    ASSUME NEW q, NEW at, NEW W \in SUBSET Calls, NEW H, LockOK(q, at, W, H),
           \A d \in W : at[d] \in Accounts,
           NEW c \in Calls, NEW at2, \A d \in W \ {c} : at2[d] = at[d]
    PROVE  LockOK(Leave(q, c), at2, W \ {c}, H \ {c})
<1> DEFINE p == Leave(q, c)
<1>1. q \in [Accounts -> Seq(Calls)] /\ \A b \in Accounts : p[b] = RemoveFirst(q[b], c)
  BY DEF LockOK, Leave
<1>2. ASSUME NEW b \in Accounts
      PROVE  /\ p[b] \in Seq(Calls) /\ IsInjective(p[b])
             /\ Range(p[b]) = Range(q[b]) \ {c}
             /\ q[b] # <<>> /\ Head(q[b]) # c => Head(p[b]) = Head(q[b])
  <2>1. q[b] \in Seq(Calls) /\ IsInjective(q[b])
    BY <1>1 DEF LockOK
  <2>2. QED
    BY <1>1, <2>1, RemoveOnce
<1>3. p \in [Accounts -> Seq(Calls)]
  BY <1>1, <1>2 DEF Leave
<1> HIDE DEF p
<1>4. \A b \in Accounts, d \in Calls :
        d \in Range(p[b]) <=> d \in W \ {c} /\ at2[d] = b
  BY <1>2 DEF LockOK
<1>5. ASSUME NEW d \in H \ {c} PROVE d \in W \ {c} /\ Head(p[at2[d]]) = d
  <2>1. d \in W /\ at2[d] = at[d] /\ at[d] \in Accounts /\ Head(q[at[d]]) = d
    BY DEF LockOK
  <2>2. d \in Range(q[at[d]])
    BY <2>1 DEF LockOK
  <2>3. q[at[d]] # <<>>
    BY <2>2 DEF Range
  <2>4. QED
    BY <1>2, <2>1, <2>3
<1>6. QED
  BY <1>2, <1>3, <1>4, <1>5 DEF LockOK, p

\* Whoever works inside the lock of an account is alone there.
LEMMA OneInside ==
    ASSUME NEW q, NEW at, NEW W, NEW H, LockOK(q, at, W, H),
           NEW c \in H, NEW d \in H, at[c] = at[d]
    PROVE  c = d
BY DEF LockOK

\* A step that moves nobody into or out of a lock.
LEMMA SameLock ==
    ASSUME NEW q, NEW at, NEW W \in SUBSET Calls, NEW H, LockOK(q, at, W, H),
           NEW at2, \A d \in W : at2[d] = at[d]
    PROVE  LockOK(q, at2, W, H)
BY DEF LockOK

----------------------------------------------------------------------------
(* Each step keeps the invariant *)

LEMMA InitEstablishes == Init => IndInv
<1> SUFFICES ASSUME Init PROVE IndInv
  OBVIOUS
<1>1. lru \in [1..Len(Pool) -> Accounts] /\ IsInjective(lru) /\ Range(lru) = Accounts
  BY PoolAssumption DEF Init, Accounts
<1>2. NoAccount \notin Accounts /\ DefaultStrategy \in Strategies
      /\ 0 \in 0..Cooling /\ 0 \in 0..Interval /\ 0 \in 0..MaxRetries
  BY PoolAssumption
<1>3. TypeOK
  BY <1>1, <1>2 DEF Init, TypeOK, Fresh, Stages, AtAccount
<1>4. AtAuth = {} /\ Refreshing = {} /\ AtRequest = {} /\ Requesting = {}
  BY DEF Init, AtAuth, Refreshing, AtRequest, Requesting, InRequest
<1>5. IsInjective(<<>>) /\ Range(<<>>) = {}
  BY DEF IsInjective, Range
<1>6. LockOK(authQ, acct, {}, {}) /\ LockOK(reqQ, acct, {}, {})
  BY <1>5 DEF Init, LockOK
<1>7. QED
  BY <1>1, <1>3, <1>4, <1>6
     DEF IndInv, AgainOK, RefreshNeeded, SleepsLongEnough, Init

\* What the step of one call c leaves of the other calls.
OthersStay(c) == \A d \in Calls \ {c} :
    /\ pc'[d] = pc[d] /\ acct'[d] = acct[d] /\ again'[d] = again[d]
    /\ nap'[d] = nap[d]

\* A token is made fresh only by the call that refreshes it.
FreshOK(c) ==
    \/ \A a \in Accounts : status'[a] = "ACTIVE" => status[a] = "ACTIVE"
    \/ pc[c] = "authing" /\ status' = [status EXCEPT ![acct[c]] = "ACTIVE"]

\* An account becomes quiet only for the call inside its lock.
QuietOK(c) == \/ quiet' = quiet
              \/ InRequest(c) /\ quiet' = [quiet EXCEPT ![acct[c]] = Interval]

LEMMA AtAccounts ==
    ASSUME IndInv
    PROVE  /\ AtAuth \subseteq Calls /\ AtRequest \subseteq Calls
           /\ \A c \in AtAuth \cup AtRequest : acct[c] \in Accounts
           /\ \A c \in Calls : pc[c] = "pacing" => InRequest(c) /\ acct[c] \in Accounts
BY DEF IndInv, TypeOK, AtAccount, AtAuth, AtRequest, InRequest

\* The sets of a lock after the step of one call.
LEMMA SetsAfter ==
    ASSUME NEW c \in Calls, OthersStay(c)
    PROVE  /\ \A d \in Calls \ {c} : /\ d \in AtAuth' <=> d \in AtAuth
                                     /\ d \in Refreshing' <=> d \in Refreshing
                                     /\ d \in AtRequest' <=> d \in AtRequest
                                     /\ d \in Requesting' <=> d \in Requesting
           /\ c \in AtAuth' <=> pc'[c] \in {"authwait", "authing"}
           /\ c \in Refreshing' <=> pc'[c] = "authing"
           /\ c \in AtRequest' <=> pc'[c] = "reqwait" \/ InRequest(c)'
           /\ c \in Requesting' <=> InRequest(c)'
           /\ AtAuth' \subseteq Calls /\ Refreshing' \subseteq Calls
           /\ AtRequest' \subseteq Calls /\ Requesting' \subseteq Calls
           /\ AtAuth \subseteq Calls /\ Refreshing \subseteq Calls
           /\ AtRequest \subseteq Calls /\ Requesting \subseteq Calls
BY DEF OthersStay, AtAuth, Refreshing, AtRequest, Requesting, InRequest

\* The other calls' part of the two statements about accounts.
LEMMA OthersFine ==
    ASSUME IndInv, NEW c \in Calls, OthersStay(c), QuietOK(c), FreshOK(c)
    PROVE  \A d \in Calls \ {c} :
             /\ pc'[d] = "pacing" => quiet'[acct'[d]] <= nap'[d]
             /\ d \in Refreshing' => status'[acct'[d]] # "ACTIVE"
             /\ again'[d] => pc'[d] \in {"authwait", "authing", "calling"}
<1> SUFFICES ASSUME NEW d \in Calls \ {c}
             PROVE  /\ pc'[d] = "pacing" => quiet'[acct'[d]] <= nap'[d]
                    /\ d \in Refreshing' => status'[acct'[d]] # "ACTIVE"
                    /\ again'[d] => pc'[d] \in {"authwait", "authing", "calling"}
  OBVIOUS
<1>1. pc'[d] = pc[d] /\ acct'[d] = acct[d] /\ again'[d] = again[d] /\ nap'[d] = nap[d]
  BY DEF OthersStay
<1>2. ASSUME pc[d] = "pacing" PROVE quiet'[acct[d]] = quiet[acct[d]]
  <2>1. d \in Requesting /\ acct[d] \in Accounts
    BY <1>2, AtAccounts DEF Requesting
  <2>2. CASE InRequest(c) /\ quiet' = [quiet EXCEPT ![acct[c]] = Interval]
    <3>1. c \in Requesting
      BY <2>2 DEF Requesting
    <3>2. acct[c] # acct[d]
      BY <2>1, <3>1, OneInside DEF IndInv
    <3>3. QED
      BY <2>1, <2>2, <3>2 DEF IndInv, TypeOK
  <2>3. QED
    BY <2>2 DEF QuietOK
<1>3. pc'[d] = "pacing" => quiet'[acct'[d]] <= nap'[d]
  BY <1>1, <1>2 DEF IndInv, SleepsLongEnough
<1>4. ASSUME d \in Refreshing' PROVE status'[acct'[d]] # "ACTIVE"
  <2>1. /\ d \in Refreshing /\ acct[d] \in Accounts
        /\ status[acct[d]] # "ACTIVE"
    BY <1>1, <1>4 DEF IndInv, RefreshNeeded, TokenFresh, Refreshing, TypeOK, AtAccount
  <2>2. CASE \A a \in Accounts : status'[a] = "ACTIVE" => status[a] = "ACTIVE"
    BY <1>1, <2>1, <2>2
  <2>3. CASE pc[c] = "authing" /\ status' = [status EXCEPT ![acct[c]] = "ACTIVE"]
    <3>1. c \in Refreshing
      BY <2>3 DEF Refreshing
    <3>2. acct[c] # acct[d]
      BY <2>1, <3>1, OneInside DEF IndInv
    <3>3. QED
      BY <1>1, <2>1, <2>3, <3>2 DEF IndInv, TypeOK
  <2>4. QED
    BY <2>2, <2>3 DEF FreshOK
<1>5. again'[d] => pc'[d] \in {"authwait", "authing", "calling"}
  BY <1>1 DEF IndInv, AgainOK
<1>6. QED
  BY <1>3, <1>4, <1>5

\* Where the call c is on its way out of an attempt.
Outside(c, to) ==
    /\ pc' = [pc EXCEPT ![c] = to]
    /\ acct' = [acct EXCEPT ![c] = NoAccount]
    /\ again' = [again EXCEPT ![c] = FALSE]
    /\ nap' = [nap EXCEPT ![c] = 0]
    /\ strategy' \in [Calls -> Strategies] /\ attempt' \in [Calls -> 0..MaxRetries]

LEMMA EndIsOutside ==
    ASSUME TypeOK, NEW c \in Calls, End(c)
    PROVE  Outside(c, "idle")
BY PoolAssumption DEF TypeOK, End, Outside

LEMMA RetryIsOutside ==
    ASSUME TypeOK, NEW c \in Calls, NEW to \in {"select", "backoff"}, Retry(c, to)
    PROVE  \E x \in {"idle", "select", "backoff"} : Outside(c, x)
<1>1. CASE attempt[c] < MaxRetries
  <2>1. attempt[c] + 1 \in 0..MaxRetries
    BY <1>1, PoolAssumption DEF TypeOK
  <2>2. Outside(c, to)
    BY <1>1, <2>1 DEF TypeOK, Retry, Again, Outside
  <2>3. QED
    BY <2>2
<1>2. CASE ~(attempt[c] < MaxRetries)
  BY <1>2, EndIsOutside DEF Retry
<1>3. QED
  BY <1>1, <1>2

\* An attempt that ends with every lock released.
LEMMA EndingKeeps ==
    ASSUME IndInv, NEW c \in Calls, NEW x \in {"idle", "select", "backoff"},
           Outside(c, x), lru' = lru,
           \/ Release(c)
           \/ UNCHANGED lockVars /\ c \notin AtAuth /\ c \notin AtRequest,
           QuietOK(c), FreshOK(c),
           status' \in [Accounts -> {"INACTIVE", "ACTIVE", "INVALID"}],
           cool' \in [Accounts -> 0..Cooling], quiet' \in [Accounts -> 0..Interval], StrayOK'
    PROVE  IndInv'
<1>1. /\ pc'[c] = x /\ acct'[c] = NoAccount /\ ~again'[c]
      /\ OthersStay(c)
  BY DEF IndInv, TypeOK, Outside, OthersStay
<1>2. /\ AtAuth' = AtAuth \ {c} /\ Refreshing' = Refreshing \ {c}
      /\ AtRequest' = AtRequest \ {c} /\ Requesting' = Requesting \ {c}
  <2>1. ~InRequest(c)' /\ pc'[c] \notin {"authwait", "authing", "reqwait"}
    BY <1>1 DEF InRequest
  <2>2. QED
    BY <1>1, <2>1, SetsAfter
<1>3. /\ \A d \in AtAuth : acct[d] \in Accounts
      /\ \A d \in AtRequest : acct[d] \in Accounts
      /\ AtAuth \in SUBSET Calls /\ AtRequest \in SUBSET Calls
      /\ Refreshing \subseteq AtAuth /\ Requesting \subseteq AtRequest
      /\ \A d \in Calls \ {c} : acct'[d] = acct[d]
  BY <1>1, AtAccounts DEF OthersStay, IndInv, LockOK
<1>4. LockOK(authQ', acct', AtAuth', Refreshing')
  <2>1. CASE Release(c)
    <3>1. LockOK(Leave(authQ, c), acct', AtAuth \ {c}, Refreshing \ {c})
      BY <1>3, LeaveOK DEF IndInv
    <3>2. QED
      BY <1>2, <2>1, <3>1 DEF Release
  <2>2. CASE UNCHANGED lockVars /\ c \notin AtAuth /\ c \notin AtRequest
    <3>1. LockOK(authQ, acct', AtAuth, Refreshing)
      BY <1>3, <2>2, SameLock DEF IndInv
    <3>2. AtAuth' = AtAuth /\ Refreshing' = Refreshing
      BY <1>2, <1>3, <2>2
    <3>3. QED
      BY <2>2, <3>1, <3>2 DEF lockVars
  <2>3. QED
    BY <2>1, <2>2
<1>5. LockOK(reqQ', acct', AtRequest', Requesting')
  <2>1. CASE Release(c)
    <3>1. LockOK(Leave(reqQ, c), acct', AtRequest \ {c}, Requesting \ {c})
      BY <1>3, LeaveOK DEF IndInv
    <3>2. QED
      BY <1>2, <2>1, <3>1 DEF Release
  <2>2. CASE UNCHANGED lockVars /\ c \notin AtAuth /\ c \notin AtRequest
    <3>1. LockOK(reqQ, acct', AtRequest, Requesting)
      BY <1>3, <2>2, SameLock DEF IndInv
    <3>2. AtRequest' = AtRequest /\ Requesting' = Requesting
      BY <1>2, <1>3, <2>2
    <3>3. QED
      BY <2>2, <3>1, <3>2 DEF lockVars
  <2>3. QED
    BY <2>1, <2>2
<1>6. TypeOK'
  <2>1. NoAccount \notin Accounts
    BY PoolAssumption
  <2>2. authQ' \in [Accounts -> Seq(Calls)] /\ reqQ' \in [Accounts -> Seq(Calls)]
    BY <1>4, <1>5 DEF LockOK
  <2>3. QED
    BY <2>1, <2>2 DEF StrayOK, IndInv, TypeOK, Outside, Stages, AtAccount
<1>7. AgainOK' /\ RefreshNeeded' /\ SleepsLongEnough'
  <2>1. c \notin Refreshing' /\ pc'[c] # "pacing" /\ Refreshing' \subseteq Calls
    BY <1>1, <1>2, <1>3
  <2>2. QED
    BY <1>1, <2>1, OthersFine
       DEF AgainOK, RefreshNeeded, SleepsLongEnough, TokenFresh
<1>8. QED
  BY <1>4, <1>5, <1>6, <1>7 DEF IndInv

LEMMA QuietIsNat ==
    ASSUME TypeOK
    PROVE  \A a \in Accounts : quiet[a] \in Nat
<1>1. 0..Interval \subseteq Nat
  BY PoolAssumption
<1>2. QED
  BY <1>1 DEF TypeOK

\* A step inside an attempt: what is left to show of the call that takes it.
LEMMA InsideKeeps ==
    ASSUME IndInv, NEW c \in Calls, OthersStay(c), QuietOK(c), FreshOK(c),
           TypeOK', Range(lru') = Accounts,
           LockOK(authQ', acct', AtAuth', Refreshing'),
           LockOK(reqQ', acct', AtRequest', Requesting'),
           again'[c] => pc'[c] \in {"authwait", "authing", "calling"},
           pc'[c] = "authing" => status'[acct'[c]] # "ACTIVE",
           pc'[c] = "pacing" => quiet'[acct'[c]] <= nap'[c]
    PROVE  IndInv'
<1>1. Refreshing' \subseteq Calls /\ (c \in Refreshing' => pc'[c] = "authing")
  BY SetsAfter
<1>2. AgainOK' /\ RefreshNeeded' /\ SleepsLongEnough'
  BY <1>1, OthersFine DEF AgainOK, RefreshNeeded, SleepsLongEnough, TokenFresh
<1>3. QED
  BY <1>2 DEF IndInv

\* Enter moves a call to its request or to the request lock.
LEMMA EnterOK ==
    ASSUME IndInv, NEW c \in Calls, NEW a \in Accounts, Enter(c, a, again[c]),
           OthersStay(c), acct'[c] = a, again'[c] = again[c],
           again[c] => c \in Requesting /\ acct[c] = a,
           ~again[c] => c \notin AtRequest
    PROVE  /\ LockOK(reqQ', acct', AtRequest', Requesting')
           /\ pc' \in [Calls -> Stages] /\ nap' \in [Calls -> Nat]
           /\ pc'[c] \in {"calling", "cooling", "reqwait"}
           /\ again[c] => pc'[c] = "calling"
<1>1. /\ pc \in [Calls -> Stages] /\ nap \in [Calls -> Nat] /\ cool[a] \in Nat
      /\ again[c] \in BOOLEAN
  BY PoolAssumption DEF IndInv, TypeOK
<1>2. /\ pc'[c] = IF again[c] THEN "calling" ELSE IF cool[a] > 0 THEN "cooling" ELSE "reqwait"
      /\ pc' \in [Calls -> Stages] /\ nap' \in [Calls -> Nat]
  BY <1>1 DEF Enter, Stages
<1>3. /\ \A d \in AtRequest : acct[d] \in Accounts
      /\ AtRequest \in SUBSET Calls /\ Requesting \subseteq AtRequest
      /\ LockOK(reqQ, acct, AtRequest, Requesting)
      /\ \A d \in Calls \ {c} : acct'[d] = acct[d]
  BY AtAccounts DEF OthersStay, IndInv, LockOK
<1>4. CASE again[c]
  <2>1. InRequest(c)' /\ c \in Requesting
    BY <1>2, <1>4 DEF InRequest
  <2>2. AtRequest' = AtRequest /\ Requesting' = Requesting
    BY <1>3, <2>1, SetsAfter
  <2>3. LockOK(reqQ, acct', AtRequest, Requesting)
    BY <1>3, <1>4, SameLock
  <2>4. reqQ' = reqQ
    BY <1>4 DEF Enter
  <2>5. QED
    BY <1>2, <1>4, <2>2, <2>3, <2>4
<1>5. CASE ~again[c] /\ cool[a] > 0
  <2>1. ~InRequest(c)' /\ pc'[c] = "cooling" /\ c \notin Requesting
    BY <1>2, <1>3, <1>5 DEF InRequest
  <2>2. AtRequest' = AtRequest /\ Requesting' = Requesting
    BY <1>3, <1>5, <2>1, SetsAfter
  <2>3. LockOK(reqQ, acct', AtRequest, Requesting)
    BY <1>3, <1>5, SameLock
  <2>4. reqQ' = reqQ
    BY <1>5 DEF Enter
  <2>5. QED
    BY <1>2, <1>5, <2>2, <2>3, <2>4
<1>6. CASE ~again[c] /\ ~(cool[a] > 0)
  <2>1. ~InRequest(c)' /\ pc'[c] = "reqwait" /\ c \notin Requesting
    BY <1>2, <1>3, <1>6 DEF InRequest
  <2>2. AtRequest' = AtRequest \cup {c} /\ Requesting' = Requesting
    BY <1>3, <1>6, <2>1, SetsAfter
  <2>3. LockOK(Join(reqQ, a, c), acct', AtRequest \cup {c}, Requesting)
    BY <1>3, <1>6, JoinOK
  <2>4. reqQ' = Join(reqQ, a, c)
    BY <1>6 DEF Enter
  <2>5. QED
    BY <1>2, <1>6, <2>2, <2>3, <2>4
<1>7. QED
  BY <1>1, <1>4, <1>5, <1>6

\* A fresh mark moves an account to the end of the use order.
LEMMA MarkUsedOK ==
    ASSUME IndInv, NEW a \in Accounts, NEW s
    PROVE  /\ MarkUsed(s, a) \in [1..Len(Pool) -> Accounts]
           /\ IsInjective(MarkUsed(s, a)) /\ Range(MarkUsed(s, a)) = Accounts
<1>1. Len(Pool) \in Nat
  BY PoolAssumption
<1>2. /\ lru \in [1..Len(Pool) -> Accounts] /\ IsInjective(lru)
      /\ Range(lru) = Accounts
  BY DEF IndInv, TypeOK
<1>3. lru \in Seq(Accounts) /\ Len(lru) = Len(Pool)
  BY <1>1, <1>2
<1> DEFINE r == RemoveFirst(lru, a)
<1>4. /\ r \in Seq(Accounts) /\ IsInjective(r) /\ Range(r) = Accounts \ {a}
      /\ Len(r) = Len(Pool) - 1
  BY <1>2, <1>3, RemoveOnce
<1> HIDE DEF r
<1>5. /\ Append(r, a) \in Seq(Accounts) /\ IsInjective(Append(r, a))
      /\ Range(Append(r, a)) = Range(r) \cup {a}
      /\ Len(Append(r, a)) = Len(r) + 1
  BY <1>4, AppendOnce
<1>6. Len(Append(r, a)) = Len(Pool) /\ Range(Append(r, a)) = Accounts
  BY <1>1, <1>4, <1>5
<1>7. Append(r, a) \in [1..Len(Pool) -> Accounts]
  BY <1>5, <1>6, LenProperties
<1>8. QED
  BY <1>2, <1>5, <1>6, <1>7 DEF MarkUsed, r

LEMMA BeginKeeps ==
    ASSUME IndInv, NEW c \in Calls, NEW s \in Strategies, Begin(c, s), StrayOK'
    PROVE  IndInv'
<1>1. /\ pc' = [pc EXCEPT ![c] = "select"] /\ pc[c] = "idle"
      /\ UNCHANGED <<accountVars, lockVars, acct, attempt, again, nap>>
      /\ TypeOK' /\ OthersStay(c) /\ QuietOK(c) /\ FreshOK(c)
  BY DEF Begin, IndInv, TypeOK, accountVars, lockVars, Stages, AtAccount,
         OthersStay, QuietOK, FreshOK
<1>2. /\ AtAuth' = AtAuth /\ Refreshing' = Refreshing
      /\ AtRequest' = AtRequest /\ Requesting' = Requesting
  BY <1>1 DEF IndInv, TypeOK, AtAuth, Refreshing, AtRequest, Requesting, InRequest, AgainOK
<1>3. QED
  BY <1>1, <1>2, InsideKeeps DEF IndInv, AgainOK, accountVars, lockVars, TypeOK

LEMMA SelectKeeps ==
    ASSUME IndInv, NEW c \in Calls, NEW a \in Accounts, Select(c, a), StrayOK'
    PROVE  IndInv'
<1>1. /\ pc[c] = "select" /\ ~again[c] /\ acct'[c] = a /\ again' = again
      /\ c \notin AtAuth /\ c \notin AtRequest
      /\ OthersStay(c) /\ QuietOK(c) /\ FreshOK(c)
      /\ acct' \in [Calls -> Accounts \cup {NoAccount}]
      /\ UNCHANGED <<status, cool, quiet, strategy, attempt>>
  BY DEF Select, Enter, IndInv, TypeOK, AgainOK, OthersStay, QuietOK, FreshOK,
         AtAuth, AtRequest, InRequest
<1>2. /\ lru' \in [1..Len(Pool) -> Accounts] /\ IsInjective(lru')
      /\ Range(lru') = Accounts
  BY MarkUsedOK DEF Select
<1>3. /\ \A d \in AtAuth \cup AtRequest : acct[d] \in Accounts
      /\ AtAuth \in SUBSET Calls /\ AtRequest \in SUBSET Calls
      /\ Refreshing \subseteq AtAuth /\ Requesting \subseteq AtRequest
      /\ \A d \in Calls \ {c} : acct'[d] = acct[d]
  BY <1>1, AtAccounts DEF OthersStay, IndInv, LockOK
<1>4. CASE TokenFresh(a)
  <2>1. Enter(c, a, again[c]) /\ authQ' = authQ
    BY <1>1, <1>4 DEF Select, Enter
  <2>2. /\ LockOK(reqQ', acct', AtRequest', Requesting')
        /\ pc' \in [Calls -> Stages] /\ nap' \in [Calls -> Nat]
        /\ pc'[c] \in {"calling", "cooling", "reqwait"}
    BY <1>1, <2>1, EnterOK
  <2>3. AtAuth' = AtAuth /\ Refreshing' = Refreshing
    BY <1>1, <1>3, <2>2, SetsAfter
  <2>4. LockOK(authQ', acct', AtAuth', Refreshing')
    BY <1>1, <1>3, <2>1, <2>3, SameLock DEF IndInv
  <2>5. TypeOK'
    <3>1. authQ' \in [Accounts -> Seq(Calls)] /\ reqQ' \in [Accounts -> Seq(Calls)]
      BY <2>2, <2>4 DEF LockOK
    <3>2. \A d \in Calls : (acct'[d] \in Accounts) = AtAccount(d)'
      BY <1>1, <2>2 DEF IndInv, TypeOK, AtAccount, OthersStay
    <3>3. QED
      BY <1>1, <1>2, <2>2, <3>1, <3>2 DEF StrayOK, IndInv, TypeOK
  <2>6. pc'[c] # "pacing"
    BY <2>2
  <2>7. QED
    BY <1>1, <1>2, <2>2, <2>4, <2>5, <2>6, InsideKeeps
<1>5. CASE ~TokenFresh(a)
  <2>1. /\ pc' = [pc EXCEPT ![c] = "authwait"] /\ authQ' = Join(authQ, a, c)
        /\ UNCHANGED <<reqQ, nap>>
    BY <1>5 DEF Select
  <2>2. pc'[c] = "authwait" /\ ~InRequest(c)'
    BY <1>1, <2>1 DEF InRequest, IndInv, TypeOK
  <2>3. /\ AtAuth' = AtAuth \cup {c} /\ Refreshing' = Refreshing
        /\ AtRequest' = AtRequest /\ Requesting' = Requesting
    BY <1>1, <1>3, <2>2, SetsAfter
  <2>4. LockOK(Join(authQ, a, c), acct', AtAuth \cup {c}, Refreshing)
    BY <1>1, <1>3, JoinOK DEF IndInv
  <2>5. LockOK(reqQ, acct', AtRequest, Requesting)
    BY <1>1, <1>3, SameLock DEF IndInv
  <2>6. /\ LockOK(authQ', acct', AtAuth', Refreshing')
        /\ LockOK(reqQ', acct', AtRequest', Requesting')
    BY <2>1, <2>3, <2>4, <2>5
  <2>7. TypeOK'
    BY <1>1, <1>2, <2>1, <2>6
       DEF StrayOK, IndInv, TypeOK, Select, LockOK, AtAccount, OthersStay, Stages
  <2>8. QED
    BY <1>1, <1>2, <2>2, <2>6, <2>7, InsideKeeps
<1>6. QED
  BY <1>4, <1>5

\* The end of authenticate, whoever refreshed the token.
LEMMA AuthenticatedKeeps ==
    ASSUME IndInv, NEW c \in Calls, FoundFresh(c) \/ AuthAccepted(c), StrayOK'
    PROVE  IndInv'
<1>1. /\ pc[c] \in {"authwait", "authing"} /\ acct[c] \in Accounts
      /\ authQ' = Leave(authQ, c) /\ Enter(c, acct[c], again[c])
      /\ UNCHANGED <<acct, again, cool, quiet, lru, strategy, attempt>>
      /\ status' \in [Accounts -> {"INACTIVE", "ACTIVE", "INVALID"}]
      /\ QuietOK(c) /\ FreshOK(c)
  <2>1. CASE FoundFresh(c)
    BY <2>1 DEF FoundFresh, IndInv, TypeOK, AtAccount, accountVars, QuietOK, FreshOK
  <2>2. CASE AuthAccepted(c)
    BY <2>2 DEF AuthAccepted, IndInv, TypeOK, AtAccount, QuietOK, FreshOK
  <2>3. QED
    BY <2>1, <2>2
<1>2. OthersStay(c)
  BY <1>1 DEF Enter, OthersStay, IndInv, TypeOK
<1>3. c \in AtAuth /\ (again[c] => c \in Requesting) /\ (~again[c] => c \notin AtRequest)
  BY <1>1 DEF AtAuth, Requesting, AtRequest, InRequest
<1>4. /\ LockOK(reqQ', acct', AtRequest', Requesting')
      /\ pc' \in [Calls -> Stages] /\ nap' \in [Calls -> Nat]
      /\ pc'[c] \in {"calling", "cooling", "reqwait"}
      /\ again[c] => pc'[c] = "calling"
  BY <1>1, <1>2, <1>3, EnterOK
<1>5. AtAuth' = AtAuth \ {c} /\ Refreshing' = Refreshing \ {c}
  BY <1>2, <1>4, SetsAfter
<1>6. LockOK(authQ', acct', AtAuth', Refreshing')
  <2>1. AtAuth \in SUBSET Calls /\ \A d \in AtAuth : acct[d] \in Accounts
    BY AtAccounts
  <2>2. LockOK(Leave(authQ, c), acct, AtAuth \ {c}, Refreshing \ {c})
    BY <2>1, LeaveOK DEF IndInv
  <2>3. QED
    BY <1>1, <1>5, <2>2
<1>7. TypeOK'
  <2>1. authQ' \in [Accounts -> Seq(Calls)] /\ reqQ' \in [Accounts -> Seq(Calls)]
    BY <1>4, <1>6 DEF LockOK
  <2>2. \A d \in Calls : (acct'[d] \in Accounts) = AtAccount(d)'
    BY <1>1, <1>2, <1>4 DEF IndInv, TypeOK, AtAccount, OthersStay
  <2>3. QED
    BY <1>1, <1>4, <2>1, <2>2 DEF StrayOK, IndInv, TypeOK
<1>8. Range(lru') = Accounts /\ pc'[c] # "authing" /\ pc'[c] # "pacing"
  BY <1>1, <1>4 DEF IndInv
<1>9. QED
  BY <1>1, <1>2, <1>4, <1>6, <1>7, <1>8, InsideKeeps

\* A step that leaves the locks alone, and its call at the lock it was at.
LEMMA StayingKeeps ==
    ASSUME IndInv, NEW c \in Calls,
           \/ SendAuth(c) \/ Pace(c) \/ Send(c) \/ BackoffOver(c), StrayOK'
    PROVE  IndInv'
<1>1. /\ UNCHANGED <<accountVars, lockVars, strategy, acct, attempt, again>>
      /\ pc' \in [Calls -> Stages] /\ nap' \in [Calls -> Nat]
      /\ OthersStay(c) /\ QuietOK(c) /\ FreshOK(c)
  <2>1. /\ UNCHANGED <<accountVars, lockVars, strategy, acct, attempt, again>>
        /\ \E x \in Stages : pc' = [pc EXCEPT ![c] = x]
    BY DEF SendAuth, Pace, Send, BackoffOver, Stages
  <2>2. nap' = nap \/ (pc[c] = "reqwait" /\ nap' = [nap EXCEPT ![c] = quiet[acct[c]]])
    BY DEF SendAuth, Pace, Send, BackoffOver
  <2>3. pc[c] = "reqwait" => quiet[acct[c]] \in Nat
    BY QuietIsNat DEF IndInv, TypeOK, AtAccount
  <2>4. pc' \in [Calls -> Stages] /\ nap' \in [Calls -> Nat] /\ OthersStay(c)
    BY <2>1, <2>2, <2>3 DEF IndInv, TypeOK, OthersStay
  <2>5. QuietOK(c) /\ FreshOK(c)
    BY <2>1 DEF accountVars, QuietOK, FreshOK
  <2>6. QED
    BY <2>1, <2>4, <2>5
<1>2. AtAccount(c)' = AtAccount(c)
  BY DEF SendAuth, Pace, Send, BackoffOver, AtAccount, IndInv, TypeOK
<1>3. TypeOK'
  <2>1. \A d \in Calls : (acct'[d] \in Accounts) = AtAccount(d)'
    BY <1>1, <1>2 DEF IndInv, TypeOK, AtAccount, OthersStay
  <2>2. QED
    BY <1>1, <2>1 DEF StrayOK, IndInv, TypeOK, accountVars, lockVars
<1>4. /\ authQ' = authQ /\ reqQ' = reqQ /\ acct' = acct /\ Range(lru') = Accounts
      /\ status' = status /\ quiet' = quiet /\ again' = again
  BY <1>1 DEF IndInv, accountVars, lockVars
<1>5. Refreshing \subseteq AtAuth /\ Requesting \subseteq AtRequest
  BY DEF IndInv, LockOK
<1>6. CASE SendAuth(c)
  <2>1. /\ pc[c] = "authwait" /\ pc'[c] = "authing" /\ ~TokenFresh(acct[c])
        /\ Head(authQ[acct[c]]) = c
    BY <1>6 DEF SendAuth, Holds, IndInv, TypeOK
  <2>2. InRequest(c)' = InRequest(c) /\ c \in AtAuth
    BY <1>4, <2>1 DEF InRequest, AtAuth
  <2>3. /\ AtAuth' = AtAuth /\ Refreshing' = Refreshing \cup {c}
        /\ AtRequest' = AtRequest /\ Requesting' = Requesting
    BY <1>1, <2>1, <2>2, SetsAfter DEF AtRequest, Requesting
  <2>4. LockOK(authQ, acct, AtAuth, Refreshing \cup {c})
    BY <2>1, <2>2 DEF IndInv, LockOK
  <2>5. /\ LockOK(authQ', acct', AtAuth', Refreshing')
        /\ LockOK(reqQ', acct', AtRequest', Requesting')
    BY <1>4, <2>3, <2>4 DEF IndInv
  <2>6. status'[acct'[c]] # "ACTIVE" /\ pc'[c] # "pacing"
    BY <1>4, <2>1 DEF TokenFresh
  <2>7. QED
    BY <1>1, <1>3, <1>4, <2>1, <2>5, <2>6, InsideKeeps
<1>7. CASE Pace(c)
  <2>1. /\ pc[c] = "reqwait" /\ pc'[c] = "pacing" /\ nap'[c] = quiet[acct[c]]
        /\ Head(reqQ[acct[c]]) = c
    BY <1>7 DEF Pace, Holds, IndInv, TypeOK
  <2>2. InRequest(c)' /\ c \in AtRequest /\ c \notin AtAuth /\ ~again[c]
        /\ c \notin Refreshing
    BY <2>1 DEF InRequest, AtAuth, AtRequest, Refreshing, IndInv, AgainOK
  <2>3. /\ AtAuth' = AtAuth /\ Refreshing' = Refreshing
        /\ AtRequest' = AtRequest /\ Requesting' = Requesting \cup {c}
    <3>1. OthersStay(c) /\ pc'[c] \notin {"authwait", "authing"} /\ pc'[c] # "authing"
      BY <1>1, <2>1
    <3>2. AtAuth' = AtAuth /\ Refreshing' = Refreshing
      BY <2>2, <3>1, SetsAfter
    <3>3. AtRequest' = AtRequest /\ Requesting' = Requesting \cup {c}
      BY <2>2, <3>1, SetsAfter
    <3>4. QED
      BY <3>2, <3>3
  <2>4. LockOK(reqQ, acct, AtRequest, Requesting \cup {c})
    BY <2>1, <2>2 DEF IndInv, LockOK
  <2>5. /\ LockOK(authQ', acct', AtAuth', Refreshing')
        /\ LockOK(reqQ', acct', AtRequest', Requesting')
    BY <1>4, <2>3, <2>4 DEF IndInv
  <2>6. quiet[acct[c]] \in Nat
    BY <2>1, QuietIsNat DEF IndInv, TypeOK, AtAccount
  <2>7. ~again'[c] /\ pc'[c] # "authing" /\ quiet'[acct'[c]] <= nap'[c]
    BY <1>4, <2>1, <2>2, <2>6
  <2>8. QED
    BY <1>1, <1>3, <1>4, <2>5, <2>7, InsideKeeps
<1>8. CASE Send(c)
  <2>1. pc[c] = "pacing" /\ pc'[c] = "calling"
    BY <1>8 DEF Send, IndInv, TypeOK
  <2>2. /\ AtAuth' = AtAuth /\ Refreshing' = Refreshing
        /\ AtRequest' = AtRequest /\ Requesting' = Requesting
    BY <1>1, <2>1, SetsAfter DEF InRequest, AtAuth, Refreshing, AtRequest, Requesting
  <2>3. /\ LockOK(authQ', acct', AtAuth', Refreshing')
        /\ LockOK(reqQ', acct', AtRequest', Requesting')
    BY <1>4, <2>2 DEF IndInv
  <2>4. QED
    BY <1>1, <1>3, <1>4, <2>1, <2>3, InsideKeeps
<1>9. CASE BackoffOver(c)
  <2>1. pc[c] = "backoff" /\ pc'[c] = "select" /\ ~again[c]
    BY <1>9 DEF BackoffOver, IndInv, TypeOK, AgainOK
  <2>2. /\ AtAuth' = AtAuth /\ Refreshing' = Refreshing
        /\ AtRequest' = AtRequest /\ Requesting' = Requesting
    BY <1>1, <1>4, <2>1, SetsAfter DEF InRequest, AtAuth, Refreshing, AtRequest, Requesting
  <2>3. /\ LockOK(authQ', acct', AtAuth', Refreshing')
        /\ LockOK(reqQ', acct', AtRequest', Requesting')
    BY <1>4, <2>2 DEF IndInv
  <2>4. QED
    BY <1>1, <1>3, <1>4, <2>1, <2>3, InsideKeeps
<1>10. QED
  BY <1>6, <1>7, <1>8, <1>9

LEMMA WakeUpKeeps ==
    ASSUME IndInv, NEW c \in Calls, WakeUp(c), StrayOK'
    PROVE  IndInv'
<1>1. /\ pc[c] = "cooling" /\ pc' = [pc EXCEPT ![c] = "reqwait"]
      /\ pc'[c] = "reqwait" /\ acct[c] \in Accounts /\ ~again[c]
      /\ reqQ' = Join(reqQ, acct[c], c)
      /\ UNCHANGED <<accountVars, authQ, strategy, acct, attempt, again, nap>>
      /\ OthersStay(c) /\ QuietOK(c) /\ FreshOK(c)
  BY DEF WakeUp, IndInv, TypeOK, AgainOK, AtAccount, accountVars, OthersStay,
         QuietOK, FreshOK
<1>2. /\ c \notin AtAuth /\ c \notin AtRequest /\ ~InRequest(c)'
      /\ AtRequest \in SUBSET Calls /\ \A d \in AtRequest : acct[d] \in Accounts
      /\ Refreshing \subseteq AtAuth /\ Requesting \subseteq AtRequest
  BY <1>1, AtAccounts DEF AtAuth, AtRequest, InRequest, IndInv, LockOK
<1>3. /\ AtAuth' = AtAuth /\ Refreshing' = Refreshing
      /\ AtRequest' = AtRequest \cup {c} /\ Requesting' = Requesting
  BY <1>1, <1>2, SetsAfter
<1>4. LockOK(Join(reqQ, acct[c], c), acct, AtRequest \cup {c}, Requesting)
  BY <1>1, <1>2, JoinOK DEF IndInv
<1>5. /\ LockOK(authQ', acct', AtAuth', Refreshing')
      /\ LockOK(reqQ', acct', AtRequest', Requesting')
  BY <1>1, <1>3, <1>4 DEF IndInv
<1>6. TypeOK'
  <2>1. \A d \in Calls : (acct'[d] \in Accounts) = AtAccount(d)'
    BY <1>1 DEF IndInv, TypeOK, AtAccount, OthersStay
  <2>2. QED
    BY <1>1, <1>5, <2>1 DEF StrayOK, IndInv, TypeOK, accountVars, LockOK, Stages
<1>7. QED
  BY <1>1, <1>5, <1>6, InsideKeeps DEF IndInv, accountVars

LEMMA AuthErrorBodyKeeps ==
    ASSUME IndInv, NEW c \in Calls, AuthErrorBody(c), StrayOK'
    PROVE  IndInv'
<1>1. /\ pc[c] = "calling" /\ ~again[c] /\ acct[c] \in Accounts
      /\ pc' = [pc EXCEPT ![c] = "authwait"] /\ pc'[c] = "authwait"
      /\ again' = [again EXCEPT ![c] = TRUE] /\ again'[c]
      /\ authQ' = Join(authQ, acct[c], c)
      /\ status' = [status EXCEPT ![acct[c]] = "INACTIVE"]
      /\ quiet' = [quiet EXCEPT ![acct[c]] = Interval]
      /\ UNCHANGED <<cool, lru, reqQ, strategy, acct, attempt, nap>>
      /\ OthersStay(c) /\ QuietOK(c) /\ FreshOK(c)
  BY DEF AuthErrorBody, Stamp, IndInv, TypeOK, AtAccount, OthersStay, QuietOK,
         FreshOK, InRequest
<1>2. /\ c \notin AtAuth /\ c \in Requesting /\ InRequest(c)'
      /\ AtAuth \in SUBSET Calls /\ \A d \in AtAuth : acct[d] \in Accounts
      /\ Refreshing \subseteq AtAuth /\ Requesting \subseteq AtRequest
  BY <1>1, AtAccounts DEF AtAuth, Requesting, InRequest, IndInv, LockOK
<1>3. /\ AtAuth' = AtAuth \cup {c} /\ Refreshing' = Refreshing
      /\ AtRequest' = AtRequest /\ Requesting' = Requesting
  <2>1. c \notin Refreshing /\ c \in AtRequest /\ OthersStay(c) /\ pc'[c] = "authwait"
    BY <1>1, <1>2
  <2>2. QED
    BY <1>2, <2>1, SetsAfter
<1>4. LockOK(Join(authQ, acct[c], c), acct, AtAuth \cup {c}, Refreshing)
  BY <1>1, <1>2, JoinOK DEF IndInv
<1>5. /\ LockOK(authQ', acct', AtAuth', Refreshing')
      /\ LockOK(reqQ', acct', AtRequest', Requesting')
  BY <1>1, <1>3, <1>4 DEF IndInv
<1>6. TypeOK'
  <2>1. \A d \in Calls : (acct'[d] \in Accounts) = AtAccount(d)'
    BY <1>1 DEF IndInv, TypeOK, AtAccount, OthersStay
  <2>2. Interval \in 0..Interval
    BY PoolAssumption
  <2>3. QED
    BY <1>1, <1>5, <2>1, <2>2 DEF StrayOK, IndInv, TypeOK, LockOK, Stages
<1>7. QED
  BY <1>1, <1>5, <1>6, InsideKeeps DEF IndInv

LEMMA EnderKeeps ==
    ASSUME IndInv, NEW c \in Calls,
           \/ NoneToSelect(c) \/ AuthRefused(c) \/ AuthTrouble(c)
           \/ Answered(c) \/ BadGrant(c) \/ RateLimited(c) \/ TokenDied(c)
           \/ Gone(c) \/ Trouble(c) \/ Cancel(c), StrayOK'
    PROVE  IndInv'
<1>1. \E x \in {"idle", "select", "backoff"} : Outside(c, x)
  BY EndIsOutside, RetryIsOutside
     DEF IndInv, NoneToSelect, AuthRefused, AuthTrouble, Answered, BadGrant,
         RateLimited, TokenDied, Gone, Trouble, Cancel
<1>2. \/ Release(c)
      \/ UNCHANGED lockVars /\ c \notin AtAuth /\ c \notin AtRequest
  BY DEF NoneToSelect, AuthRefused, AuthTrouble, Answered, BadGrant,
         RateLimited, TokenDied, Gone, Trouble, Cancel, AtAuth, AtRequest, InRequest
<1>3. QuietOK(c)
  BY DEF QuietOK, InRequest, Stamp, accountVars, NoneToSelect, AuthRefused,
         AuthTrouble, Answered, BadGrant, RateLimited, TokenDied, Gone, Trouble, Cancel
<1>4. \/ status' = status
      \/ \E v \in {"INACTIVE", "INVALID"} : status' = [status EXCEPT ![acct[c]] = v]
  BY DEF accountVars, NoneToSelect, AuthRefused,
         AuthTrouble, Answered, BadGrant, RateLimited, TokenDied, Gone, Trouble, Cancel
<1>5. FreshOK(c) /\ status' \in [Accounts -> {"INACTIVE", "ACTIVE", "INVALID"}]
  BY <1>4 DEF FreshOK, IndInv, TypeOK
<1>6. lru' = lru /\ (cool' = cool \/ cool' = [cool EXCEPT ![acct[c]] = Cooling])
  BY DEF accountVars, Cool, NoneToSelect, AuthRefused,
         AuthTrouble, Answered, BadGrant, RateLimited, TokenDied, Gone, Trouble, Cancel
<1>7. cool' \in [Accounts -> 0..Cooling] /\ quiet' \in [Accounts -> 0..Interval]
  <2>1. Cooling \in 0..Cooling /\ Interval \in 0..Interval
    BY PoolAssumption
  <2>2. cool' \in [Accounts -> 0..Cooling]
    BY <1>6, <2>1 DEF IndInv, TypeOK
  <2>3. quiet' \in [Accounts -> 0..Interval]
    BY <1>3, <2>1 DEF QuietOK, IndInv, TypeOK
  <2>4. QED
    BY <2>2, <2>3
<1>8. QED
  BY <1>1, <1>2, <1>3, <1>5, <1>6, <1>7, EndingKeeps

LEMMA TickKeeps ==
    ASSUME IndInv, Tick
    PROVE  IndInv'
<1>1. /\ \A n \in Nat : Less(n) \in Nat /\ Less(n) <= n
      /\ \A m, n \in Nat : m <= n => Less(m) <= Less(n)
  BY DEF Less
<1>2. /\ UNCHANGED <<status, lru, authQ, reqQ, pc, strategy, acct, attempt, again, stray>>
      /\ \A a \in Accounts : quiet'[a] = Less(quiet[a])
      /\ \A c \in Calls : nap'[c] = Less(nap[c])
  BY DEF Tick, lockVars
<1>3. TypeOK'
  <2>1. cool' \in [Accounts -> 0..Cooling] /\ quiet' \in [Accounts -> 0..Interval]
    <3>1. \A n \in 0..Cooling : Less(n) \in 0..Cooling
      BY PoolAssumption DEF Less
    <3>2. \A n \in 0..Interval : Less(n) \in 0..Interval
      BY PoolAssumption DEF Less
    <3>3. QED
      BY <3>1, <3>2 DEF Tick, IndInv, TypeOK
  <2>2. nap' \in [Calls -> Nat]
    BY <1>1 DEF Tick, IndInv, TypeOK
  <2>3. QED
    BY <1>2, <2>1, <2>2 DEF IndInv, TypeOK, AtAccount
<1>4. SleepsLongEnough'
  <2> SUFFICES ASSUME NEW c \in Calls, pc[c] = "pacing"
               PROVE  quiet'[acct[c]] <= nap'[c]
    BY <1>2 DEF SleepsLongEnough
  <2>1. acct[c] \in Accounts
    BY AtAccounts
  <2>2. quiet[acct[c]] \in Nat /\ nap[c] \in Nat /\ quiet[acct[c]] <= nap[c]
    BY <2>1, PoolAssumption DEF IndInv, TypeOK, SleepsLongEnough
  <2>3. QED
    BY <1>1, <1>2, <2>1, <2>2
<1>5. QED
  BY <1>2, <1>3, <1>4
     DEF IndInv, AgainOK, RefreshNeeded, TokenFresh, AtAuth, Refreshing, AtRequest,
         Requesting, InRequest

LEMMA TokenExpiresKeeps ==
    ASSUME IndInv, NEW a \in Accounts, TokenExpires(a)
    PROVE  IndInv'
<1>1. /\ status' = [status EXCEPT ![a] = "INACTIVE"]
      /\ UNCHANGED <<cool, quiet, lru, authQ, reqQ, pc, strategy, acct, attempt, again,
                     nap, stray>>
  BY DEF TokenExpires, lockVars, callVars
<1>2. TypeOK'
  BY <1>1 DEF IndInv, TypeOK, AtAccount
<1>3. RefreshNeeded'
  BY <1>1 DEF IndInv, TypeOK, AtAccount, RefreshNeeded, TokenFresh, Refreshing
<1>4. QED
  BY <1>1, <1>2, <1>3
     DEF IndInv, AgainOK, SleepsLongEnough, AtAuth, Refreshing, AtRequest, Requesting,
         InRequest

\* A stray is outside the locks: whether one is left behind or comes back, the
\* calls and the accounts notice nothing.
LEMMA StrayTyped ==
    ASSUME IndInv, NEW c \in Calls, Step(c) \/ Cancel(c)
    PROVE  StrayOK'
<1>1. stray \in [Accounts \X Threaded -> Nat]
  BY DEF IndInv, TypeOK
<1>2. CASE pc[c] \in Threaded
  <2>1. acct[c] \in Accounts /\ <<acct[c], pc[c]>> \in Accounts \X Threaded
    BY <1>2 DEF IndInv, TypeOK, AtAccount, Threaded
  <2>2. \/ stray' = stray
        \/ stray' = [stray EXCEPT ![<<acct[c], pc[c]>>] = stray[<<acct[c], pc[c]>>] + 1]
    BY <1>2 DEF Step, Cancel, LeaveThread
  <2>3. QED
    BY <1>1, <2>1, <2>2 DEF StrayOK
<1>3. CASE pc[c] \notin Threaded
  BY <1>1, <1>3 DEF Step, Cancel, LeaveThread, StrayOK
<1>4. QED
  BY <1>2, <1>3

LEMMA StrayEndsKeeps ==
    ASSUME IndInv, NEW a \in Accounts, NEW stage \in Threaded, StrayEnds(a, stage)
    PROVE  IndInv'
<1>1. /\ stray' = [stray EXCEPT ![<<a, stage>>] = stray[<<a, stage>>] - 1] /\ stray[<<a, stage>>] > 0
      /\ UNCHANGED <<status, cool, quiet, lru, authQ, reqQ, pc, strategy, acct,
                     attempt, again, nap>>
  BY DEF StrayEnds, accountVars, lockVars, callVars
<1>2. stray' \in [Accounts \X Threaded -> Nat]
  <2>1. stray \in [Accounts \X Threaded -> Nat] /\ <<a, stage>> \in Accounts \X Threaded
    BY DEF IndInv, TypeOK
  <2>2. stray[<<a, stage>>] - 1 \in Nat
    BY <1>1, <2>1
  <2>3. QED
    BY <1>1, <2>1, <2>2
<1>3. QED
  BY <1>1, <1>2 DEF IndInv, TypeOK, AtAccount, AgainOK,
       RefreshNeeded, TokenFresh, SleepsLongEnough, AtAuth, Refreshing, AtRequest,
       Requesting, InRequest

LEMMA NextKeeps == IndInv /\ [Next]_vars => IndInv'
<1> SUFFICES ASSUME IndInv, [Next]_vars PROVE IndInv'
  OBVIOUS
<1>1. CASE UNCHANGED vars
  BY <1>1 DEF vars, accountVars, lockVars, callVars, IndInv, TypeOK, AtAccount, AgainOK,
       RefreshNeeded, TokenFresh, SleepsLongEnough, AtAuth, Refreshing, AtRequest,
       Requesting, InRequest
<1>2. ASSUME NEW c \in Calls, Step(c) \/ Cancel(c) PROVE IndInv'
  <2>1. StrayOK'
    BY <1>2, StrayTyped
  <2>2. QED
    BY <1>2, <2>1, SelectKeeps, AuthenticatedKeeps, StayingKeeps, WakeUpKeeps,
       AuthErrorBodyKeeps, EnderKeeps DEF Step
<1>3. CASE Next
  <2>1. ASSUME NEW c \in Calls, NEW s \in Strategies, Begin(c, s) PROVE IndInv'
    <3>1. StrayOK'
      BY <2>1 DEF Begin, IndInv, TypeOK, StrayOK
    <3>2. QED
      BY <2>1, <3>1, BeginKeeps
  <2>2. QED
    BY <1>2, <1>3, <2>1, StrayEndsKeeps, TickKeeps, TokenExpiresKeeps DEF Next
<1>4. QED
  BY <1>1, <1>3

\* In every reachable state the queues of both locks agree with where the calls
\* are, and whoever works inside a lock is its head.
THEOREM AccountInvariance == Spec => []IndInv
BY InitEstablishes, NextKeeps, PTL DEF Spec

----------------------------------------------------------------------------

\* The accounts, their locks and the calls have their types.
THEOREM AccountTypes == Spec => []TypeOK
<1>1. IndInv => TypeOK
  BY DEF IndInv
<1>2. QED
  BY <1>1, AccountInvariance, PTL

\* _req_lock lets one call at a time be between the interval check and the
\* answer of its last request, re-authentication included, however many
\* requests of cancelled calls are still under way.
THEOREM AccountServesOne == Spec => []OneCallPerAccount
<1>1. ASSUME IndInv PROVE OneCallPerAccount
  <2> SUFFICES ASSUME NEW c \in Calls, NEW d \in Calls, InRequest(c), InRequest(d),
                      acct[c] = acct[d]
               PROVE  c = d
    BY DEF OneCallPerAccount
  <2>1. c \in Requesting /\ d \in Requesting
    BY DEF Requesting
  <2>2. QED
    BY <1>1, <2>1, OneInside DEF IndInv
<1>2. QED
  BY <1>1, AccountInvariance, PTL

\* authenticate: the refreshes that calls of one account wait for never overlap,
\* and none of them is under way when the token is fresh, however many refreshes
\* of cancelled calls are.
THEOREM AccountRefreshesOnce == Spec => []OneRefreshPerAccount
<1>1. ASSUME IndInv PROVE OneRefreshPerAccount
  <2>1. ASSUME NEW c \in Calls, pc[c] = "authing" PROVE c \in Refreshing
    BY <2>1 DEF Refreshing
  <2>2. \A c, d \in Refreshing : acct[c] = acct[d] => c = d
    BY <1>1, OneInside DEF IndInv
  <2>3. QED
    BY <1>1, <2>1, <2>2 DEF OneRefreshPerAccount, IndInv, RefreshNeeded
<1>2. QED
  BY <1>1, AccountInvariance, PTL

\* execute: a request leaves its account no sooner than min_interval after the
\* account's last answer.
THEOREM AccountIsPaced == Spec => PacedAfterAnswer
<1>1. ASSUME IndInv, [Next]_vars, NEW c \in Calls, Send(c) PROVE quiet[acct[c]] = 0
  <2>1. pc[c] = "pacing" /\ nap[c] = 0 /\ acct[c] \in Accounts
    BY <1>1, AtAccounts DEF Send
  <2>2. quiet[acct[c]] \in Nat /\ quiet[acct[c]] <= nap[c]
    BY <1>1, <2>1, PoolAssumption DEF IndInv, TypeOK, SleepsLongEnough
  <2>3. QED
    BY <2>1, <2>2
<1>2. IndInv /\ [Next]_vars
      => [\A c \in Calls : Send(c) => quiet[acct[c]] = 0]_vars
  BY <1>1
<1>3. QED
  BY <1>2, AccountInvariance, PTL DEF Spec, PacedAfterAnswer

=============================================================================
