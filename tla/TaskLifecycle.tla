--------------------------- MODULE TaskLifecycle ---------------------------
(***************************************************************************)
(* What the background-task queue promises to the rest of copixiv, without *)
(* processes, wake events, faults or the history table's writes.           *)
(*                                                                         *)
(* A task is a numbered row.  It is submitted once, to one lane.  A lane   *)
(* works on at most one row at a time and always takes the oldest row that *)
(* waits in it, so rows of one lane run in submission order, each at most  *)
(* once.  A settled row never changes again.  When the lanes are torn down *)
(* a row may be left behind, and rows nobody works on may be written off   *)
(* as interrupted; none of them is ever handed out a second time.          *)
(***************************************************************************)
EXTENDS Naturals

CONSTANTS Ids,      \* row numbers, in submission order
          Lanes     \* the independent workers

VARIABLES phase,    \* [Ids -> Phases]
          lane,     \* [Ids -> Lanes \cup {"none"}], "none" until submitted
          claim     \* [Lanes -> Ids \cup {0}], the row a lane works on

lvars == <<phase, lane, claim>>

Settled == {"success", "failed", "interrupted"}
Phases  == {"absent", "pending", "running"} \cup Settled

Init == /\ phase = [i \in Ids |-> "absent"]
        /\ lane  = [i \in Ids |-> "none"]
        /\ claim = [l \in Lanes |-> 0]

\* A new row gets the next number.  A row whose lane is "none" is taken by
\* no worker.
Submit(i, l) ==
    /\ phase[i] = "absent"
    /\ \A j \in Ids : j < i => phase[j] # "absent"
    /\ phase' = [phase EXCEPT ![i] = "pending"]
    /\ lane'  = [lane EXCEPT ![i] = l]
    /\ UNCHANGED claim

Oldest(l, i) ==
    /\ phase[i] = "pending" /\ lane[i] = l
    /\ \A j \in Ids : phase[j] = "pending" /\ lane[j] = l => i <= j

Claim(l, i) ==
    /\ claim[l] = 0
    /\ Oldest(l, i)
    /\ phase' = [phase EXCEPT ![i] = "running"]
    /\ claim' = [claim EXCEPT ![l] = i]
    /\ UNCHANGED lane

\* A row that cannot be run at all is failed in its turn.
Refuse(l, i) ==
    /\ claim[l] = 0
    /\ Oldest(l, i)
    /\ phase' = [phase EXCEPT ![i] = "failed"]
    /\ UNCHANGED <<lane, claim>>

Settle(l, s) ==
    /\ claim[l] # 0
    /\ phase' = [phase EXCEPT ![claim[l]] = s]
    /\ claim' = [claim EXCEPT ![l] = 0]
    /\ UNCHANGED lane

\* Lanes in L stop working on their rows without recording an outcome.
Abandon(L) ==
    /\ claim' = [l \in Lanes |-> IF l \in L THEN 0 ELSE claim[l]]
    /\ UNCHANGED <<phase, lane>>

\* While no lane works, unsettled rows may be written off, never resumed.
Interrupt(S) ==
    /\ \A l \in Lanes : claim[l] = 0
    /\ \A i \in S : phase[i] \in {"pending", "running"}
    /\ phase' = [i \in Ids |-> IF i \in S THEN "interrupted" ELSE phase[i]]
    /\ UNCHANGED <<lane, claim>>

Next == \/ \E i \in Ids, l \in Lanes \cup {"none"} : Submit(i, l)
        \/ \E l \in Lanes, i \in Ids : Claim(l, i) \/ Refuse(l, i)
        \/ \E l \in Lanes, s \in Settled : Settle(l, s)
        \/ \E L \in SUBSET Lanes : Abandon(L)
        \/ \E S \in SUBSET Ids : Interrupt(S)

Spec == Init /\ [][Next]_lvars
=============================================================================
