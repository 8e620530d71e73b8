---------------------------- MODULE RetryPromise ----------------------------
(***************************************************************************)
(* What the retry queue promises the code that hands it a message: the     *)
(* message is retried until it is sent, is reported failed after           *)
(* MaxRetries unsuccessful sends and not before, or is taken out by the    *)
(* caller; and a message that reached one of these ends stays there.       *)
(* There is no array, no loop, no backoff and no clock here.               *)
(***************************************************************************)
EXTENDS Naturals

CONSTANTS Ids, MaxRetries

VARIABLES fate, attempts

vars == <<fate, attempts>>

Init ==
    /\ fate = [m \in Ids |-> "new"]
    /\ attempts = [m \in Ids |-> 0]

Accept(m) ==
    /\ fate[m] = "new"
    /\ fate' = [fate EXCEPT ![m] = "queued"]
    /\ UNCHANGED attempts

Fail(m) ==
    /\ fate[m] = "queued"
    /\ attempts[m] < MaxRetries
    /\ attempts' = [attempts EXCEPT ![m] = @ + 1]
    /\ UNCHANGED fate

Send(m) ==
    /\ fate[m] = "queued"
    /\ attempts[m] < MaxRetries
    /\ fate' = [fate EXCEPT ![m] = "sent"]
    /\ UNCHANGED attempts

GiveUp(m) ==
    /\ fate[m] = "queued"
    /\ attempts[m] = MaxRetries
    /\ fate' = [fate EXCEPT ![m] = "failed"]
    /\ UNCHANGED attempts

Remove(S) ==
    /\ \A m \in S : fate[m] = "queued"
    /\ fate' = [m \in Ids |-> IF m \in S THEN "removed" ELSE fate[m]]
    /\ UNCHANGED attempts

Next ==
    \/ \E m \in Ids : Accept(m) \/ Fail(m) \/ Send(m) \/ GiveUp(m)
    \/ \E S \in SUBSET Ids : Remove(S)

Spec == Init /\ [][Next]_vars
=============================================================================
