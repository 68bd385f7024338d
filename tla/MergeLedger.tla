---------------------------- MODULE MergeLedger ----------------------------
(* What chela promises about merging one pull request, and nothing of how:  *)
(* a request asks for one commit; it is granted at most once and ends at    *)
(* most once; a merge made for a request is of the commit that was asked,   *)
(* under a grant that a denial would have taken away.                       *)
EXTENDS Integers

CONSTANTS
    Requests,   \* what an operator may be asked to approve
    Others,     \* who else may merge: none of them a request
    MaxHead     \* how many heads the pull request goes through

Heads == 1..MaxHead
Endings == {"merged", "denied", "expired", "failed"}

VARIABLES
    asked,      \* the head each request was opened for, 0 before it is
    granted,    \* the requests an operator has approved
    outcome,    \* "open", or how the request ended
    merged      \* the head that was merged and on whose authority

vars == <<asked, granted, outcome, merged>>

NotMerged == [head |-> 0, by |-> "nobody"]

Init ==
    /\ asked = [r \in Requests |-> 0]
    /\ granted = {}
    /\ outcome = [r \in Requests |-> "open"]
    /\ merged = NotMerged

Ask(r) ==
    /\ asked[r] = 0
    /\ \E h \in Heads : asked' = [asked EXCEPT ![r] = h]
    /\ UNCHANGED <<granted, outcome, merged>>

Grant(r) ==
    /\ asked[r] # 0 /\ outcome[r] = "open" /\ r \notin granted
    /\ granted' = granted \cup {r}
    /\ UNCHANGED <<asked, outcome, merged>>

(* A denial takes the grant of a deferred approval back: it may only come   *)
(* while nothing has been merged for the request.                           *)
Deny(r) ==
    /\ asked[r] # 0 /\ outcome[r] = "open" /\ merged.by # r
    /\ outcome' = [outcome EXCEPT ![r] = "denied"]
    /\ granted' = granted \ {r}
    /\ UNCHANGED <<asked, merged>>

End(r) ==
    /\ asked[r] # 0 /\ outcome[r] = "open"
    /\ \E e \in Endings \ {"denied"} :
          /\ (e = "merged") => merged # NotMerged
          /\ outcome' = [outcome EXCEPT ![r] = e]
    /\ UNCHANGED <<asked, granted, merged>>

MergeFor(r) ==
    /\ r \in granted /\ merged = NotMerged
    /\ merged' = [head |-> asked[r], by |-> r]
    /\ UNCHANGED <<asked, granted, outcome>>

MergeOtherwise ==
    /\ merged = NotMerged
    /\ \E h \in Heads, o \in Others : merged' = [head |-> h, by |-> o]
    /\ UNCHANGED <<asked, granted, outcome>>

Next ==
    \/ \E r \in Requests : Ask(r) \/ Grant(r) \/ Deny(r) \/ End(r) \/ MergeFor(r)
    \/ MergeOtherwise

Spec == Init /\ [][Next]_vars
=============================================================================
