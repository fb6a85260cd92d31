------------------------------ MODULE RecordStore ------------------------------
(***************************************************************************)
(* What the metadata authorities promise their callers (the traits         *)
(* TimelineAuthority and GeneratorLeaseAuthority): a record is replaced    *)
(* only on the revision the caller has read, a call writes each of its     *)
(* keys at most once, ok is said only of what was written, and a conflict  *)
(* is final.  EtcdStore and MemoryStore implement it.                      *)
(***************************************************************************)
EXTENDS Naturals

CONSTANTS Keys, Calls

VARIABLES
    store,    \* key -> [val, rev]; val is the call that wrote it, rev 0: no record
    want,     \* call -> key -> the revision it replaces (0: it creates)
    wrote,    \* call -> the keys it has written
    answer    \* call -> "none", "ok", "conflict" or "error"

vars == <<store, want, wrote, answer>>

NoKeys == [k \in {} |-> 0]

Init ==
    /\ store \in [Keys -> [val : {"start"}, rev : {0, 1}]]
    /\ want = [c \in Calls |-> NoKeys]
    /\ wrote = [c \in Calls |-> {}]
    /\ answer = [c \in Calls |-> "none"]

\* A call is made with the revisions its caller has read.
Begin(c) ==
    /\ want[c] = NoKeys /\ answer[c] = "none" /\ want'[c] # NoKeys
    /\ \E K \in SUBSET Keys :
          DOMAIN want'[c] = K /\ \A k \in K : want'[c][k] \in 0 .. store[k].rev
    /\ want' = [want EXCEPT ![c] = want'[c]]
    /\ UNCHANGED <<store, wrote, answer>>

\* Some of its keys are written, each from the revision it wants, also after the
\* caller was told that the outcome is unknown.
Write(c) ==
    /\ answer[c] \in {"none", "error"}
    /\ \E K \in SUBSET (DOMAIN want[c] \ wrote[c]) :
          /\ K # {} /\ \A k \in K : store[k].rev = want[c][k]
          /\ \A k \in Keys : IF k \in K THEN store'[k].val = c /\ store'[k].rev > store[k].rev
                                        ELSE store'[k] = store[k]
          /\ wrote' = [wrote EXCEPT ![c] = @ \cup K]
    /\ UNCHANGED <<want, answer>>

Answer(c, a) ==
    /\ want[c] # NoKeys /\ answer[c] = "none"
    /\ a = "ok" => wrote[c] = DOMAIN want[c]
    /\ a = "conflict" => \E k \in DOMAIN want[c] : store[k].rev # want[c][k]
    /\ answer' = [answer EXCEPT ![c] = a]
    /\ UNCHANGED <<store, want, wrote>>

Next == \E c \in Calls : Begin(c) \/ Write(c) \/ \E a \in {"ok", "conflict", "error"} : Answer(c, a)

Spec == Init /\ [][Next]_vars
=============================================================================
