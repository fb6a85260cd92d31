---------------------------- MODULE EtcdStoreProofs ----------------------------
(***************************************************************************)
(* The calls of EtcdMetadataStore keep the promise of the authorities      *)
(* (RecordStore), for any number of keys, calls and attempts.              *)
(*                                                                         *)
(* A transaction that is sent again, or applied late, does nothing: the    *)
(* revisions of its records only grow, so what does not compare once never *)
(* does again (Moved), and after its own puts nothing compares.            *)
(***************************************************************************)
EXTENDS EtcdStore, TLAPS

Labels == {"load", "check", "send", "wait", "recover", "done"}
Wants == UNION {[K -> Nat] : K \in SUBSET Keys}

Typed ==
    /\ store \in [Keys -> [val : Calls \cup {None}, rev : Nat]] /\ head \in Nat
    /\ pc \in [Calls -> Labels] /\ want \in [Calls -> Wants]
    /\ attempt \in [Calls -> Nat] /\ wire \in [Calls -> Nat] /\ seen \in [Calls -> SUBSET Keys]
    /\ reply \in [Calls -> {"none", "yes", "no"}]
    /\ answer \in [Calls -> {"none", "ok", "conflict", "error"}]
    /\ got \in [Calls -> Nat] /\ wrote \in [Calls -> Nat] /\ times \in [Calls -> Nat]

\* The transaction of c does not compare, and never will again.
Moved(c) == \E k \in DOMAIN want[c] : store[k].rev # want[c][k]

\* The life of a call.
Lives(c) ==
    /\ pc[c] \in {"load", "check"} => wire[c] = 0 /\ wrote[c] = 0
    /\ pc[c] # "load" => DOMAIN want[c] # {}
    /\ pc[c] # "done" => wire[c] < attempt[c]
    /\ attempt[c] \in 1 .. MaxAttempts /\ wire[c] \in 0 .. MaxAttempts
    /\ reply[c] # "none" => pc[c] \in {"wait", "recover"}
    /\ pc[c] = "recover" => reply[c] = "no"
    /\ answer[c] # "none" <=> pc[c] = "done"

\* What the call has done and what its caller knows.
Knows(c) ==
    /\ \A k \in DOMAIN want[c] : want[c][k] <= store[k].rev
    /\ times[c] = IF wrote[c] = 0 THEN 0 ELSE 1
    /\ wrote[c] # 0 \/ reply[c] = "no" \/ answer[c] = "conflict" => Moved(c)
    /\ reply[c] = "yes" => wrote[c] # 0
    /\ answer[c] = "ok" => wrote[c] # 0 /\ got[c] = wrote[c]
    /\ answer[c] = "conflict" /\ Recovers /\ ~Creates(c) =>
          \E k \in DOMAIN want[c] : store[k].val # c
    /\ \A k \in Keys : store[k].val = c => wrote[c] # 0 /\ store[k].rev = wrote[c]

IInv ==
    /\ Typed
    /\ \A k \in Keys : store[k].rev <= head
    /\ \A c \in Calls : Lives(c) /\ Knows(c)

LEMMA WantType ==
    ASSUME NEW w \in Wants
    PROVE  DOMAIN w \subseteq Keys /\ w \in [DOMAIN w -> Nat] /\ \A k \in DOMAIN w : w[k] \in Nat
<1>1. PICK K \in SUBSET Keys : w \in [K -> Nat]
    BY Zenon DEF Wants
<1>. QED  BY <1>1

LEMMA NoKeysType == NoKeys \in Wants /\ DOMAIN NoKeys = {}
<1>1. NoKeys \in [{} -> Nat] /\ DOMAIN NoKeys = {}
    BY DEF NoKeys
<1>2. {} \in SUBSET Keys
    OBVIOUS
<1>. QED  BY Zenon, <1>1, <1>2 DEF Wants

\* A call without keys is one that has loaded nothing.
LEMMA SomeKeys ==
    ASSUME NEW w \in Wants, w # NoKeys
    PROVE  DOMAIN w # {}
<1>1. w \in [DOMAIN w -> Nat]
    BY Zenon, WantType
<1>2. DOMAIN w = {} => w = NoKeys
    BY <1>1 DEF NoKeys
<1>. QED  BY Zenon, <1>2

LEMMA StoreType ==
    ASSUME Typed
    PROVE  \A k \in Keys : store[k].rev \in Nat /\ store[k].val \in Calls \cup {None}
BY DEF Typed

-----------------------------------------------------------------------------
(* Steps without a transaction *)

\* What a step of c leaves alone of another call.
Same(d) ==
    /\ pc'[d] = pc[d] /\ want'[d] = want[d] /\ attempt'[d] = attempt[d] /\ reply'[d] = reply[d]
    /\ wire'[d] = wire[d] /\ answer'[d] = answer[d] /\ got'[d] = got[d]

LEMMA SameKeeps ==
    ASSUME NEW d \in Calls, Same(d), etcd' = etcd, Lives(d), Knows(d)
    PROVE  (Lives(d))' /\ (Knows(d))'
<1>1. store' = store /\ wrote' = wrote /\ times' = times
    BY DEF etcd
<1>2. (Lives(d))'
    BY Zenon, <1>1 DEF Same, Lives
<1>3. (Creates(d))' = Creates(d) /\ (Moved(d))' = Moved(d)
    BY Zenon, <1>1 DEF Same, Creates, Moved
<1>4. (Knows(d))'
    BY ZenonT(40), <1>1, <1>3 DEF Same, Knows
<1>. QED  BY Zenon, <1>2, <1>4

LEMMA QuietStep ==
    ASSUME IInv, Typed', NEW c \in Calls, etcd' = etcd, \A d \in Calls : d # c => Same(d),
           (Lives(c))', (Knows(c))'
    PROVE  IInv'
<1>1. store' = store /\ head' = head
    BY DEF etcd
<1>2. \A d \in Calls : (Lives(d))' /\ (Knows(d))'
    BY Zenon, SameKeeps DEF IInv
<1>. QED  BY Zenon, <1>1, <1>2 DEF IInv

\* The entry of c after a step.
LEMMA FinishEffect ==
    ASSUME Typed, NEW c \in Calls, NEW what \in {"ok", "conflict", "error"}, NEW rev \in Nat,
           Finish(c, what, rev), want' = want, wire' = wire
    PROVE  /\ pc'[c] = "done" /\ answer'[c] = what /\ got'[c] = rev
           /\ attempt'[c] = 1 /\ reply'[c] = "none"
           /\ \A d \in Calls : d # c => Same(d)
<1>1. /\ pc' = [pc EXCEPT ![c] = "done"] /\ answer' = [answer EXCEPT ![c] = what]
      /\ got' = [got EXCEPT ![c] = rev] /\ attempt' = [attempt EXCEPT ![c] = 1]
      /\ reply' = [reply EXCEPT ![c] = "none"]
    BY Zenon DEF Finish, Goto
<1>. QED  BY <1>1 DEF Typed, Same

\* A call ends: what it says must be true.
LEMMA FinishKeeps ==
    ASSUME IInv, Typed', NEW c \in Calls, NEW what \in {"ok", "conflict", "error"}, NEW rev \in Nat,
           pc'[c] = "done", answer'[c] = what, got'[c] = rev, attempt'[c] = 1,
           reply'[c] = "none", want'[c] = want[c], wire'[c] \in 0 .. MaxAttempts,
           etcd' = etcd, \A d \in Calls : d # c => Same(d),
           DOMAIN want[c] # {},
           what = "ok" => wrote[c] # 0 /\ rev = wrote[c],
           what = "conflict" => Moved(c),
           what = "conflict" /\ Recovers /\ ~Creates(c) => \E k \in DOMAIN want[c] : store[k].val # c
    PROVE  IInv'
<1>1. store' = store /\ wrote' = wrote /\ times' = times /\ Knows(c)
    BY DEF etcd, IInv
<1>2. (Lives(c))'
    BY CallsAssumption DEF Lives
<1>3. (Creates(c))' = Creates(c) /\ (Moved(c))' = Moved(c)
    BY Zenon, <1>1 DEF Creates, Moved
<1>4. (Knows(c))'
    BY ZenonT(40), <1>1, <1>3 DEF Knows
<1>. QED  BY Zenon, <1>2, <1>4, QuietStep

-----------------------------------------------------------------------------
(* Every variable keeps its type *)

LEMMA FinishTyped ==
    ASSUME Typed, NEW c \in Calls, NEW what \in {"ok", "conflict", "error"}, NEW rev \in Nat,
           Finish(c, what, rev), want' = want, wire' \in [Calls -> Nat], etcd' = etcd
    PROVE  Typed'
<1>1. store' = store /\ head' = head /\ wrote' = wrote /\ times' = times
    BY DEF etcd
<1>2. /\ pc' \in [Calls -> Labels] /\ attempt' \in [Calls -> Nat] /\ seen' \in [Calls -> SUBSET Keys]
      /\ got' \in [Calls -> Nat]
    BY DEF Finish, Goto, Typed, Labels
<1>3. reply' \in [Calls -> {"none", "yes", "no"}]
      /\ answer' \in [Calls -> {"none", "ok", "conflict", "error"}]
    BY DEF Finish, Typed
<1>. QED  BY Zenon, <1>1, <1>2, <1>3 DEF Typed

\* The transaction: all puts with one new revision, or none.
LEMMA TransactTyped ==
    ASSUME Typed, NEW c \in Calls, Transact(c)
    PROVE  /\ store' \in [Keys -> [val : Calls \cup {None}, rev : Nat]] /\ head' \in Nat
           /\ wrote' \in [Calls -> Nat] /\ times' \in [Calls -> Nat]
<1>1. CASE Compares(c)
  <2>1. /\ head' = head + 1 /\ wrote' = [wrote EXCEPT ![c] = head + 1]
        /\ times' = [times EXCEPT ![c] = @ + 1]
        /\ store' = [k \in Keys |-> IF k \in DOMAIN want[c] THEN [val |-> c, rev |-> head + 1]
                                    ELSE store[k]]
    BY Zenon, <1>1 DEF Transact
  <2>. DEFINE R == [val : Calls \cup {None}, rev : Nat]
  <2>2. [val |-> c, rev |-> head + 1] \in R /\ \A k \in Keys : store[k] \in R
    BY DEF Typed
  <2>. HIDE DEF R
  <2>3. store' \in [Keys -> R]
    BY <2>1, <2>2
  <2>. QED  BY <2>1, <2>3 DEF R, Typed
<1>2. CASE ~Compares(c)
    BY Zenon, <1>2 DEF Transact, Typed, etcd
<1>. QED  BY Zenon, <1>1, <1>2

\* A caller reads one more record.
LEMMA LoadWants ==
    ASSUME Typed, NEW c \in Calls, NEW k \in Keys
    PROVE  [j \in DOMAIN want[c] \cup {k} |-> IF j = k THEN store[k].rev ELSE want[c][j]] \in Wants
<1>. DEFINE w == want[c]
            K == DOMAIN w \cup {k}
            v == [j \in K |-> IF j = k THEN store[k].rev ELSE w[j]]
<1>1. DOMAIN w \subseteq Keys /\ \A j \in DOMAIN w : w[j] \in Nat
    BY Zenon, WantType DEF Typed
<1>2. store[k].rev \in Nat
    BY Zenon, StoreType
<1>3. v \in [K -> Nat] /\ K \in SUBSET Keys
    BY <1>1, <1>2
<1>. QED  BY Zenon, <1>3 DEF Wants

LEMMA NextTyped ==
    ASSUME Typed, NEW c \in Calls,
           \/ Proceed(c) \/ ApplyLate(c) \/ LoseLate(c) \/ \E k \in Keys : Load(c, k)
    PROVE  Typed'
<1>1. ASSUME NEW k \in Keys, Load(c, k) PROVE Typed'
  <2>. DEFINE v == [j \in DOMAIN want[c] \cup {k} |-> IF j = k THEN store[k].rev ELSE want[c][j]]
  <2>1. v \in Wants
    BY Zenon, LoadWants
  <2>2. want' = [want EXCEPT ![c] = v]
    BY <1>1 DEF Load
  <2>. HIDE DEF v
  <2>3. want' \in [Calls -> Wants]
    BY <2>1, <2>2 DEF Typed
  <2>. QED  BY Zenon, <1>1, <2>3 DEF Load, Typed, etcd
<1>2. ASSUME NEW label \in Labels, Goto(c, label) PROVE pc' \in [Calls -> Labels]
    BY <1>2 DEF Goto, Typed
<1>3. "check" \in Labels /\ "send" \in Labels /\ "wait" \in Labels /\ "recover" \in Labels
    BY DEF Labels
<1>4. CASE Begin(c) \/ Send(c)
  <2>1. pc' \in [Calls -> Labels]
    BY Zenon, <1>2, <1>3, <1>4 DEF Begin, Send
  <2>. QED  BY Zenon, <1>4, <2>1 DEF Begin, Send, Typed, etcd
<1>5. ASSUME NEW k \in DOMAIN want[c], NEW label \in Labels, See(c, k, label),
             want' = want, wire' = wire, etcd' = etcd
      PROVE  Typed'
  <2>1. k \in Keys
    BY Zenon, <1>5, WantType DEF Typed
  <2>2. seen' \in [Calls -> SUBSET Keys]
    BY <1>5, <2>1 DEF See, Typed
  <2>3. pc' \in [Calls -> Labels]
    BY Zenon, <1>2, <1>5 DEF See, Typed
  <2>. QED  BY Zenon, <1>5, <2>2, <2>3 DEF See, Typed, etcd
<1>6. ASSUME NEW what \in {"ok", "conflict", "error"}, NEW rev \in Nat, Finish(c, what, rev),
             want' = want, wire' = wire, etcd' = etcd
      PROVE  Typed'
  <2>1. wire' \in [Calls -> Nat]
    BY Zenon, <1>6 DEF Typed
  <2>. QED  BY Zenon, <1>6, <2>1, FinishTyped
<1>7. CASE Check(c)
    BY Zenon, <1>3, <1>5, <1>6, <1>7 DEF Check
<1>8. CASE Apply(c)
  <2>1. reply' \in [Calls -> {"none", "yes", "no"}]
    BY <1>8 DEF Apply, Typed
  <2>. QED  BY Zenon, <1>8, <2>1, TransactTyped DEF Apply, Typed
<1>9. CASE ApplyLate(c) \/ LoseLate(c)
  <2>1. wire' \in [Calls -> Nat]
    BY <1>9 DEF ApplyLate, LoseLate, Typed
  <2>. QED  BY Zenon, <1>9, <2>1, TransactTyped DEF ApplyLate, LoseLate, Typed, etcd
<1>10. CASE Respond(c)
  <2>1. wrote[c] \in Nat /\ 0 \in Nat
    BY DEF Typed
  <2>2. CASE Goto(c, "recover") /\ UNCHANGED <<attempt, reply, seen, answer, got>>
    BY Zenon, <1>2, <1>3, <1>10, <2>2 DEF Respond, Typed, etcd
  <2>. QED  BY Zenon, <1>6, <1>10, <2>1, <2>2 DEF Respond
<1>11. CASE Recover(c)
  <2>1. PICK k \in DOMAIN want[c] :
            \/ Finish(c, "conflict", 0) \/ Finish(c, "ok", store[k].rev) \/ See(c, k, "recover")
    BY Zenon, <1>11 DEF Recover
  <2>2. store[k].rev \in Nat /\ 0 \in Nat
    BY WantType, StoreType DEF Typed
  <2>. QED  BY Zenon, <1>3, <1>5, <1>6, <1>11, <2>1, <2>2 DEF Recover
<1>12. CASE AttemptFails(c) \/ GiveUp(c)
  <2>1. wire' \in [Calls -> Nat] /\ 0 \in Nat
    BY <1>12 DEF AttemptFails, GiveUp, Abandon, Typed
  <2>2. want' = want /\ etcd' = etcd
    BY Zenon, <1>12 DEF AttemptFails, GiveUp, Abandon
  <2>3. CASE Finish(c, "error", 0)
    BY Zenon, <2>1, <2>2, <2>3, FinishTyped
  <2>4. CASE Retry(c) /\ attempt[c] < MaxAttempts
    <3>1. attempt' \in [Calls -> Nat] /\ reply' \in [Calls -> {"none", "yes", "no"}]
        BY <2>4 DEF Retry, Typed
    <3>2. pc' \in [Calls -> Labels]
        BY Zenon, <1>2, <1>3, <2>4 DEF Retry
    <3>. QED  BY Zenon, <2>1, <2>2, <2>4, <3>1, <3>2 DEF Retry, Typed, etcd
  <2>. QED  BY Zenon, <1>12, <2>3, <2>4 DEF AttemptFails, GiveUp, Retry
<1>13. CASE LoadFails(c)
  <2>1. 0 \in Nat
    OBVIOUS
  <2>. QED  BY Zenon, <1>6, <1>13, <2>1 DEF LoadFails
<1>. QED  BY Zenon, <1>1, <1>4, <1>7, <1>8, <1>9, <1>10, <1>11, <1>12, <1>13 DEF Proceed

-----------------------------------------------------------------------------
(* Steps with a transaction *)

LEMMA Puts ==
    ASSUME IInv, NEW c \in Calls, Transact(c), Compares(c)
    PROVE  /\ head' = head + 1 /\ wrote'[c] = head + 1 /\ times'[c] = times[c] + 1
           /\ \A d \in Calls : d # c => wrote'[d] = wrote[d] /\ times'[d] = times[d]
           /\ \A k \in DOMAIN want[c] : k \in Keys /\ store'[k].val = c /\ store'[k].rev = head + 1
           /\ \A k \in Keys : k \notin DOMAIN want[c] => store'[k] = store[k]
           /\ \A k \in Keys : store[k].rev <= store'[k].rev /\ store'[k].rev <= head'
           /\ \A k \in DOMAIN want[c] : store[k].rev < store'[k].rev
<1>1. /\ head' = head + 1 /\ wrote' = [wrote EXCEPT ![c] = head + 1]
      /\ times' = [times EXCEPT ![c] = @ + 1]
      /\ store' = [k \in Keys |-> IF k \in DOMAIN want[c] THEN [val |-> c, rev |-> head + 1]
                                  ELSE store[k]]
    BY Zenon DEF Transact
<1>2. /\ wrote'[c] = head + 1 /\ times'[c] = times[c] + 1
      /\ \A d \in Calls : d # c => wrote'[d] = wrote[d] /\ times'[d] = times[d]
    BY <1>1 DEF IInv, Typed
<1>3. DOMAIN want[c] \subseteq Keys
    BY Zenon, WantType DEF IInv, Typed
<1>4. \A k \in DOMAIN want[c] : k \in Keys /\ store'[k].val = c /\ store'[k].rev = head + 1
    BY <1>1, <1>3
<1>5. \A k \in Keys : k \notin DOMAIN want[c] => store'[k] = store[k]
    BY <1>1
<1>6. head \in Nat /\ \A k \in Keys : store[k].rev \in Nat /\ store[k].rev <= head
    BY Zenon, StoreType DEF IInv, Typed
<1>. QED  BY <1>1, <1>2, <1>4, <1>5, <1>6

\* Another call: what it wants only gets older, what it wrote stays or is replaced.
LEMMA PutsKeep ==
    ASSUME IInv, Typed', NEW c \in Calls, Transact(c), Compares(c), NEW d \in Calls, d # c, Same(d)
    PROVE  (Lives(d))' /\ (Knows(d))'
<1>1. Lives(d) /\ Knows(d)
    BY Zenon DEF IInv
<1>2. wrote'[d] = wrote[d] /\ times'[d] = times[d]
    BY Zenon, Puts
<1>3. (Lives(d))'
    BY Zenon, <1>1, <1>2 DEF Same, Lives
<1>4. DOMAIN want[d] \subseteq Keys /\ \A k \in DOMAIN want[d] : want[d][k] \in Nat
    BY Zenon, WantType DEF IInv, Typed
<1>5. \A k \in Keys : /\ store[k].rev \in Nat /\ store'[k].rev \in Nat
                      /\ store[k].rev <= store'[k].rev
                      /\ store'[k] = store[k] \/ store'[k].val = c
    BY Puts, StoreType DEF IInv, Typed
<1>6. \A k \in DOMAIN want[d] : want[d][k] <= store'[k].rev
    BY <1>1, <1>4, <1>5 DEF Knows
<1>7. Moved(d) => (Moved(d))'
  <2>1. ASSUME NEW k \in DOMAIN want[d], store[k].rev # want[d][k] PROVE store'[k].rev # want[d][k]
    <3>1. want[d][k] <= store[k].rev
        BY Zenon, <1>1, <2>1 DEF Knows
    <3>. QED  BY <1>4, <1>5, <2>1, <3>1
  <2>. QED  BY Zenon, <2>1 DEF Moved, Same
<1>8. (\E k \in DOMAIN want[d] : store[k].val # d) => \E k \in DOMAIN want'[d] : store'[k].val # d
    BY Zenon, <1>4, <1>5 DEF Same
<1>9. \A k \in Keys : store'[k].val = d => wrote[d] # 0 /\ store'[k].rev = wrote[d]
    BY Zenon, <1>1, <1>5 DEF Knows
<1>10. (Creates(d))' = Creates(d)
    BY Zenon DEF Same, Creates
<1>11. (Knows(d))'
    BY ZenonT(40), <1>1, <1>2, <1>6, <1>7, <1>8, <1>9, <1>10 DEF Same, Knows
<1>. QED  BY Zenon, <1>3, <1>11

\* The call itself: it had not written before, and never compares again.
LEMMA PutsKnown ==
    ASSUME IInv, Typed', NEW c \in Calls, Transact(c), Compares(c), DOMAIN want[c] # {},
           want'[c] = want[c], answer'[c] = answer[c], got'[c] = got[c],
           reply'[c] # "no"
    PROVE  (Knows(c))' /\ wrote'[c] # 0
<1>1. Knows(c) /\ ~Moved(c) /\ wrote[c] = 0 /\ answer[c] \notin {"ok", "conflict"}
    BY Zenon DEF IInv, Knows, Moved, Compares
<1>2. wrote'[c] = head + 1 /\ head \in Nat /\ times[c] = 0 /\ times'[c] = 1
  <2>1. wrote'[c] = head + 1 /\ head \in Nat /\ times'[c] = times[c] + 1
    BY Zenon, Puts DEF IInv, Typed
  <2>2. times[c] = 0
    BY Zenon, <1>1 DEF Knows
  <2>. QED  BY <2>1, <2>2
<1>3. /\ DOMAIN want[c] \subseteq Keys /\ \A k \in DOMAIN want[c] : want[c][k] \in Nat
      /\ \A k \in Keys : store[k].rev \in Nat /\ store'[k].rev \in Nat
    BY WantType, StoreType DEF IInv, Typed
<1>4. \A k \in DOMAIN want[c] : want[c][k] < store'[k].rev
    BY <1>3, Puts DEF Compares
<1>5. (Moved(c))'
    BY <1>3, <1>4 DEF Moved
<1>6. \A k \in DOMAIN want[c] : want[c][k] <= store'[k].rev
    BY <1>3, <1>4
<1>7. ASSUME NEW k \in Keys, store'[k].val = c PROVE store'[k].rev = wrote'[c]
    BY Zenon, <1>1, <1>2, <1>7, Puts DEF Knows
<1>8. wrote'[c] # 0
    BY <1>2
<1>9. times'[c] = IF wrote'[c] = 0 THEN 0 ELSE 1
    BY <1>2, <1>8
<1>10. answer'[c] # "ok" /\ answer'[c] # "conflict"
    BY <1>1
<1>. QED  BY Zenon, <1>5, <1>6, <1>7, <1>8, <1>9, <1>10 DEF Knows

LEMMA ApplyStep ==
    ASSUME IInv, Typed', NEW c \in Calls, Apply(c)
    PROVE  IInv'
<1>1. /\ pc[c] = "wait" /\ reply[c] = "none" /\ Transact(c)
      /\ reply' = [reply EXCEPT ![c] = IF Compares(c) THEN "yes" ELSE "no"]
      /\ pc' = pc /\ want' = want /\ attempt' = attempt /\ wire' = wire /\ answer' = answer
      /\ got' = got
    BY Zenon DEF Apply
<1>2. /\ reply'[c] = IF Compares(c) THEN "yes" ELSE "no"
      /\ \A d \in Calls : d # c => Same(d)
  <2>1. reply'[c] = (IF Compares(c) THEN "yes" ELSE "no")
    BY <1>1 DEF IInv, Typed
  <2>2. \A d \in Calls : d # c => reply'[d] = reply[d]
    BY <1>1 DEF IInv, Typed
  <2>. QED  BY Zenon, <1>1, <2>1, <2>2 DEF Same
<1>3. Lives(c) /\ Knows(c) /\ DOMAIN want[c] # {}
    BY <1>1 DEF IInv, Lives
<1>4. answer[c] = "none"
    BY <1>1, <1>3 DEF Lives
<1>5. CASE Compares(c)
  <2>1. reply'[c] = "yes"
    BY Zenon, <1>2, <1>5
  <2>2. reply'[c] # "no"
    BY <2>1
  <2>3. (Knows(c))' /\ wrote'[c] # 0
    BY Zenon, <1>1, <1>3, <1>5, <2>2, PutsKnown
  <2>4. (Lives(c))'
    BY <1>1, <1>3, <2>1 DEF Lives
  <2>5. \A d \in Calls : (Lives(d))' /\ (Knows(d))'
    BY Zenon, <1>1, <1>2, <1>5, <2>3, <2>4, PutsKeep
  <2>6. \A k \in Keys : store'[k].rev <= head'
    BY Zenon, <1>1, <1>5, Puts
  <2>. QED  BY Zenon, <2>5, <2>6 DEF IInv
<1>6. CASE ~Compares(c)
  <2>1. reply'[c] = "no" /\ etcd' = etcd
    BY Zenon, <1>1, <1>2, <1>6 DEF Transact
  <2>2. store' = store /\ wrote' = wrote /\ times' = times
    BY <2>1 DEF etcd
  <2>3. (Lives(c))'
    BY <1>1, <1>3, <2>1, <2>2 DEF Lives
  <2>4. (Moved(c))' /\ (Creates(c))' = Creates(c)
    BY Zenon, <1>1, <1>6, <2>2 DEF Moved, Compares, Creates
  <2>5. reply'[c] # "yes" /\ answer'[c] # "ok" /\ answer'[c] # "conflict"
    BY <1>1, <1>4, <2>1
  <2>6. (Knows(c))'
    BY Zenon, <1>1, <1>3, <2>2, <2>4, <2>5 DEF Knows
  <2>. QED  BY Zenon, <1>2, <2>1, <2>3, <2>6, QuietStep
<1>. QED  BY Zenon, <1>5, <1>6

LEMMA ApplyLateStep ==
    ASSUME IInv, Typed', NEW c \in Calls, ApplyLate(c)
    PROVE  IInv'
<1>1. /\ wire[c] > 0 /\ Transact(c) /\ wire' = [wire EXCEPT ![c] = @ - 1]
      /\ pc' = pc /\ want' = want /\ attempt' = attempt /\ reply' = reply /\ answer' = answer
      /\ got' = got
    BY Zenon DEF ApplyLate
<1>2. wire'[c] = wire[c] - 1 /\ wire[c] \in Nat /\ attempt[c] \in Nat
      /\ \A d \in Calls : d # c => Same(d)
    BY <1>1 DEF IInv, Typed, Same
<1>3. Lives(c) /\ Knows(c)
    BY Zenon DEF IInv
<1>4. pc[c] # "load" /\ pc[c] # "check" /\ DOMAIN want[c] # {}
    BY <1>1, <1>2, <1>3 DEF Lives
<1>5. /\ pc[c] # "done" => wire'[c] < attempt[c]
      /\ wire'[c] \in 0 .. MaxAttempts
    BY <1>1, <1>2, <1>3, CallsAssumption DEF Lives
<1>6. (Lives(c))'
    BY Zenon, <1>1, <1>3, <1>4, <1>5 DEF Lives
<1>7. CASE Compares(c)
  <2>1. reply[c] # "no"
    BY Zenon, <1>3, <1>7 DEF Knows, Moved, Compares
  <2>2. (Knows(c))'
    BY Zenon, <1>1, <1>4, <1>7, <2>1, PutsKnown
  <2>3. \A d \in Calls : (Lives(d))' /\ (Knows(d))'
    BY Zenon, <1>1, <1>2, <1>6, <1>7, <2>2, PutsKeep
  <2>4. \A k \in Keys : store'[k].rev <= head'
    BY Zenon, <1>1, <1>7, Puts
  <2>. QED  BY Zenon, <2>3, <2>4 DEF IInv
<1>8. CASE ~Compares(c)
  <2>1. etcd' = etcd
    BY Zenon, <1>1, <1>8 DEF Transact
  <2>2. store' = store /\ wrote' = wrote /\ times' = times
    BY <2>1 DEF etcd
  <2>3. (Moved(c))' = Moved(c) /\ (Creates(c))' = Creates(c)
    BY Zenon, <1>1, <2>2 DEF Moved, Creates
  <2>4. (Knows(c))'
    BY Zenon, <1>1, <1>3, <2>2, <2>3 DEF Knows
  <2>. QED  BY Zenon, <1>2, <1>6, <2>1, <2>4, QuietStep
<1>. QED  BY Zenon, <1>7, <1>8

-----------------------------------------------------------------------------
(* The other steps *)

\* A step that leaves what the call knows.
LEMMA KnowsKeeps ==
    ASSUME NEW c \in Calls, Knows(c), etcd' = etcd, want'[c] = want[c], answer'[c] = answer[c],
           got'[c] = got[c], reply'[c] = reply[c] \/ reply'[c] = "none"
    PROVE  (Knows(c))'
<1>1. store' = store /\ wrote' = wrote /\ times' = times
    BY DEF etcd
<1>2. (Creates(c))' = Creates(c) /\ (Moved(c))' = Moved(c)
    BY Zenon, <1>1 DEF Creates, Moved
<1>3. (reply'[c] = "no" => reply[c] = "no") /\ (reply'[c] = "yes" => reply[c] = "yes")
    OBVIOUS
<1>. QED  BY ZenonT(40), <1>1, <1>2, <1>3 DEF Knows

LEMMA LoadStep ==
    ASSUME IInv, Typed', NEW c \in Calls, NEW k \in Keys, Load(c, k)
    PROVE  IInv'
<1>1. /\ pc[c] = "load" /\ pc' = pc /\ attempt' = attempt /\ reply' = reply /\ wire' = wire
      /\ answer' = answer /\ got' = got /\ etcd' = etcd
    BY Zenon DEF Load
<1>2. /\ want'[c] = [j \in DOMAIN want[c] \cup {k} |-> IF j = k THEN store[k].rev ELSE want[c][j]]
      /\ \A d \in Calls : d # c => want'[d] = want[d]
    BY DEF Load, IInv, Typed
<1>3. Lives(c) /\ Knows(c)
    BY Zenon DEF IInv
<1>4. store' = store /\ wrote' = wrote /\ times' = times
    BY <1>1 DEF etcd
<1>5. (Lives(c))'
    BY <1>1, <1>3, <1>4 DEF Lives
<1>6. wrote[c] = 0 /\ reply[c] = "none" /\ answer[c] = "none"
    BY <1>1, <1>3 DEF Lives
<1>7. \A j \in DOMAIN want'[c] : want'[c][j] <= store[j].rev
  <2>1. \A j \in DOMAIN want[c] : want[c][j] <= store[j].rev
    BY Zenon, <1>3 DEF Knows
  <2>2. store[k].rev \in Nat
    BY Zenon, StoreType DEF IInv
  <2>. QED  BY <1>2, <2>1, <2>2
<1>8. reply'[c] \notin {"yes", "no"} /\ answer'[c] \notin {"ok", "conflict"}
    BY <1>1, <1>6
<1>9. (Knows(c))'
    BY Zenon, <1>3, <1>4, <1>6, <1>7, <1>8 DEF Knows
<1>10. \A d \in Calls : d # c => Same(d)
    BY Zenon, <1>1, <1>2 DEF Same
<1>. QED  BY Zenon, <1>1, <1>5, <1>9, <1>10, QuietStep

\* The call goes on to another place.
LEMMA GotoStep ==
    ASSUME IInv, Typed', NEW c \in Calls, NEW label \in Labels, Goto(c, label),
           want' = want, attempt' = attempt, reply' = reply, wire' = wire, answer' = answer,
           got' = got, etcd' = etcd, pc[c] # "done", label # "done", label # "load",
           pc[c] = "load" => want[c] # NoKeys,
           label = "check" => pc[c] = "load",
           label = "recover" => reply[c] = "no",
           label \notin {"wait", "recover"} => reply[c] = "none"
    PROVE  IInv'
<1>1. pc'[c] = label /\ \A d \in Calls : d # c => pc'[d] = pc[d]
    BY DEF Goto, IInv, Typed
<1>2. Lives(c) /\ Knows(c) /\ wrote' = wrote
    BY DEF IInv, etcd
<1>3. DOMAIN want[c] # {}
    BY Zenon, <1>2, SomeKeys DEF Lives, IInv, Typed
<1>4. (Lives(c))'
    BY <1>1, <1>2, <1>3 DEF Lives
<1>5. (Knows(c))'
    BY Zenon, <1>2, KnowsKeeps
<1>6. \A d \in Calls : d # c => Same(d)
    BY Zenon, <1>1 DEF Same
<1>. QED  BY Zenon, <1>4, <1>5, <1>6, QuietStep

LEMMA SeeStep ==
    ASSUME IInv, Typed', NEW c \in Calls, NEW k, NEW label \in Labels, See(c, k, label),
           want' = want, wire' = wire, etcd' = etcd,
           \/ pc[c] = "check" /\ label = "send"
           \/ pc[c] = "recover" /\ label = "recover"
    PROVE  IInv'
<1>1. attempt' = attempt /\ reply' = reply /\ answer' = answer /\ got' = got
    BY Zenon DEF See
<1>2. Lives(c) /\ Knows(c)
    BY Zenon DEF IInv
<1>3. CASE Goto(c, label)
  <2>1. /\ pc[c] # "done" /\ pc[c] # "load" /\ label # "done" /\ label # "load" /\ label # "check"
        /\ label = "recover" => reply[c] = "no"
        /\ label \notin {"wait", "recover"} => reply[c] = "none"
    BY <1>2 DEF Lives
  <2>. QED  BY Zenon, <1>1, <1>3, <2>1, GotoStep
<1>4. CASE pc' = pc
  <2>1. wrote' = wrote
    BY DEF etcd
  <2>2. (Lives(c))'
    BY Zenon, <1>1, <1>2, <1>4, <2>1 DEF Lives
  <2>3. (Knows(c))'
    BY Zenon, <1>1, <1>2, KnowsKeeps
  <2>. QED  BY Zenon, <1>1, <1>4, <2>2, <2>3, QuietStep DEF Same
<1>. QED  BY Zenon, <1>3, <1>4 DEF See

\* The call ends with an answer that is true.
LEMMA AnswerStep ==
    ASSUME IInv, Typed', NEW c \in Calls, NEW what \in {"ok", "conflict", "error"}, NEW rev \in Nat,
           Finish(c, what, rev), want' = want, wire' = wire, etcd' = etcd, pc[c] # "load",
           what = "ok" => wrote[c] # 0 /\ rev = wrote[c],
           what = "conflict" => Moved(c),
           what = "conflict" /\ Recovers /\ ~Creates(c) => \E k \in DOMAIN want[c] : store[k].val # c
    PROVE  IInv'
<1>1. Typed /\ wire[c] \in 0 .. MaxAttempts /\ DOMAIN want[c] # {}
    BY Zenon DEF IInv, Lives
<1>2. /\ pc'[c] = "done" /\ answer'[c] = what /\ got'[c] = rev /\ attempt'[c] = 1
      /\ reply'[c] = "none" /\ \A d \in Calls : d # c => Same(d)
    BY Zenon, <1>1, FinishEffect
<1>. QED  BY Zenon, <1>1, <1>2, FinishKeeps

\* An attempt is abandoned: its transaction may still arrive.
LEMMA AbandonStep ==
    ASSUME IInv, Typed', NEW c \in Calls, Abandon(c), Retry(c) \/ Finish(c, "error", 0)
    PROVE  IInv'
<1>1. /\ pc[c] = "wait" /\ want' = want /\ etcd' = etcd
      /\ wire' = [wire EXCEPT ![c] = IF reply[c] = "none" THEN @ + 1 ELSE @]
    BY Zenon DEF Abandon
<1>2. Lives(c) /\ Knows(c) /\ DOMAIN want[c] # {}
    BY <1>1 DEF IInv, Lives
<1>3. /\ wire[c] \in Nat /\ attempt[c] \in Nat /\ wire[c] < attempt[c] /\ attempt[c] <= MaxAttempts
      /\ wire'[c] \in {wire[c], wire[c] + 1} /\ \A d \in Calls : d # c => wire'[d] = wire[d]
    BY <1>1, <1>2 DEF IInv, Typed, Lives
<1>4. wire'[c] \in 0 .. MaxAttempts /\ wire'[c] < attempt[c] + 1
    BY <1>3, CallsAssumption
<1>5. CASE Finish(c, "error", 0)
  <2>1. /\ pc' = [pc EXCEPT ![c] = "done"] /\ answer' = [answer EXCEPT ![c] = "error"]
        /\ got' = [got EXCEPT ![c] = 0] /\ attempt' = [attempt EXCEPT ![c] = 1]
        /\ reply' = [reply EXCEPT ![c] = "none"]
    BY Zenon, <1>5 DEF Finish, Goto
  <2>2. /\ pc'[c] = "done" /\ answer'[c] = "error" /\ got'[c] = 0 /\ attempt'[c] = 1
        /\ reply'[c] = "none" /\ \A d \in Calls : d # c => Same(d)
    BY <1>1, <1>3, <2>1 DEF IInv, Typed, Same
  <2>3. "error" \in {"ok", "conflict", "error"} /\ "error" # "ok" /\ "error" # "conflict" /\ 0 \in Nat
    OBVIOUS
  <2>. QED  BY Zenon, <1>1, <1>2, <1>4, <2>2, <2>3, FinishKeeps
<1>6. CASE Retry(c) /\ attempt[c] < MaxAttempts
  <2>1. /\ attempt' = [attempt EXCEPT ![c] = @ + 1] /\ reply' = [reply EXCEPT ![c] = "none"]
        /\ pc' = [pc EXCEPT ![c] = "send"] /\ answer' = answer /\ got' = got
    BY Zenon, <1>6 DEF Retry, Goto
  <2>2. /\ pc'[c] = "send" /\ attempt'[c] = attempt[c] + 1 /\ reply'[c] = "none"
        /\ \A d \in Calls : d # c => Same(d)
    BY <1>1, <1>3, <2>1 DEF IInv, Typed, Same
  <2>3. attempt'[c] \in 1 .. MaxAttempts
    BY <1>3, <1>6, <2>2, CallsAssumption
  <2>4. (Lives(c))'
    BY <1>1, <1>2, <1>4, <2>1, <2>2, <2>3 DEF Lives
  <2>5. (Knows(c))'
    BY Zenon, <1>1, <1>2, <2>1, <2>2, KnowsKeeps
  <2>. QED  BY Zenon, <1>1, <2>2, <2>4, <2>5, QuietStep
<1>. QED  BY Zenon, <1>5, <1>6 DEF Retry

LEMMA LoseLateStep ==
    ASSUME IInv, Typed', NEW c \in Calls, LoseLate(c)
    PROVE  IInv'
<1>1. /\ wire[c] > 0 /\ wire' = [wire EXCEPT ![c] = @ - 1] /\ etcd' = etcd
      /\ pc' = pc /\ want' = want /\ attempt' = attempt /\ reply' = reply /\ answer' = answer
      /\ got' = got
    BY Zenon DEF LoseLate
<1>2. wire'[c] = wire[c] - 1 /\ wire[c] \in Nat /\ attempt[c] \in Nat
      /\ \A d \in Calls : d # c => Same(d)
    BY <1>1 DEF IInv, Typed, Same
<1>3. Lives(c) /\ Knows(c) /\ wrote' = wrote
    BY <1>1 DEF IInv, etcd
<1>4. /\ pc[c] \notin {"load", "check"} /\ (pc[c] # "done" => wire'[c] < attempt[c])
      /\ wire'[c] \in 0 .. MaxAttempts
    BY <1>1, <1>2, <1>3, CallsAssumption DEF Lives
<1>5. (Lives(c))'
    BY Zenon, <1>1, <1>3, <1>4 DEF Lives
<1>6. (Knows(c))'
    BY Zenon, <1>1, <1>3, KnowsKeeps
<1>. QED  BY Zenon, <1>1, <1>2, <1>5, <1>6, QuietStep

LEMMA ProceedStep ==
    ASSUME IInv, Typed', NEW c \in Calls, Proceed(c)
    PROVE  IInv'
<1>0. /\ Lives(c) /\ Knows(c) /\ Typed
      /\ "check" \in Labels /\ "send" \in Labels /\ "wait" \in Labels /\ "recover" \in Labels
      /\ 0 \in Nat
      /\ "ok" # "conflict" /\ "error" # "ok" /\ "error" # "conflict"
    BY DEF IInv, Labels
<1>1. CASE Begin(c)
  <2>1. /\ pc[c] = "load" /\ want[c] # NoKeys /\ want' = want /\ attempt' = attempt
        /\ reply' = reply /\ wire' = wire /\ answer' = answer /\ got' = got /\ etcd' = etcd
        /\ Goto(c, "check") \/ Goto(c, "send")
    BY Zenon, <1>1 DEF Begin
  <2>2. reply[c] = "none" /\ pc[c] # "done"
    BY <1>0, <2>1 DEF Lives
  <2>3. "check" # "done" /\ "check" # "load" /\ "check" # "recover" /\ "send" # "done"
        /\ "send" # "load" /\ "send" # "recover" /\ "send" # "check"
    OBVIOUS
  <2>. QED  BY Zenon, <1>0, <2>1, <2>2, <2>3, GotoStep
<1>2. CASE Send(c)
  <2>1. /\ pc[c] = "send" /\ want' = want /\ attempt' = attempt
        /\ reply' = reply /\ wire' = wire /\ answer' = answer /\ got' = got /\ etcd' = etcd
        /\ Goto(c, "wait")
    BY Zenon, <1>2 DEF Send
  <2>2. pc[c] # "done" /\ pc[c] # "load" /\ "wait" \notin {"done", "load", "check", "recover"}
    BY <2>1
  <2>. QED  BY Zenon, <1>0, <2>1, <2>2, GotoStep
<1>3. CASE Check(c)
  <2>1. /\ pc[c] = "check" /\ want' = want /\ wire' = wire /\ etcd' = etcd
    BY Zenon, <1>3 DEF Check
  <2>2. PICK k \in DOMAIN want[c] : IF store[k].rev = want[c][k] THEN See(c, k, "send")
                                    ELSE Finish(c, "conflict", 0)
    BY Zenon, <1>3 DEF Check
  <2>3. CASE See(c, k, "send")
    BY Zenon, <1>0, <2>1, <2>3, SeeStep
  <2>4. CASE store[k].rev # want[c][k] /\ Finish(c, "conflict", 0)
    <3>1. Moved(c) /\ pc[c] # "load" /\ wrote[c] = 0
        BY <1>0, <2>1, <2>4 DEF Moved, Lives
    <3>2. k \in Keys
        BY Zenon, <1>0, WantType DEF Typed
    <3>3. store[k].val # c
        BY Zenon, <1>0, <3>1, <3>2 DEF Knows
    <3>. QED  BY Zenon, <1>0, <2>1, <2>4, <3>1, <3>3, AnswerStep
  <2>. QED  BY Zenon, <2>2, <2>3, <2>4
<1>4. CASE Apply(c)
    BY Zenon, <1>4, ApplyStep
<1>5. CASE Respond(c)
  <2>1. pc[c] = "wait" /\ reply[c] # "none" /\ want' = want /\ wire' = wire /\ etcd' = etcd
    BY Zenon, <1>5 DEF Respond
  <2>2. pc[c] # "load" /\ pc[c] # "done" /\ wrote[c] \in Nat
        /\ (reply[c] # "yes" => reply[c] = "no")
    BY <1>0, <2>1 DEF Typed
  <2>3. CASE reply[c] = "yes"
    <3>1. Finish(c, "ok", wrote[c]) /\ wrote[c] # 0
        BY Zenon, <1>0, <1>5, <2>3 DEF Respond, Knows
    <3>. QED  BY Zenon, <1>0, <2>1, <2>2, <3>1, AnswerStep
  <2>4. CASE reply[c] = "no" /\ Recovers /\ ~Creates(c)
    <3>1. Goto(c, "recover") /\ attempt' = attempt /\ reply' = reply /\ answer' = answer /\ got' = got
        BY <1>5, <2>4 DEF Respond
    <3>2. "recover" \notin {"done", "load", "check"}
        OBVIOUS
    <3>. QED  BY Zenon, <1>0, <2>1, <2>2, <2>4, <3>1, <3>2, GotoStep
  <2>5. CASE reply[c] = "no" /\ ~(Recovers /\ ~Creates(c))
    <3>1. Finish(c, "conflict", 0) /\ Moved(c)
        BY <1>0, <1>5, <2>5 DEF Respond, Knows
    <3>. QED  BY Zenon, <1>0, <2>1, <2>2, <2>5, <3>1, AnswerStep
  <2>. QED  BY Zenon, <2>2, <2>3, <2>4, <2>5
<1>6. CASE Recover(c)
  <2>1. pc[c] = "recover" /\ want' = want /\ wire' = wire /\ etcd' = etcd
    BY Zenon, <1>6 DEF Recover
  <2>2. pc[c] # "load" /\ reply[c] = "no" /\ Moved(c)
    BY <1>0, <2>1 DEF Lives, Knows
  <2>3. PICK k \in DOMAIN want[c] :
            \/ store[k].val # c /\ Finish(c, "conflict", 0)
            \/ store[k].val = c /\ Finish(c, "ok", store[k].rev)
            \/ See(c, k, "recover")
    BY Zenon, <1>6 DEF Recover
  <2>4. k \in Keys
    BY Zenon, <1>0, WantType DEF Typed
  <2>5. store[k].rev \in Nat /\ (store[k].val = c => wrote[c] # 0 /\ store[k].rev = wrote[c])
    BY Zenon, <1>0, <2>4, StoreType DEF Knows
  <2>6. CASE store[k].val # c /\ Finish(c, "conflict", 0)
    BY Zenon, <1>0, <2>1, <2>2, <2>6, AnswerStep
  <2>7. CASE store[k].val = c /\ Finish(c, "ok", store[k].rev)
    BY Zenon, <1>0, <2>1, <2>2, <2>5, <2>7, AnswerStep
  <2>8. CASE See(c, k, "recover")
    BY Zenon, <1>0, <2>1, <2>8, SeeStep
  <2>. QED  BY Zenon, <2>3, <2>6, <2>7, <2>8
<1>7. CASE AttemptFails(c) \/ GiveUp(c)
    BY Zenon, <1>7, AbandonStep DEF AttemptFails, GiveUp
<1>8. CASE LoadFails(c)
  <2>1. want' = want /\ wire' = wire /\ etcd' = etcd /\ Finish(c, "error", 0)
    BY Zenon, <1>8 DEF LoadFails
  <2>2. pc[c] # "load"
    BY <1>8 DEF LoadFails
  <2>. QED  BY Zenon, <1>0, <2>1, <2>2, AnswerStep
<1>. QED  BY Zenon, <1>1, <1>2, <1>3, <1>4, <1>5, <1>6, <1>7, <1>8 DEF Proceed

LEMMA InitIInv == Init => IInv
<1>. SUFFICES ASSUME Init PROVE IInv
    OBVIOUS
<1>1. /\ store \in [Keys -> [val : {None}, rev : {0, 1}]] /\ head = 1
      /\ \A c \in Calls :
            /\ pc[c] = "load" /\ want[c] = NoKeys /\ attempt[c] = 1 /\ reply[c] = "none"
            /\ wire[c] = 0 /\ answer[c] = "none" /\ got[c] = 0 /\ wrote[c] = 0 /\ times[c] = 0
    BY DEF Init
<1>2. \A k \in Keys : store[k].rev \in Nat /\ store[k].rev <= head /\ store[k].val = None
    BY <1>1
<1>3. Typed
  <2>1. store \in [Keys -> [val : Calls \cup {None}, rev : Nat]] /\ head \in Nat
    BY <1>1
  <2>2. want \in [Calls -> Wants]
    BY Zenon, NoKeysType DEF Init
  <2>3. /\ pc \in [Calls -> Labels] /\ attempt \in [Calls -> Nat] /\ wire \in [Calls -> Nat]
        /\ seen \in [Calls -> SUBSET Keys] /\ reply \in [Calls -> {"none", "yes", "no"}]
        /\ answer \in [Calls -> {"none", "ok", "conflict", "error"}]
        /\ got \in [Calls -> Nat] /\ wrote \in [Calls -> Nat] /\ times \in [Calls -> Nat]
    BY DEF Init, Labels
  <2>. QED  BY Zenon, <2>1, <2>2, <2>3 DEF Typed
<1>4. ASSUME NEW c \in Calls PROVE Lives(c) /\ Knows(c)
  <2>1. Lives(c)
    BY <1>1, CallsAssumption DEF Lives
  <2>2. DOMAIN want[c] = {} /\ \A k \in Keys : store[k].val # c
    BY <1>1, <1>2, NoKeysType, CallsAssumption
  <2>3. Knows(c)
    BY <1>1, <2>2 DEF Knows
  <2>. QED  BY Zenon, <2>1, <2>3
<1>. QED  BY Zenon, <1>2, <1>3, <1>4 DEF IInv

LEMMA SameAll ==
    ASSUME IInv, UNCHANGED vars
    PROVE  IInv'
<1>1. Typed' /\ etcd' = etcd /\ store' = store /\ head' = head /\ \A d \in Calls : Same(d)
    BY Zenon DEF vars, IInv, Typed, etcd, Same
<1>2. \A d \in Calls : (Lives(d))' /\ (Knows(d))'
    BY Zenon, <1>1, SameKeeps DEF IInv
<1>. QED  BY Zenon, <1>1, <1>2 DEF IInv

\* The inductive invariant of the calls: what a call has done, what its caller was
\* told, and that a transaction that no longer compares never does again.
THEOREM CallsHold == Spec => []IInv
<1>1. Init => IInv
    BY Zenon, InitIInv
<1>2. IInv /\ [Next]_vars => IInv'
  <2>. SUFFICES ASSUME IInv, [Next]_vars PROVE IInv'
    OBVIOUS
  <2>1. ASSUME NEW c \in Calls,
               Proceed(c) \/ ApplyLate(c) \/ LoseLate(c) \/ \E k \in Keys : Load(c, k)
        PROVE  IInv'
    <3>1. Typed'
        BY Zenon, <2>1, NextTyped DEF IInv
    <3>. QED  BY Zenon, <2>1, <3>1, ProceedStep, ApplyLateStep, LoseLateStep, LoadStep
  <2>2. CASE UNCHANGED vars
    BY Zenon, <2>2, SameAll
  <2>. QED  BY Zenon, <2>1, <2>2 DEF Next
<1>. QED  BY <1>1, <1>2, PTL DEF Spec

\* What a caller is told is true (retry_etcd_request and the recovery of timeline
\* calls): a call is applied once at most, however often it was sent and however late;
\* the revision of an ok is that of its own puts; a timeline call that reports a
\* conflict has not written, or has been overwritten; no more attempts than the limit
\* are made or left on the wire.
THEOREM AnswersTrue == Spec => [](TypeOK /\ AppliedOnce /\ OkIsOwn /\ ConflictIsReal)
<1>1. IInv => TypeOK /\ AppliedOnce /\ OkIsOwn /\ ConflictIsReal
  <2>. SUFFICES ASSUME IInv PROVE TypeOK /\ AppliedOnce /\ OkIsOwn /\ ConflictIsReal
    OBVIOUS
  <2>1. TypeOK
    <3>1. \A k \in Keys : store[k].rev \in 0 .. head /\ store[k].val \in Calls \cup {None}
        BY StoreType DEF IInv, Typed
    <3>2. \A c \in Calls : DOMAIN want[c] \subseteq Keys /\ Lives(c)
        BY Zenon, WantType DEF IInv, Typed
    <3>. QED  BY Zenon, <3>1, <3>2 DEF TypeOK, Lives
  <2>2. AppliedOnce
    <3>1. \A c \in Calls : times[c] = IF wrote[c] = 0 THEN 0 ELSE 1
        BY Zenon DEF IInv, Knows
    <3>. QED  BY <3>1 DEF AppliedOnce
  <2>3. OkIsOwn /\ ConflictIsReal
    BY Zenon DEF IInv, Knows, OkIsOwn, ConflictIsReal
  <2>. QED  BY Zenon, <2>1, <2>2, <2>3
<1>. QED  BY <1>1, CallsHold, PTL

-----------------------------------------------------------------------------
(* The refinement *)

\* What the promise sees of a call: the revisions it has given, the keys it has put.
Given == [c \in Calls |-> IF pc[c] = "load" THEN NoKeys ELSE want[c]]
Put == [c \in Calls |-> IF wrote[c] = 0 THEN {} ELSE DOMAIN want[c]]

LEMMA PutTable ==
    ASSUME NEW c \in Calls, NEW v
    PROVE  /\ Put'[c] = v /\ (\A d \in Calls : d # c => Put'[d] = Put[d])
                 => Put' = [Put EXCEPT ![c] = v]
           /\ Given'[c] = v /\ (\A d \in Calls : d # c => Given'[d] = Given[d])
                 => Given' = [Given EXCEPT ![c] = v]
<1>1. /\ Put = [d \in Calls |-> Put[d]] /\ Put' = [d \in Calls |-> Put'[d]]
      /\ Given = [d \in Calls |-> Given[d]] /\ Given' = [d \in Calls |-> Given'[d]]
    BY DEF Put, Given
<1>. QED  BY <1>1

\* Nothing of the promise's business.
LEMMA Unseen ==
    ASSUME IInv, store' = store, answer' = answer, wrote' = wrote,
           \A d \in Calls : \/ pc[d] = "load" /\ pc'[d] = "load"
                            \/ pc[d] # "load" /\ pc'[d] # "load" /\ want'[d] = want[d]
    PROVE  PromisedStep
<1>1. Given' = Given
    BY DEF Given
<1>2. \A d \in Calls : pc[d] = "load" => wrote[d] = 0
    BY DEF IInv, Lives
<1>3. Put' = Put
    BY <1>2 DEF Put
<1>. QED  BY <1>1, <1>3 DEF PromisedStep, Promise!vars, Given, Put, Promise!NoKeys

\* An answer, and that it may be given.
LEMMA Answered ==
    ASSUME IInv, NEW c \in Calls, NEW what \in {"ok", "conflict", "error"}, NEW rev,
           Finish(c, what, rev), pc[c] # "load", pc[c] # "done", want' = want, etcd' = etcd,
           what = "ok" => wrote[c] # 0, what = "conflict" => Moved(c)
    PROVE  PromisedStep
<1>1. store' = store /\ wrote' = wrote /\ answer' = [answer EXCEPT ![c] = what]
    BY DEF etcd, Finish
<1>2. \A d \in Calls : (pc'[d] = "load") <=> (pc[d] = "load")
    BY DEF Finish, Goto, IInv, Typed
<1>3. Given' = Given /\ Put' = Put
    BY <1>1, <1>2 DEF Given, Put
<1>4. DOMAIN want[c] # {} /\ answer[c] = "none" /\ DOMAIN NoKeys = {}
    BY NoKeysType DEF IInv, Lives, Typed
<1>5. Given[c] = want[c] /\ Given[c] # NoKeys
    BY <1>4 DEF Given
<1>6. what = "ok" => Put[c] = DOMAIN Given[c]
    BY <1>5 DEF Put
<1>7. what = "conflict" => \E k \in DOMAIN Given[c] : store[k].rev # Given[c][k]
    BY Zenon, <1>5 DEF Moved
<1>8. Promise!Answer(c, what)
    BY <1>1, <1>3, <1>4, <1>5, <1>6, <1>7 DEF Promise!Answer, Given, Put, Promise!NoKeys, NoKeys
<1>. QED  BY Zenon, <1>8 DEF PromisedStep, Promise!Next

\* A transaction: the promise's write, or nothing.
LEMMA Written ==
    ASSUME IInv, NEW c \in Calls, Transact(c), pc[c] # "load", pc' = pc, want' = want,
           answer' = answer
    PROVE  PromisedStep
<1>1. CASE ~Compares(c)
  <2>1. store' = store /\ wrote' = wrote
    BY <1>1 DEF Transact, etcd
  <2>. QED  BY <1>1, <2>1, Unseen
<1>2. CASE Compares(c)
  <2>. DEFINE K == DOMAIN want[c]
  <2>1. Lives(c) /\ Knows(c) /\ ~Moved(c)
    BY Zenon, <1>2 DEF IInv, Moved, Compares
  <2>2. wrote[c] = 0 /\ answer[c] \notin {"ok", "conflict"} /\ K # {} /\ K \subseteq Keys
    BY Zenon, <2>1, WantType DEF Knows, Lives, IInv, Typed
  <2>3. answer[c] \in {"none", "error"}
    BY <2>2 DEF IInv, Typed
  <2>4. /\ Given[c] = want[c] /\ Put[c] = {} /\ Given' = Given
    BY <2>2 DEF Given, Put
  <2>5. wrote'[c] # 0 /\ \A d \in Calls : d # c => wrote'[d] = wrote[d]
    BY <1>2, Puts DEF IInv, Typed
  <2>6. Put' = [Put EXCEPT ![c] = Put[c] \cup K]
    <3>1. \A d \in Calls : d # c => Put'[d] = Put[d]
        BY Zenon, <2>5 DEF Put
    <3>2. Put'[c] = K
        BY <2>5 DEF Put
    <3>3. Put[c] \cup K = K
        BY <2>4
    <3>. QED  BY Zenon, <3>1, <3>2, <3>3, PutTable
  <2>7. \A k \in Keys : IF k \in K THEN store'[k].val = c /\ store'[k].rev > store[k].rev
                                   ELSE store'[k] = store[k]
    <3>1. \A k \in Keys : store[k].rev \in Nat
        BY Zenon, StoreType DEF IInv
    <3>. QED  BY <1>2, <2>2, <3>1, Puts DEF IInv, Typed
  <2>8. \A k \in K : store[k].rev = Given[c][k]
    BY Zenon, <1>2, <2>4 DEF Compares
  <2>9. K \in SUBSET (DOMAIN Given[c] \ Put[c])
    BY <2>4
  <2>. HIDE DEF K
  <2>10. /\ answer[c] \in {"none", "error"}
         /\ \E L \in SUBSET (DOMAIN Given[c] \ Put[c]) :
               /\ L # {} /\ \A k \in L : store[k].rev = Given[c][k]
               /\ \A k \in Keys : IF k \in L THEN store'[k].val = c /\ store'[k].rev > store[k].rev
                                             ELSE store'[k] = store[k]
               /\ Put' = [Put EXCEPT ![c] = @ \cup L]
         /\ Given' = Given /\ answer' = answer
    BY Zenon, <2>2, <2>3, <2>4, <2>6, <2>7, <2>8, <2>9
  <2>11. Promise!Write(c)
    BY Zenon, <2>10 DEF Promise!Write, Given, Put, Promise!NoKeys, NoKeys
  <2>. QED  BY Zenon, <2>11 DEF PromisedStep, Promise!Next
<1>. QED  BY Zenon, <1>1, <1>2

\* A call is made with revisions that were read.
LEMMA Made ==
    ASSUME IInv, NEW c \in Calls, Begin(c)
    PROVE  PromisedStep
<1>1. /\ pc[c] = "load" /\ want[c] # NoKeys /\ want' = want /\ answer' = answer
      /\ store' = store /\ wrote' = wrote
    BY DEF Begin, etcd
<1>2. pc'[c] # "load" /\ \A d \in Calls : d # c => pc'[d] = pc[d]
    BY DEF Begin, Goto, IInv, Typed
<1>3. /\ DOMAIN want[c] \subseteq Keys
      /\ \A k \in DOMAIN want[c] : want[c][k] \in Nat /\ want[c][k] <= store[k].rev
    BY Zenon, WantType DEF IInv, Typed, Knows
<1>4. \A k \in DOMAIN want[c] : want[c][k] \in 0 .. store[k].rev
    BY <1>3, StoreType DEF IInv
<1>5. Given[c] = NoKeys /\ Given'[c] = want[c] /\ Given' = [Given EXCEPT ![c] = Given'[c]]
  <2>1. Given[c] = NoKeys /\ Given'[c] = want[c]
    BY <1>1, <1>2 DEF Given
  <2>2. \A d \in Calls : d # c => Given'[d] = Given[d]
    BY <1>1, <1>2 DEF Given
  <2>. QED  BY Zenon, <2>1, <2>2, PutTable
<1>6. Put' = Put /\ answer[c] = "none"
    BY <1>1 DEF Put, IInv, Lives
<1>7. \E K \in SUBSET Keys :
         DOMAIN Given'[c] = K /\ \A k \in K : Given'[c][k] \in 0 .. store[k].rev
    BY Zenon, <1>3, <1>4, <1>5
<1>8. /\ Given[c] = NoKeys /\ answer[c] = "none" /\ Given'[c] # NoKeys
      /\ \E K \in SUBSET Keys :
            DOMAIN Given'[c] = K /\ \A k \in K : Given'[c][k] \in 0 .. store[k].rev
      /\ Given' = [Given EXCEPT ![c] = Given'[c]]
      /\ store' = store /\ Put' = Put /\ answer' = answer
    BY Zenon, <1>1, <1>5, <1>6, <1>7
<1>9. Promise!Begin(c)
    BY Zenon, <1>8 DEF Promise!Begin, Given, Put, Promise!NoKeys, NoKeys
<1>. QED  BY Zenon, <1>9 DEF PromisedStep, Promise!Next

\* The call moves on, or reads.
LEMMA Moves ==
    ASSUME IInv, NEW c \in Calls, NEW label, Goto(c, label) \/ pc' = pc,
           pc[c] # "load", label # "load", want' = want, answer' = answer, etcd' = etcd
    PROVE  PromisedStep
<1>1. store' = store /\ wrote' = wrote
    BY DEF etcd
<1>2. \A d \in Calls : (pc'[d] = "load") <=> (pc[d] = "load")
    BY DEF Goto, IInv, Typed
<1>. QED  BY Zenon, <1>1, <1>2, Unseen

LEMMA CallPromised ==
    ASSUME IInv, NEW c \in Calls,
           Proceed(c) \/ ApplyLate(c) \/ LoseLate(c) \/ \E k \in Keys : Load(c, k)
    PROVE  PromisedStep
<1>0. Lives(c) /\ Knows(c)
    BY Zenon DEF IInv
<1>1. ASSUME NEW k \in Keys, Load(c, k) PROVE PromisedStep
  <2>1. /\ pc[c] = "load" /\ pc' = pc /\ answer' = answer /\ etcd' = etcd
        /\ \A d \in Calls : d # c => want'[d] = want[d]
    BY <1>1 DEF Load, IInv, Typed
  <2>2. store' = store /\ wrote' = wrote
    BY <2>1 DEF etcd
  <2>3. \A d \in Calls : \/ pc[d] = "load" /\ pc'[d] = "load"
                         \/ pc[d] # "load" /\ pc'[d] # "load" /\ want'[d] = want[d]
    BY <2>1
  <2>. QED  BY Zenon, <2>1, <2>2, <2>3, Unseen
<1>2. CASE Begin(c)
    BY Zenon, <1>2, Made
<1>3. CASE Send(c)
  <2>1. pc[c] # "load" /\ "wait" # "load"
    BY <1>3 DEF Send
  <2>. QED  BY Zenon, <1>3, <2>1, Moves DEF Send
<1>4. CASE Check(c)
  <2>1. pc[c] = "check" /\ want' = want /\ etcd' = etcd
    BY Zenon, <1>4 DEF Check
  <2>2. pc[c] # "load" /\ pc[c] # "done" /\ "send" # "load" /\ "conflict" # "ok"
    BY <2>1
  <2>3. PICK k \in DOMAIN want[c] : IF store[k].rev = want[c][k] THEN See(c, k, "send")
                                    ELSE Finish(c, "conflict", 0)
    BY Zenon, <1>4 DEF Check
  <2>4. CASE See(c, k, "send")
    <3>1. answer' = answer /\ (Goto(c, "send") \/ pc' = pc)
        BY Zenon, <2>4 DEF See
    <3>. QED  BY Zenon, <2>1, <2>2, <3>1, Moves
  <2>5. CASE store[k].rev # want[c][k] /\ Finish(c, "conflict", 0)
    <3>1. Moved(c)
        BY Zenon, <2>5 DEF Moved
    <3>. QED  BY Zenon, <2>1, <2>2, <2>5, <3>1, Answered
  <2>. QED  BY Zenon, <2>3, <2>4, <2>5
<1>5. CASE Apply(c)
  <2>1. pc[c] # "load"
    BY <1>5 DEF Apply
  <2>. QED  BY Zenon, <1>5, <2>1, Written DEF Apply
<1>6. CASE ApplyLate(c)
  <2>1. pc[c] # "load"
    BY <1>0, <1>6 DEF ApplyLate, Lives
  <2>. QED  BY Zenon, <1>6, <2>1, Written DEF ApplyLate
<1>7. CASE LoseLate(c)
  <2>1. pc[c] # "load" /\ "done" # "load"
    BY <1>0, <1>7 DEF LoseLate, Lives
  <2>. QED  BY Zenon, <1>7, <2>1, Moves DEF LoseLate
<1>8. CASE Respond(c)
  <2>1. pc[c] = "wait" /\ reply[c] # "none" /\ want' = want /\ etcd' = etcd
    BY Zenon, <1>8 DEF Respond
  <2>2. /\ pc[c] # "load" /\ pc[c] # "done" /\ "recover" # "load" /\ "conflict" # "ok"
        /\ reply[c] # "yes" => reply[c] = "no"
    BY <2>1 DEF IInv, Typed
  <2>3. CASE reply[c] = "yes" /\ Finish(c, "ok", wrote[c])
    BY Zenon, <1>0, <2>1, <2>2, <2>3, Answered DEF Knows
  <2>4. CASE Goto(c, "recover") /\ answer' = answer
    BY Zenon, <2>1, <2>2, <2>4, Moves
  <2>5. CASE reply[c] # "yes" /\ Finish(c, "conflict", 0)
    BY Zenon, <1>0, <2>1, <2>2, <2>5, Answered DEF Knows
  <2>. QED  BY Zenon, <1>8, <2>3, <2>4, <2>5 DEF Respond
<1>9. CASE Recover(c)
  <2>1. pc[c] = "recover" /\ want' = want /\ etcd' = etcd
    BY Zenon, <1>9 DEF Recover
  <2>2. /\ pc[c] # "load" /\ pc[c] # "done" /\ "recover" # "load" /\ "conflict" # "ok" /\ Moved(c)
    BY <1>0, <2>1 DEF Lives, Knows
  <2>3. PICK k \in DOMAIN want[c] :
            \/ store[k].val # c /\ Finish(c, "conflict", 0)
            \/ store[k].val = c /\ Finish(c, "ok", store[k].rev)
            \/ See(c, k, "recover")
    BY Zenon, <1>9 DEF Recover
  <2>4. k \in Keys
    BY Zenon, WantType DEF IInv, Typed
  <2>5. CASE Finish(c, "conflict", 0)
    BY Zenon, <2>1, <2>2, <2>5, Answered
  <2>6. CASE store[k].val = c /\ Finish(c, "ok", store[k].rev)
    <3>1. wrote[c] # 0
        BY Zenon, <1>0, <2>4, <2>6 DEF Knows
    <3>. QED  BY Zenon, <2>1, <2>2, <2>6, <3>1, Answered
  <2>7. CASE See(c, k, "recover")
    <3>1. answer' = answer /\ (Goto(c, "recover") \/ pc' = pc)
        BY Zenon, <2>7 DEF See
    <3>. QED  BY Zenon, <2>1, <2>2, <3>1, Moves
  <2>. QED  BY Zenon, <2>3, <2>5, <2>6, <2>7
<1>10. CASE AttemptFails(c) \/ GiveUp(c)
  <2>1. pc[c] = "wait" /\ want' = want /\ etcd' = etcd
    BY Zenon, <1>10 DEF AttemptFails, GiveUp, Abandon
  <2>2. /\ pc[c] # "load" /\ pc[c] # "done" /\ "send" # "load" /\ "error" # "ok"
        /\ "error" # "conflict"
    BY <2>1
  <2>3. CASE Finish(c, "error", 0)
    BY Zenon, <2>1, <2>2, <2>3, Answered
  <2>4. CASE Goto(c, "send") /\ answer' = answer
    BY Zenon, <2>1, <2>2, <2>4, Moves
  <2>. QED  BY Zenon, <1>10, <2>3, <2>4 DEF AttemptFails, GiveUp, Retry
<1>11. CASE LoadFails(c)
  <2>1. pc[c] # "load" /\ pc[c] # "done" /\ "error" # "ok" /\ "error" # "conflict"
    BY <1>11 DEF LoadFails
  <2>. QED  BY Zenon, <1>11, <2>1, Answered DEF LoadFails
<1>. QED  BY Zenon, <1>1, <1>2, <1>3, <1>4, <1>5, <1>6, <1>7, <1>8, <1>9, <1>10, <1>11 DEF Proceed

\* The calls of EtcdMetadataStore, with their retries, lost answers and late
\* transactions, implement the promise of the authorities: a record is replaced only
\* on the revision the caller has read, a call writes its keys once, ok is said only
\* of what was written, and after a conflict nothing is written.
THEOREM EtcdKeepsPromise == Spec => Promised
<1>1. Init => Promise!Init
  <2>. SUFFICES ASSUME Init PROVE Promise!Init
    OBVIOUS
  <2>1. store \in [Keys -> [val : {"start"}, rev : {0, 1}]] /\ answer = [c \in Calls |-> "none"]
    BY Zenon DEF Init, None
  <2>2. \A c \in Calls : pc[c] = "load" /\ wrote[c] = 0
    BY DEF Init
  <2>3. Given = [c \in Calls |-> NoKeys] /\ Put = [c \in Calls |-> {}]
    BY <2>2 DEF Given, Put
  <2>. QED  BY Zenon, <2>1, <2>3 DEF Promise!Init, Given, Put, NoKeys, Promise!NoKeys
<1>2. IInv /\ [Next]_vars => [vars' = vars \/ PromisedStep]_vars
    BY Zenon, CallPromised DEF Next
<1>. QED  BY <1>1, <1>2, CallsHold, PTL DEF Spec, Promised

\* The records of one call are replaced together, with one revision
\* (compare_exchange_generators).
THEOREM BatchIsOne == Spec => [][BatchTogether]_vars
<1>1. IInv /\ [Next]_vars => [BatchTogether]_vars
  <2>. SUFFICES ASSUME IInv, [Next]_vars, NEW c \in Calls, wrote'[c] # wrote[c],
                       NEW k \in DOMAIN want[c]
                PROVE  store'[k] = [val |-> c, rev |-> wrote'[c]]
    BY Zenon DEF BatchTogether
  <2>1. PICK d \in Calls : Transact(d)
    <3>1. ASSUME NEW d \in Calls, Proceed(d), ~Apply(d) PROVE wrote' = wrote
      <4>1. etcd' = etcd
        BY Zenon, <3>1 DEF Proceed, Begin, Check, Send, Respond, Recover, AttemptFails, GiveUp,
                           Abandon, LoadFails
      <4>. QED  BY <4>1 DEF etcd
    <3>2. ASSUME NEW d \in Calls, LoseLate(d) \/ \E j \in Keys : Load(d, j) PROVE wrote' = wrote
      <4>1. etcd' = etcd
        BY Zenon, <3>2 DEF LoseLate, Load
      <4>. QED  BY <4>1 DEF etcd
    <3>3. CASE UNCHANGED vars
        BY Zenon, <3>3 DEF vars
    <3>. QED  BY Zenon, <3>1, <3>2, <3>3 DEF Next, Apply, ApplyLate
  <2>2. Compares(d)
    <3>1. ~Compares(d) => wrote' = wrote
        BY <2>1 DEF Transact, etcd
    <3>. QED  BY Zenon, <3>1
  <2>3. d = c
    BY Zenon, <2>1, <2>2, Puts
  <2>4. k \in Keys /\ wrote'[c] = head + 1
    BY Zenon, <2>1, <2>2, <2>3, Puts
  <2>. QED  BY Zenon, <2>1, <2>2, <2>3, <2>4 DEF Transact
<1>. QED  BY <1>1, CallsHold, PTL DEF Spec
=============================================================================
