------------------------- MODULE AccountPool_proofs -------------------------
(***************************************************************************)
(* For every number of processes and accounts, every accounts file and     *)
(* every class: an account in use is locked by its user, unless a provider *)
(* has kept one account under two keys, and every lock file is accounted   *)
(* for.                                                                    *)
(***************************************************************************)
EXTENDS AccountPool, FiniteSetTheorems, TLAPS

(***************************************************************************)
(* Only the domains and the accounts of the entries are typed: what a key  *)
(* is made of does not matter here.                                        *)
(***************************************************************************)
Domains ==
  /\ DOMAIN pc = Procs /\ DOMAIN todo = Procs /\ DOMAIN free_hash = Procs
  /\ DOMAIN isolated_creds = Procs /\ DOMAIN returning = Procs
  /\ lock \in [Accounts -> Procs \cup {None}]
  /\ accounts_dir \in BOOLEAN /\ doubled \in BOOLEAN

(***************************************************************************)
(* Where a process is, and what it has there.                              *)
(***************************************************************************)
Placed(p) ==
  /\ pc[p] \in {"idle", "setup", "wrap", "running", "teardown"}
  /\ \A e \in isolated_creds[p] \cup returning[p] : e.acc \in Accounts
  /\ IF pc[p] = "wrap" THEN free_hash[p] \in Accounts ELSE free_hash[p] = None
  /\ pc[p] = "idle" => isolated_creds[p] = {}

NoDirNoLock == accounts_dir \/ \A a \in Accounts : lock[a] = None

Own(p, S)   == \A e \in S : lock[e.acc] = p
Distinct(S) == \A d, e \in S : d.acc = e.acc => d = e

(***************************************************************************)
(* While an account is being wrapped the entry under its key is about to   *)
(* be overwritten; the others are in the dictionary once.                  *)
(***************************************************************************)
Staying(p) == Without(isolated_creds[p], DictKey(Head(todo[p]), 0))

Safe(p) ==
  /\ pc[p] \in {"setup", "running"} => Own(p, isolated_creds[p]) /\ Distinct(isolated_creds[p])
  /\ pc[p] = "wrap" => /\ Own(p, isolated_creds[p]) /\ lock[free_hash[p]] = p
                       /\ Distinct(Staying(p))
                       /\ \A e \in Staying(p) : e.acc # free_hash[p]
  /\ pc[p] = "teardown" => Own(p, returning[p]) /\ Distinct(returning[p])

(***************************************************************************)
(* The inductive invariant.  LockedWhileUsed alone is not inductive: an    *)
(* entry that is in the dictionary twice would be given back twice.        *)
(***************************************************************************)
PoolInv == /\ Domains
           /\ \A p \in Procs : Placed(p)
           /\ NoDirNoLock
           /\ doubled \/ \A p \in Procs : Safe(p)

-----------------------------------------------------------------------------
(***************************************************************************)
(* get_creds_by_roles copies an entry to a new key; once the entry under   *)
(* the old key is overwritten no account is there twice.                   *)
(***************************************************************************)
LEMMA MovedDistinct ==
  ASSUME NEW p, NEW r, Distinct(isolated_creds[p])
  PROVE  Distinct(Without(Moved(p, r), DictKey(r, 0)))
<1> DEFINE k == DictKey(r, 0)
           D == isolated_creds[p]
           n == Cardinality(D)
           C == {[key |-> DictKey(r, n), acc |-> e.acc] : e \in Cached(p, r)}
<1> SUFFICES ASSUME NEW d \in Without(D \cup C, k), NEW e \in Without(D \cup C, k),
                    d.acc = e.acc
             PROVE  d = e
  BY DEF Moved, Distinct
<1>1. d.key # k /\ e.key # k /\ d \in D \cup C /\ e \in D \cup C
  BY DEF Without
<1>2. CASE d \in D /\ e \in D
  BY <1>2 DEF Distinct
<1>3. ASSUME NEW f \in C, NEW g \in D, g.key # k, f.acc = g.acc PROVE FALSE
  <2>1. PICK h \in Cached(p, r) : f = [key |-> DictKey(r, n), acc |-> h.acc]
    BY <1>3
  <2>2. h \in D /\ h.key = k
    BY DEF Cached
  <2>3. h.acc = g.acc
    BY <1>3, <2>1
  <2> QED
    BY <1>3, <2>2, <2>3 DEF Distinct
<1>4. CASE d \in C /\ e \in C
  BY <1>4
<1> QED
  BY <1>1, <1>2, <1>3, <1>4

(***************************************************************************)
(* Every entry of the dictionary is kept, and the copies add no account.   *)
(***************************************************************************)
LEMMA MovedAccounts ==
  ASSUME NEW p, NEW r
  PROVE  /\ isolated_creds[p] \subseteq Moved(p, r)
         /\ \A d \in Moved(p, r) : \E e \in isolated_creds[p] : d.acc = e.acc
BY DEF Moved, Cached

-----------------------------------------------------------------------------
LEMMA InitPoolInv == PoolInit => PoolInv
BY PoolAssumption DEF PoolInit, PoolInv, Domains, Placed, NoDirNoLock, Safe

(***************************************************************************)
(* One lemma per action: a step of p keeps the invariant.  What is safe    *)
(* for another process stays so, because no lock it wrote is touched.      *)
(***************************************************************************)
LEMMA setUpClassKeeps ==
  ASSUME PoolInv, NEW p \in Procs, setUpClass(p)
  PROVE  PoolInv'
<1> USE DEF PoolInv, setUpClass
<1>1. Domains'
  BY DEF Domains
<1>2. ASSUME NEW q \in Procs PROVE Placed(q)'
  BY DEF Domains, Placed
<1>3. NoDirNoLock'
  BY DEF NoDirNoLock
<1>4. ASSUME NEW q \in Procs, Safe(q) PROVE Safe(q)'
  BY <1>4 DEF Domains, Placed, Safe, Own, Distinct, Staying
<1> QED
  BY <1>1, <1>2, <1>3, <1>4

LEMMA get_cached_credsKeeps ==
  ASSUME PoolInv, NEW p \in Procs, get_cached_creds(p)
  PROVE  PoolInv'
<1> USE DEF PoolInv, get_cached_creds
<1>1. Domains'
  BY DEF Domains
<1>2. ASSUME NEW q \in Procs PROVE Placed(q)'
  BY DEF Domains, Placed
<1>3. NoDirNoLock'
  BY DEF NoDirNoLock
<1>4. ASSUME NEW q \in Procs, Safe(q) PROVE Safe(q)'
  BY <1>4 DEF Domains, Placed, Safe, Own, Distinct, Staying
<1> QED
  BY <1>1, <1>2, <1>3, <1>4

LEMMA runKeeps ==
  ASSUME PoolInv, NEW p \in Procs, run(p)
  PROVE  PoolInv'
<1> USE DEF PoolInv, run
<1>1. Domains'
  BY DEF Domains
<1>2. ASSUME NEW q \in Procs PROVE Placed(q)'
  BY DEF Domains, Placed
<1>3. NoDirNoLock'
  BY DEF NoDirNoLock
<1>4. ASSUME NEW q \in Procs, Safe(q) PROVE Safe(q)'
  BY <1>4 DEF Domains, Placed, Safe, Own, Distinct, Staying
<1> QED
  BY <1>1, <1>2, <1>3, <1>4

LEMMA tearDownClassKeeps ==
  ASSUME PoolInv, NEW p \in Procs, tearDownClass(p)
  PROVE  PoolInv'
<1> USE DEF PoolInv, tearDownClass
<1>1. Domains'
  BY DEF Domains
<1>2. ASSUME NEW q \in Procs PROVE Placed(q)'
  BY DEF Domains, Placed
<1>3. NoDirNoLock'
  BY DEF NoDirNoLock
<1>4. ASSUME NEW q \in Procs, Safe(q) PROVE Safe(q)'
  BY <1>4 DEF Domains, Placed, Safe, Own, Distinct, Staying
<1> QED
  BY <1>1, <1>2, <1>3, <1>4

LEMMA ClassEndsKeeps ==
  ASSUME PoolInv, NEW p \in Procs, ClassEnds(p)
  PROVE  PoolInv'
<1> USE DEF PoolInv, ClassEnds
<1>1. Domains'
  BY DEF Domains
<1>2. ASSUME NEW q \in Procs PROVE Placed(q)'
  BY DEF Domains, Placed
<1>3. NoDirNoLock'
  BY DEF NoDirNoLock
<1>4. ASSUME NEW q \in Procs, Safe(q) PROVE Safe(q)'
  BY <1>4 DEF Domains, Placed, Safe, Own, Distinct, Staying
<1> QED
  BY <1>1, <1>2, <1>3, <1>4

LEMMA CrashKeeps ==
  ASSUME PoolInv, NEW p \in Procs, Crash(p)
  PROVE  PoolInv'
<1> USE DEF PoolInv, Crash
<1>1. Domains'
  BY DEF Domains
<1>2. ASSUME NEW q \in Procs PROVE Placed(q)'
  BY DEF Domains, Placed
<1>3. NoDirNoLock'
  BY DEF NoDirNoLock
<1>4. ASSUME NEW q \in Procs, Safe(q) PROVE Safe(q)'
  BY <1>4 DEF Domains, Placed, Safe, Own, Distinct, Staying
<1> QED
  BY <1>1, <1>2, <1>3, <1>4

(***************************************************************************)
(* Giving one account back: the entries of p still to come are for other   *)
(* accounts, and those of another process are locked by it.                *)
(***************************************************************************)
LEMMA clear_isolated_credsKeeps ==
  ASSUME PoolInv, NEW p \in Procs, clear_isolated_creds(p)
  PROVE  PoolInv'
<1> USE DEF PoolInv
<1> PICK e \in returning[p] :
        /\ lock' = [lock EXCEPT ![e.acc] = None]
        /\ accounts_dir' = (accounts_dir /\ (lock[e.acc] = None
                                             \/ \E a \in Accounts \ {e.acc} : lock[a] # None))
        /\ returning' = [returning EXCEPT ![p] = @ \ {e}]
  BY DEF clear_isolated_creds
<1>a. /\ pc[p] = "teardown"
      /\ UNCHANGED <<isolated_creds, pc, todo, free_hash, doubled>>
  BY DEF clear_isolated_creds
<1>b. e.acc \in Accounts
  BY DEF Placed
<1>1. Domains'
  BY <1>a DEF Domains
<1>2. ASSUME NEW q \in Procs PROVE Placed(q)'
  <2>1. Placed(q)
    OBVIOUS
  <2> QED
    BY <2>1, <1>a DEF Domains, Placed
<1>3. NoDirNoLock'
  BY <1>b DEF NoDirNoLock, Domains
<1>4. ASSUME \A q \in Procs : Safe(q), NEW q \in Procs PROVE Safe(q)'
  <2>1. Safe(q) /\ Placed(q) /\ lock[e.acc] = p /\ Distinct(returning[p])
    BY <1>4, <1>a DEF Safe, Own
  <2>2. CASE q = p
    BY <2>1, <2>2, <1>a DEF Safe, Own, Distinct, Domains, Placed
  <2>3. CASE q # p
    <3>1. \A a \in Accounts : lock[a] = q => lock'[a] = q
      BY <2>1, <2>3, <1>b DEF Domains
    <3> QED
      BY <2>1, <2>3, <3>1, <1>a DEF Safe, Own, Distinct, Domains, Placed, Staying, Without, DictKey
  <2> QED
    BY <2>2, <2>3
<1> QED
  BY <1>1, <1>2, <1>3, <1>4, <1>a

(***************************************************************************)
(* Taking an account, or raising for want of one.                          *)
(***************************************************************************)
LEMMA _get_credsKeeps ==
  ASSUME PoolInv, NEW p \in Procs, _get_creds(p)
  PROVE  PoolInv'
<1> USE DEF PoolInv
<1> DEFINE r == Head(todo[p])
           dict == Moved(p, r)
<1>a. pc[p] = "setup" /\ Placed(p)
  BY DEF _get_creds
<1>b. \A d \in dict : d.acc \in Accounts
  BY <1>a, MovedAccounts DEF Placed
<1>1. CASE \E a \in _get_free_hash(_get_match_hash_list(r.roles)) :
             /\ lock' = [lock EXCEPT ![a] = p]
             /\ free_hash' = [free_hash EXCEPT ![p] = a]
             /\ accounts_dir' = TRUE
             /\ isolated_creds' = [isolated_creds EXCEPT ![p] = dict]
             /\ pc' = [pc EXCEPT ![p] = "wrap"]
             /\ UNCHANGED <<todo, returning, doubled>>
  <2> PICK a \in _get_free_hash(_get_match_hash_list(r.roles)) :
             /\ lock' = [lock EXCEPT ![a] = p]
             /\ free_hash' = [free_hash EXCEPT ![p] = a]
             /\ accounts_dir' = TRUE
             /\ isolated_creds' = [isolated_creds EXCEPT ![p] = dict]
             /\ pc' = [pc EXCEPT ![p] = "wrap"]
             /\ UNCHANGED <<todo, returning, doubled>>
    BY <1>1
  <2>1. a \in Accounts /\ lock[a] = None
    BY DEF _get_free_hash, _get_match_hash_list, NoDirNoLock
  <2>2. Domains'
    BY <2>1 DEF Domains
  <2>3. ASSUME NEW q \in Procs PROVE Placed(q)'
    <3>1. Placed(q)
      OBVIOUS
    <3>2. CASE q = p
      BY <3>1, <3>2, <1>a, <1>b, <2>1 DEF Domains, Placed
    <3>3. CASE q # p
      BY <3>1, <3>3 DEF Domains, Placed
    <3> QED
      BY <3>2, <3>3
  <2>4. NoDirNoLock'
    BY DEF NoDirNoLock
  <2>5. ASSUME NEW q \in Procs, Safe(q) PROVE Safe(q)'
    <3>0. Placed(q) /\ p # None /\ q # None
      BY PoolAssumption
    <3>1. \A b \in Accounts : lock[b] = q => lock'[b] = q /\ b # a
      BY <2>1, <3>0 DEF Domains
    <3>2. CASE q = p
      <4>1. Own(p, isolated_creds[p]) /\ Distinct(isolated_creds[p])
        BY <2>5, <3>2, <1>a DEF Safe
      <4>2. \A d \in dict : d.acc \in Accounts /\ lock[d.acc] = p
        BY <4>1, <1>b, MovedAccounts DEF Own
      <4>3. Distinct(Without(dict, DictKey(r, 0)))
        BY <4>1, MovedDistinct
      <4>4. isolated_creds'[p] = dict /\ Staying(p)' = Without(dict, DictKey(r, 0))
        BY DEF Domains, Staying, Without, DictKey
      <4>5. pc'[p] = "wrap" /\ free_hash'[p] = a /\ lock'[a] = p
        BY <2>1 DEF Domains
      <4>6. \A e \in Without(dict, DictKey(r, 0)) : e.acc # a
        BY <4>2, <3>1, <3>2 DEF Without
      <4>7. Own(p, isolated_creds[p])'
        BY <4>2, <4>4, <3>1, <3>2 DEF Own
      <4>8. Distinct(Staying(p))'
        BY <4>3, <4>4 DEF Distinct
      <4> QED
        BY <3>2, <4>4, <4>5, <4>6, <4>7, <4>8 DEF Safe
    <3>3. CASE q # p
      BY <2>5, <3>0, <3>1, <3>3 DEF Safe, Own, Distinct, Domains, Placed, Staying, Without, DictKey
    <3> QED
      BY <3>2, <3>3
  <2> QED
    BY <2>2, <2>3, <2>4, <2>5
<1>2. CASE /\ accounts_dir' = (accounts_dir \/ Known(r.roles))
           /\ Raise(p, dict)
           /\ UNCHANGED <<lock, free_hash>>
  <2> USE <1>2 DEF Raise
  <2>1. Domains'
    BY DEF Domains
  <2>2. ASSUME NEW q \in Procs PROVE Placed(q)'
    <3>1. Placed(q)
      OBVIOUS
    <3>2. CASE q = p
      BY <3>1, <3>2, <1>a, <1>b DEF Domains, Placed
    <3>3. CASE q # p
      BY <3>1, <3>3 DEF Domains, Placed
    <3> QED
      BY <3>2, <3>3
  <2>3. NoDirNoLock'
    BY DEF NoDirNoLock
  <2>4. ASSUME ~doubled', NEW q \in Procs, Safe(q) PROVE Safe(q)'
    <3>0. Placed(q)
      OBVIOUS
    <3>1. dict = isolated_creds[p]
      BY <2>4
    <3>2. CASE q = p
      <4>1. pc'[p] = "teardown" /\ returning'[p] = isolated_creds[p]
        BY <3>1 DEF Domains
      <4> QED
        BY <2>4, <3>2, <4>1, <1>a DEF Safe, Own, Distinct
    <3>3. CASE q # p
      BY <2>4, <3>0, <3>3 DEF Safe, Own, Distinct, Domains, Placed, Staying, Without, DictKey
    <3> QED
      BY <3>2, <3>3
  <2> QED
    BY <2>1, <2>2, <2>3, <2>4
<1> QED
  BY <1>1, <1>2 DEF _get_creds

(***************************************************************************)
(* The account enters the dictionary under its key, or is forgotten.       *)
(***************************************************************************)
LEMMA _wrap_creds_with_networkKeeps ==
  ASSUME PoolInv, NEW p \in Procs, _wrap_creds_with_network(p)
  PROVE  PoolInv'
<1> USE DEF PoolInv
<1> DEFINE key == DictKey(Head(todo[p]), 0)
           new == [key |-> key, acc |-> free_hash[p]]
           dict == Staying(p) \cup {new}
<1>a. /\ pc[p] = "wrap" /\ Placed(p) /\ free_hash[p] \in Accounts
      /\ free_hash' = [free_hash EXCEPT ![p] = None]
      /\ UNCHANGED <<accounts_dir, lock>>
  BY DEF _wrap_creds_with_network, Placed
<1>b. Staying(p) \subseteq isolated_creds[p]
  BY DEF Staying, Without
<1>1. CASE /\ isolated_creds' = [isolated_creds EXCEPT ![p] = dict]
           /\ todo' = [todo EXCEPT ![p] = Tail(@)]
           /\ pc' = [pc EXCEPT ![p] = "setup"]
           /\ UNCHANGED <<returning, doubled>>
  <2> USE <1>a, <1>1
  <2>1. Domains'
    BY DEF Domains
  <2>2. ASSUME NEW q \in Procs PROVE Placed(q)'
    <3>1. Placed(q)
      OBVIOUS
    <3>2. CASE q = p
      BY <3>1, <3>2, <1>b DEF Domains, Placed
    <3>3. CASE q # p
      BY <3>1, <3>3 DEF Domains, Placed
    <3> QED
      BY <3>2, <3>3
  <2>3. NoDirNoLock'
    BY DEF NoDirNoLock
  <2>4. ASSUME NEW q \in Procs, Safe(q) PROVE Safe(q)'
    <3>0. Placed(q)
      OBVIOUS
    <3>1. CASE q = p
      <4>1. /\ Own(p, isolated_creds[p]) /\ lock[free_hash[p]] = p
            /\ Distinct(Staying(p)) /\ \A e \in Staying(p) : e.acc # free_hash[p]
        BY <2>4, <3>1 DEF Safe
      <4>2. Own(p, dict) /\ Distinct(dict)
        BY <4>1, <1>b DEF Own, Distinct
      <4>3. isolated_creds'[p] = dict /\ pc'[p] = "setup"
        BY DEF Domains
      <4> QED
        BY <4>2, <4>3, <3>1 DEF Safe, Own, Distinct
    <3>2. CASE q # p
      BY <2>4, <3>0, <3>2 DEF Safe, Own, Distinct, Domains, Placed, Staying, Without, DictKey
    <3> QED
      BY <3>1, <3>2
  <2> QED
    BY <2>1, <2>2, <2>3, <2>4
<1>2. CASE /\ pc' = [pc EXCEPT ![p] = "teardown"]
           /\ returning' = [returning EXCEPT ![p] = isolated_creds[p]]
           /\ doubled' = (doubled \/ Cached(p, Head(todo[p])) # {})
           /\ todo' = [todo EXCEPT ![p] = <<>>]
           /\ UNCHANGED isolated_creds
  <2> USE <1>a, <1>2
  <2>1. Domains'
    BY DEF Domains
  <2>2. ASSUME NEW q \in Procs PROVE Placed(q)'
    <3>1. Placed(q)
      OBVIOUS
    <3> QED
      BY <3>1 DEF Domains, Placed
  <2>3. NoDirNoLock'
    BY DEF NoDirNoLock
  <2>4. ASSUME ~doubled', NEW q \in Procs, Safe(q) PROVE Safe(q)'
    <3>0. Placed(q)
      OBVIOUS
    <3>1. CASE q = p
      <4>1. Own(p, isolated_creds[p]) /\ Distinct(Staying(p))
        BY <2>4, <3>1 DEF Safe
      <4>2. Staying(p) = isolated_creds[p]
        BY <2>4 DEF Staying, Without, Cached
      <4>3. pc'[p] = "teardown" /\ returning'[p] = isolated_creds[p]
        BY DEF Domains
      <4> QED
        BY <3>1, <4>1, <4>2, <4>3 DEF Safe, Own, Distinct
    <3>2. CASE q # p
      BY <2>4, <3>0, <3>2 DEF Safe, Own, Distinct, Domains, Placed, Staying, Without, DictKey
    <3> QED
      BY <3>1, <3>2
  <2> QED
    BY <2>1, <2>2, <2>3, <2>4
<1> QED
  BY <1>1, <1>2 DEF _wrap_creds_with_network, Staying

LEMMA StutterKeeps == PoolInv /\ UNCHANGED poolVars => PoolInv'
BY DEF poolVars, PoolInv, Domains, Placed, NoDirNoLock, Safe, Own, Distinct, Staying, Without, DictKey

LEMMA PoolInvIsInvariant == PoolSpec => []PoolInv
<1>1. PoolInv /\ [PoolNext]_poolVars => PoolInv'
  <2> SUFFICES ASSUME PoolInv, PoolNext PROVE PoolInv'
    BY StutterKeeps
  <2> PICK p \in Procs : setUpClass(p) \/ Work(p) \/ Crash(p)
    BY DEF PoolNext
  <2> QED
    BY setUpClassKeeps, get_cached_credsKeeps, _get_credsKeeps, _wrap_creds_with_networkKeeps,
       runKeeps, tearDownClassKeeps, clear_isolated_credsKeeps, ClassEndsKeeps, CrashKeeps DEF Work
<1> QED
  BY InitPoolInv, <1>1, PTL DEF PoolSpec

(***************************************************************************)
(* An account a test logs in with is locked by its process, as long as no  *)
(* provider has kept one account under two keys (get_creds_by_roles and    *)
(* clear_isolated_creds).                                                  *)
(***************************************************************************)
THEOREM LockedWhileUsedHolds == PoolSpec => []LockedWhileUsed
<1>1. ASSUME PoolInv PROVE LockedWhileUsed
  <2> SUFFICES ASSUME ~doubled, NEW p \in Procs, NEW a \in Using(p)
               PROVE  lock[a] = p
    BY DEF LockedWhileUsed
  <2>1. Safe(p) /\ Placed(p) /\ pc[p] \in {"setup", "wrap", "running"}
    BY <1>1 DEF PoolInv, Using
  <2>2. CASE a \in {e.acc : e \in isolated_creds[p]}
    BY <2>1, <2>2 DEF Safe, Own
  <2>3. CASE a \in Accounts /\ free_hash[p] = a
    BY <2>1, <2>3, PoolAssumption DEF Safe, Placed
  <2> QED
    BY <2>1, <2>2, <2>3 DEF Using, Holds
<1> QED
  BY <1>1, PoolInvIsInvariant, PTL

-----------------------------------------------------------------------------
(***************************************************************************)
(* Locks and accounts.  A set moved to a new index keeps its account: the  *)
(* index is the size of the dictionary, so it is not the first one.        *)
(***************************************************************************)
Finite   == \A p \in Procs : IsFiniteSet(isolated_creds[p])
NoneLost == \A p \in Procs : pc[p] = "wrap" =>
              \A e \in isolated_creds[p] : \E d \in Staying(p) : d.acc = e.acc

AccountInv == PoolInv /\ Finite /\ NoneLost /\ LocksAccounted

LEMMA MovedFinite ==
  ASSUME NEW p, NEW r, IsFiniteSet(isolated_creds[p])
  PROVE  IsFiniteSet(Moved(p, r))
<1> DEFINE n == Cardinality(isolated_creds[p])
           copy == [e \in Cached(p, r) |-> [key |-> DictKey(r, n), acc |-> e.acc]]
           C == {[key |-> DictKey(r, n), acc |-> e.acc] : e \in Cached(p, r)}
<1>1. IsFiniteSet(Cached(p, r))
  BY FS_Subset DEF Cached
<1>2. copy \in Surjection(Cached(p, r), C)
  BY DEF Surjection
<1>3. IsFiniteSet(C)
  BY <1>1, <1>2, FS_Surjection
<1> QED
  BY <1>3, FS_Union DEF Moved

LEMMA MovedKeepsAccounts ==
  ASSUME NEW p, NEW r, IsFiniteSet(isolated_creds[p])
  PROVE  \A e \in Moved(p, r) : \E d \in Without(Moved(p, r), DictKey(r, 0)) : d.acc = e.acc
<1> DEFINE n == Cardinality(isolated_creds[p])
<1> SUFFICES ASSUME NEW e \in Moved(p, r)
             PROVE  \E d \in Without(Moved(p, r), DictKey(r, 0)) : d.acc = e.acc
  OBVIOUS
<1>1. PICK f \in isolated_creds[p] : f.acc = e.acc
  BY MovedAccounts
<1>2. CASE f.key # DictKey(r, 0)
  BY <1>1, <1>2 DEF Moved, Without
<1>3. CASE f.key = DictKey(r, 0)
  <2> DEFINE d == [key |-> DictKey(r, n), acc |-> f.acc]
  <2>1. d \in Moved(p, r)
    BY <1>3 DEF Moved, Cached
  <2>2. n # 0
    BY <1>1, FS_EmptySet
  <2>3. d.key # DictKey(r, 0)
    BY <2>2 DEF DictKey
  <2> QED
    BY <1>1, <2>1, <2>3 DEF Without
<1> QED
  BY <1>2, <1>3

LEMMA InitAccountInv == PoolInit => AccountInv
BY InitPoolInv, FS_EmptySet DEF PoolInit, AccountInv, Finite, NoneLost, LocksAccounted

LEMMA setUpClassAccounts ==
  ASSUME AccountInv, NEW p \in Procs, setUpClass(p)
  PROVE  (Finite /\ NoneLost /\ LocksAccounted)'
<1> USE DEF AccountInv, PoolInv, setUpClass
<1>1. Finite'
  BY FS_EmptySet DEF Finite, Domains
<1>2. NoneLost'
  BY DEF NoneLost, Staying, Domains, Without, DictKey
<1>3. LocksAccounted'
  <2> SUFFICES ASSUME NEW a \in Accounts, lock'[a] # None, a \notin leaked'
               PROVE  a \in Kept(lock[a])'
    BY DEF LocksAccounted, Domains
  <2> DEFINE q == lock[a]
  <2>1. q \in Procs /\ Placed(q) /\ Placed(p)
    BY DEF Domains
  <2>2. a \in Kept(q)
    BY DEF LocksAccounted
  <2> QED
    BY <2>1, <2>2, PoolAssumption DEF Kept, Holds, Placed, Domains
<1> QED
  BY <1>1, <1>2, <1>3

LEMMA get_cached_credsAccounts ==
  ASSUME AccountInv, NEW p \in Procs, get_cached_creds(p)
  PROVE  (Finite /\ NoneLost /\ LocksAccounted)'
<1> USE DEF AccountInv, PoolInv, get_cached_creds
<1>1. Finite'
  BY FS_EmptySet DEF Finite, Domains
<1>2. NoneLost'
  BY DEF NoneLost, Staying, Domains, Without, DictKey
<1>3. LocksAccounted'
  <2> SUFFICES ASSUME NEW a \in Accounts, lock'[a] # None, a \notin leaked'
               PROVE  a \in Kept(lock[a])'
    BY DEF LocksAccounted, Domains
  <2> DEFINE q == lock[a]
  <2>1. q \in Procs /\ Placed(q) /\ Placed(p)
    BY DEF Domains
  <2>2. a \in Kept(q)
    BY DEF LocksAccounted
  <2> QED
    BY <2>1, <2>2, PoolAssumption DEF Kept, Holds, Placed, Domains
<1> QED
  BY <1>1, <1>2, <1>3

LEMMA runAccounts ==
  ASSUME AccountInv, NEW p \in Procs, run(p)
  PROVE  (Finite /\ NoneLost /\ LocksAccounted)'
<1> USE DEF AccountInv, PoolInv, run
<1>1. Finite'
  BY FS_EmptySet DEF Finite, Domains
<1>2. NoneLost'
  BY DEF NoneLost, Staying, Domains, Without, DictKey
<1>3. LocksAccounted'
  <2> SUFFICES ASSUME NEW a \in Accounts, lock'[a] # None, a \notin leaked'
               PROVE  a \in Kept(lock[a])'
    BY DEF LocksAccounted, Domains
  <2> DEFINE q == lock[a]
  <2>1. q \in Procs /\ Placed(q) /\ Placed(p)
    BY DEF Domains
  <2>2. a \in Kept(q)
    BY DEF LocksAccounted
  <2> QED
    BY <2>1, <2>2, PoolAssumption DEF Kept, Holds, Placed, Domains
<1> QED
  BY <1>1, <1>2, <1>3

LEMMA tearDownClassAccounts ==
  ASSUME AccountInv, NEW p \in Procs, tearDownClass(p)
  PROVE  (Finite /\ NoneLost /\ LocksAccounted)'
<1> USE DEF AccountInv, PoolInv, tearDownClass
<1>1. Finite'
  BY FS_EmptySet DEF Finite, Domains
<1>2. NoneLost'
  BY DEF NoneLost, Staying, Domains, Without, DictKey
<1>3. LocksAccounted'
  <2> SUFFICES ASSUME NEW a \in Accounts, lock'[a] # None, a \notin leaked'
               PROVE  a \in Kept(lock[a])'
    BY DEF LocksAccounted, Domains
  <2> DEFINE q == lock[a]
  <2>1. q \in Procs /\ Placed(q) /\ Placed(p)
    BY DEF Domains
  <2>2. a \in Kept(q)
    BY DEF LocksAccounted
  <2> QED
    BY <2>1, <2>2, PoolAssumption DEF Kept, Holds, Placed, Domains
<1> QED
  BY <1>1, <1>2, <1>3

LEMMA ClassEndsAccounts ==
  ASSUME AccountInv, NEW p \in Procs, ClassEnds(p)
  PROVE  (Finite /\ NoneLost /\ LocksAccounted)'
<1> USE DEF AccountInv, PoolInv, ClassEnds
<1>1. Finite'
  BY FS_EmptySet DEF Finite, Domains
<1>2. NoneLost'
  BY DEF NoneLost, Staying, Domains, Without, DictKey
<1>3. LocksAccounted'
  <2> SUFFICES ASSUME NEW a \in Accounts, lock'[a] # None, a \notin leaked'
               PROVE  a \in Kept(lock[a])'
    BY DEF LocksAccounted, Domains
  <2> DEFINE q == lock[a]
  <2>1. q \in Procs /\ Placed(q) /\ Placed(p)
    BY DEF Domains
  <2>2. a \in Kept(q)
    BY DEF LocksAccounted
  <2> QED
    BY <2>1, <2>2, PoolAssumption DEF Kept, Holds, Placed, Domains
<1> QED
  BY <1>1, <1>2, <1>3

LEMMA CrashAccounts ==
  ASSUME AccountInv, NEW p \in Procs, Crash(p)
  PROVE  (Finite /\ NoneLost /\ LocksAccounted)'
<1> USE DEF AccountInv, PoolInv, Crash
<1>1. Finite'
  BY FS_EmptySet DEF Finite, Domains
<1>2. NoneLost'
  BY DEF NoneLost, Staying, Domains, Without, DictKey
<1>3. LocksAccounted'
  <2> SUFFICES ASSUME NEW a \in Accounts, lock'[a] # None, a \notin leaked'
               PROVE  a \in Kept(lock[a])'
    BY DEF LocksAccounted, Domains
  <2> DEFINE q == lock[a]
  <2>1. q \in Procs /\ Placed(q) /\ Placed(p)
    BY DEF Domains
  <2>2. a \in Kept(q)
    BY DEF LocksAccounted
  <2> QED
    BY <2>1, <2>2, PoolAssumption DEF Kept, Holds, Placed, Domains
<1> QED
  BY <1>1, <1>2, <1>3

LEMMA clear_isolated_credsAccounts ==
  ASSUME AccountInv, NEW p \in Procs, clear_isolated_creds(p)
  PROVE  (Finite /\ NoneLost /\ LocksAccounted)'
<1> USE DEF AccountInv, PoolInv
<1> PICK e \in returning[p] : /\ lock' = [lock EXCEPT ![e.acc] = None]
                              /\ returning' = [returning EXCEPT ![p] = @ \ {e}]
                              /\ leaked' = leaked \ {e.acc}
  BY DEF clear_isolated_creds
<1>a. pc[p] = "teardown" /\ UNCHANGED <<isolated_creds, pc, todo, free_hash>>
  BY DEF clear_isolated_creds
<1>1. Finite'
  BY <1>a DEF Finite
<1>2. NoneLost'
  BY <1>a DEF NoneLost, Staying, Without, DictKey
<1>3. LocksAccounted'
  <2> SUFFICES ASSUME NEW a \in Accounts, lock'[a] # None, a \notin leaked'
               PROVE  a \in Kept(lock[a])'
    BY DEF LocksAccounted
  <2> DEFINE q == lock[a]
  <2>1. a # e.acc /\ lock'[a] = q /\ q # None /\ a \notin leaked
    BY DEF Domains
  <2>2. a \in Kept(q) /\ q \in Procs
    BY <2>1 DEF LocksAccounted, Domains
  <2>3. CASE pc[q] = "teardown"
    <3>1. PICK d \in returning[q] : d.acc = a
      BY <2>2, <2>3 DEF Kept
    <3>2. d \in returning'[q]
      BY <3>1, <2>1, <2>2 DEF Domains
    <3> QED
      BY <3>1, <3>2, <2>1, <2>3, <1>a DEF Kept
  <2>4. CASE pc[q] # "teardown"
    BY <2>1, <2>2, <2>4, <1>a DEF Kept, Holds
  <2> QED
    BY <2>3, <2>4
<1> QED
  BY <1>1, <1>2, <1>3

LEMMA _get_credsAccounts ==
  ASSUME AccountInv, NEW p \in Procs, _get_creds(p)
  PROVE  (Finite /\ NoneLost /\ LocksAccounted)'
<1> USE DEF AccountInv, PoolInv
<1> DEFINE r == Head(todo[p])
           dict == Moved(p, r)
<1>a. pc[p] = "setup" /\ leaked' = leaked /\ IsFiniteSet(dict) /\ isolated_creds[p] \subseteq dict
  BY MovedFinite, MovedAccounts DEF _get_creds, Finite
<1>b. DOMAIN isolated_creds = Procs /\ DOMAIN pc = Procs /\ free_hash[p] = None
  BY <1>a DEF Domains, Placed
<1>1. /\ isolated_creds' = [isolated_creds EXCEPT ![p] = dict]
      /\ \/ \E a \in Accounts : /\ lock' = [lock EXCEPT ![a] = p]
                                 /\ free_hash' = [free_hash EXCEPT ![p] = a]
                                 /\ pc' = [pc EXCEPT ![p] = "wrap"]
                                 /\ UNCHANGED <<todo, returning>>
         \/ /\ pc' = [pc EXCEPT ![p] = "teardown"]
            /\ returning' = [returning EXCEPT ![p] = dict]
            /\ UNCHANGED <<lock, free_hash>>
            /\ todo' = [todo EXCEPT ![p] = <<>>]
  BY DEF _get_creds, Raise, _get_free_hash, _get_match_hash_list
<1>2. Finite'
  BY <1>1, <1>a, <1>b DEF Finite
<1>3. NoneLost'
  <2> SUFFICES ASSUME NEW q \in Procs, pc'[q] = "wrap", NEW e \in isolated_creds'[q]
               PROVE  \E d \in Staying(q)' : d.acc = e.acc
    BY DEF NoneLost
  <2>1. CASE q = p
    <3>1. todo' = todo /\ isolated_creds'[p] = dict
      BY <1>1, <1>b, <2>1
    <3>2. Staying(p)' = Without(dict, DictKey(r, 0))
      BY <3>1 DEF Staying, Without, DictKey
    <3> QED
      BY <2>1, <3>1, <3>2, MovedKeepsAccounts DEF Finite
  <2>2. CASE q # p
    <3>1. pc[q] = "wrap" /\ isolated_creds'[q] = isolated_creds[q] /\ todo'[q] = todo[q]
      BY <1>1, <1>b, <2>2 DEF Domains
    <3>2. Staying(q)' = Staying(q)
      BY <3>1 DEF Staying, Without, DictKey
    <3> QED
      BY <3>1, <3>2 DEF NoneLost
  <2> QED
    BY <2>1, <2>2
<1>4. LocksAccounted'
  <2> SUFFICES ASSUME NEW b \in Accounts, lock'[b] # None, b \notin leaked'
               PROVE  b \in Kept(lock[b])'
    BY DEF LocksAccounted
  <2> DEFINE q == lock'[b]
  <2>1. CASE q = p /\ lock[b] # p
    BY <1>1, <2>1 DEF Kept, Holds, Domains
  <2>2. CASE q = p /\ lock[b] = p
    <3>1. b \in Holds(p)
      BY <2>2, <1>a DEF LocksAccounted, Kept
    <3>2. \E e \in isolated_creds[p] : b = e.acc
      BY <3>1, <1>b, PoolAssumption DEF Holds
    <3>3. \E e \in dict : b = e.acc
      BY <3>2, <1>a
    <3> QED
      BY <1>1, <2>2, <3>3 DEF Kept, Holds, Domains
  <2>3. CASE q # p
    <3>1. lock[b] = q /\ q \in Procs
      BY <1>1, <2>3 DEF Domains
    <3>2. b \in Kept(q)
      BY <3>1, <1>a DEF LocksAccounted
    <3>3. /\ pc'[q] = pc[q] /\ isolated_creds'[q] = isolated_creds[q]
          /\ free_hash'[q] = free_hash[q] /\ returning'[q] = returning[q]
      BY <1>1, <2>3, <3>1 DEF Domains, _get_creds
    <3> QED
      BY <3>1, <3>2, <3>3 DEF Kept, Holds
  <2> QED
    BY <2>1, <2>2, <2>3
<1> QED
  BY <1>2, <1>3, <1>4

LEMMA _wrap_creds_with_networkAccounts ==
  ASSUME AccountInv, NEW p \in Procs, _wrap_creds_with_network(p)
  PROVE  (Finite /\ NoneLost /\ LocksAccounted)'
<1> USE DEF AccountInv, PoolInv
<1> DEFINE new == [key |-> DictKey(Head(todo[p]), 0), acc |-> free_hash[p]]
<1>a. /\ pc[p] = "wrap" /\ UNCHANGED lock
      /\ free_hash' = [free_hash EXCEPT ![p] = None] /\ free_hash[p] \in Accounts
  BY DEF _wrap_creds_with_network, Placed
<1>1. \/ /\ isolated_creds' = [isolated_creds EXCEPT ![p] = Staying(p) \cup {new}]
         /\ pc' = [pc EXCEPT ![p] = "setup"]
         /\ todo' = [todo EXCEPT ![p] = Tail(@)]
         /\ UNCHANGED <<returning, leaked>>
      \/ /\ leaked' = leaked \cup {free_hash[p]}
         /\ pc' = [pc EXCEPT ![p] = "teardown"]
         /\ returning' = [returning EXCEPT ![p] = isolated_creds[p]]
         /\ todo' = [todo EXCEPT ![p] = <<>>]
         /\ UNCHANGED isolated_creds
  BY DEF _wrap_creds_with_network, Staying
<1>2. Finite'
  <2>1. IsFiniteSet(Staying(p) \cup {new})
    BY FS_Subset, FS_AddElement DEF Finite, Staying, Without
  <2> QED
    BY <1>1, <2>1 DEF Finite, Domains
<1>3. NoneLost'
  <2> SUFFICES ASSUME NEW q \in Procs, pc'[q] = "wrap", NEW e \in isolated_creds'[q]
               PROVE  \E d \in Staying(q)' : d.acc = e.acc
    BY DEF NoneLost
  <2>1. /\ q # p /\ pc[q] = "wrap" /\ isolated_creds'[q] = isolated_creds[q]
        /\ todo'[q] = todo[q]
    BY <1>1 DEF Domains
  <2>2. Staying(q)' = Staying(q)
    BY <2>1 DEF Staying, Without, DictKey
  <2> QED
    BY <2>1, <2>2 DEF NoneLost
<1>4. LocksAccounted'
  <2> SUFFICES ASSUME NEW b \in Accounts, lock[b] # None, b \notin leaked'
               PROVE  b \in Kept(lock[b])'
    BY <1>a DEF LocksAccounted
  <2> DEFINE q == lock[b]
  <2>1. b \in Kept(q) /\ q \in Procs
    <3>1. b \notin leaked
      BY <1>1
    <3> QED
      BY <3>1 DEF LocksAccounted, Domains
  <2>2. CASE q # p
    <3>1. /\ pc'[q] = pc[q] /\ isolated_creds'[q] = isolated_creds[q]
          /\ free_hash'[q] = free_hash[q] /\ returning'[q] = returning[q]
      BY <1>1, <1>a, <2>1, <2>2 DEF Domains
    <3> QED
      BY <1>a, <2>1, <3>1 DEF Kept, Holds
  <2>3. CASE q = p
    <3>1. b = free_hash[p] \/ \E e \in isolated_creds[p] : b = e.acc
      BY <2>1, <2>3, <1>a DEF Kept, Holds
    <3>2. CASE /\ isolated_creds' = [isolated_creds EXCEPT ![p] = Staying(p) \cup {new}]
               /\ pc' = [pc EXCEPT ![p] = "setup"]
      <4>1. \E e \in Staying(p) \cup {new} : b = e.acc
        <5>1. \A e \in isolated_creds[p] : \E d \in Staying(p) : d.acc = e.acc
          BY <1>a DEF NoneLost
        <5>2. new \in Staying(p) \cup {new} /\ new.acc = free_hash[p]
          OBVIOUS
        <5> QED
          BY <3>1, <5>1, <5>2
      <4> QED
        BY <1>a, <2>3, <3>2, <4>1 DEF Kept, Holds, Domains
    <3>3. CASE /\ leaked' = leaked \cup {free_hash[p]}
               /\ pc' = [pc EXCEPT ![p] = "teardown"]
               /\ returning' = [returning EXCEPT ![p] = isolated_creds[p]]
      BY <1>a, <2>3, <3>1, <3>3 DEF Kept, Domains
    <3> QED
      BY <1>1, <3>2, <3>3
  <2> QED
    BY <2>2, <2>3
<1> QED
  BY <1>2, <1>3, <1>4

(***************************************************************************)
(* A lock file is somebody's: whatever fails and whoever is killed, its    *)
(* writer has the account in its dictionary, or will give it back, or it   *)
(* is one of the accounts known to be lost (clear_isolated_creds, _get_creds  *)
(* and the exception between locking and recording).                       *)
(***************************************************************************)
THEOREM LocksAccountedHolds == PoolSpec => []LocksAccounted
<1>1. AccountInv /\ [PoolNext]_poolVars => AccountInv'
  <2> SUFFICES ASSUME AccountInv, [PoolNext]_poolVars
               PROVE  (Finite /\ NoneLost /\ LocksAccounted)' /\ PoolInv'
    BY DEF AccountInv
  <2>1. CASE UNCHANGED poolVars
    BY <2>1, StutterKeeps DEF poolVars, AccountInv, Finite, NoneLost, LocksAccounted, Kept, Holds,
                              Staying, Without, DictKey
  <2>2. CASE PoolNext
    <3> PICK p \in Procs : setUpClass(p) \/ Work(p) \/ Crash(p)
      BY <2>2 DEF PoolNext
    <3>1. PoolInv'
      BY setUpClassKeeps, get_cached_credsKeeps, _get_credsKeeps, _wrap_creds_with_networkKeeps,
         runKeeps, tearDownClassKeeps, clear_isolated_credsKeeps, ClassEndsKeeps, CrashKeeps
         DEF Work, AccountInv
    <3>2. (Finite /\ NoneLost /\ LocksAccounted)'
      BY setUpClassAccounts, get_cached_credsAccounts, _get_credsAccounts,
         _wrap_creds_with_networkAccounts, runAccounts, tearDownClassAccounts,
         clear_isolated_credsAccounts, ClassEndsAccounts, CrashAccounts DEF Work
    <3> QED
      BY <3>1, <3>2
  <2> QED
    BY <2>1, <2>2
<1>2. AccountInv => LocksAccounted
  BY DEF AccountInv
<1> QED
  BY InitAccountInv, <1>1, <1>2, PTL DEF PoolSpec

=============================================================================
