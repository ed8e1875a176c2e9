----------------------------- MODULE AccountPool -----------------------------
(***************************************************************************)
(* The pool of accounts made in advance for the system tests (class        *)
(* Accounts of automation/common/accounts.py).  Every test process works   *)
(* on one test class at a time; setUpClass asks the provider of the class  *)
(* for one set of credentials after the other, tearDownClass gives them    *)
(* back.  An account is taken by creating a lock file for it in            *)
(* accounts_dir; the look into the directory and the creation are one step *)
(* under the external lock "test_accounts_io", everything else runs        *)
(* freely interleaved.                                                     *)
(*                                                                         *)
(* An account stands for the md5 key of its entry.  Passwords, tenants and *)
(* log lines are left out, and so are accounts that share all attributes.  *)
(***************************************************************************)
EXTENDS Naturals, Sequences, FiniteSets

CONSTANTS
  Procs,         \* test processes
  Accounts,      \* entries of the accounts file
  Roles,         \* role names
  admin_role,    \* CONF.identity.admin_role
  AccountsFile,  \* [Accounts -> [roles : SUBSET Roles, types : SUBSET Types]]
  RoleOfType,    \* the role a type stands for in the configuration
  Lists,         \* the `credentials' lists of the test classes
  None,          \* no lock file, no account
  MaxClasses,    \* bound: classes set up, over all processes
  MaxFaults,     \* bound: failing cloud calls
  MaxCrashes     \* bound: processes killed

Request == [type : {"primary", "alt", "roles"}, roles : SUBSET Roles, force : BOOLEAN]
Key     == [type : {"primary", "alt", "roles"}, roles : SUBSET Roles, n : Nat]
Entry   == [key : Key, acc : Accounts]

ASSUME PoolAssumption ==
  /\ admin_role \in Roles
  /\ AccountsFile \in [Accounts -> [roles : SUBSET Roles, types : SUBSET DOMAIN RoleOfType]]
  /\ \A t \in DOMAIN RoleOfType : RoleOfType[t] \in Roles
  /\ \A list \in Lists : list \in Seq(Request)
  /\ None \notin Procs /\ None \notin Accounts
  /\ MaxClasses \in Nat /\ MaxFaults \in Nat /\ MaxCrashes \in Nat

VARIABLES
  accounts_dir,    \* the directory of the lock files exists
  lock,            \* the process that wrote an account's lock file, or None
  isolated_creds,  \* the dictionary of each process' provider, as a set of entries
  pc,              \* where setUpClass and tearDownClass are
  todo,            \* requests of the class still to be made
  free_hash,       \* account locked but not yet in the dictionary
  returning,       \* entries clear_isolated_creds has not reached
  leaked,          \* history: locked accounts no process will give back
  doubled,         \* history: a dictionary kept one account under two keys
  classes, faults, crashes

poolVars == <<accounts_dir, lock, isolated_creds, pc, todo, free_hash, returning,
              leaked, doubled, classes, faults, crashes>>

(***************************************************************************)
(* get_hash_dict: the roles of an account, named or implied by a type.     *)
(***************************************************************************)
hash_dict(a) == AccountsFile[a].roles \cup {RoleOfType[t] : t \in AccountsFile[a].types}

Known(roles) == \A r \in roles : \E a \in Accounts : r \in hash_dict(a)

(***************************************************************************)
(* The accounts with all the roles; administrators only when asked for.    *)
(***************************************************************************)
_get_match_hash_list(roles) ==
  {a \in Accounts : /\ roles \subseteq hash_dict(a)
                    /\ admin_role \in roles \/ admin_role \notin hash_dict(a)}

(***************************************************************************)
(* The accounts _get_free_hash may return.  The order of the candidates is *)
(* that of a set or dictionary, so any of them may be the first.           *)
(***************************************************************************)
_get_free_hash_whoever_has_it(hashes) == hashes
_get_free_hash(hashes) ==
  IF accounts_dir THEN {a \in hashes : lock[a] = None} ELSE hashes

DictKey(r, n)    == [type |-> r.type, roles |-> r.roles, n |-> n]
Cached(p, r)     == {e \in isolated_creds[p] : e.key = DictKey(r, 0)}
Without(dict, k) == {e \in dict : e.key # k}

(***************************************************************************)
(* get_creds_by_roles with force_new stores the old set under a new index  *)
(* first; the entry under the old index stays until it is overwritten.     *)
(***************************************************************************)
Moved_forgets_the_old_set(p, r) == Without(isolated_creds[p], DictKey(r, 0))
Moved(p, r) ==
  isolated_creds[p] \cup {[key |-> DictKey(r, Cardinality(isolated_creds[p])), acc |-> e.acc] :
                             e \in Cached(p, r)}

PoolInit ==
  /\ accounts_dir = FALSE
  /\ lock = [a \in Accounts |-> None]
  /\ isolated_creds = [p \in Procs |-> {}]
  /\ pc = [p \in Procs |-> "idle"]
  /\ todo = [p \in Procs |-> <<>>]
  /\ free_hash = [p \in Procs |-> None]
  /\ returning = [p \in Procs |-> {}]
  /\ leaked = {} /\ doubled = FALSE
  /\ classes = 0 /\ faults = 0 /\ crashes = 0

(***************************************************************************)
(* setUpClass of the next class, with a provider of its own.  skip_checks  *)
(* has asked is_admin_available and is_alt_available.                      *)
(***************************************************************************)
admin_available == Known({admin_role})
is_multi_user   == Cardinality(Accounts) > 1

skip_checks(list) ==
  \A i \in DOMAIN list : /\ list[i].type = "roles" /\ list[i].roles = {admin_role} => admin_available
                         /\ list[i].type = "alt" => is_multi_user

setUpClass(p) ==
  /\ pc[p] = "idle" /\ classes < MaxClasses
  /\ \E list \in Lists : skip_checks(list) /\ todo' = [todo EXCEPT ![p] = list]
  /\ pc' = [pc EXCEPT ![p] = "setup"]
  /\ classes' = classes + 1
  /\ UNCHANGED <<accounts_dir, lock, isolated_creds, free_hash, returning,
                 leaked, doubled, faults, crashes>>

(***************************************************************************)
(* An exception in setUpClass, with dict in the provider: tearDownClass    *)
(* pops the teardown that setUpClass has pushed before it began.           *)
(***************************************************************************)
Raise(p, dict) ==
  /\ pc' = [pc EXCEPT ![p] = "teardown"]
  /\ isolated_creds' = [isolated_creds EXCEPT ![p] = dict]
  /\ returning' = [returning EXCEPT ![p] = dict]
  /\ doubled' = (doubled \/ dict # isolated_creds[p])
  /\ todo' = [todo EXCEPT ![p] = <<>>]

(***************************************************************************)
(* get_primary_creds, get_alt_creds, get_admin_creds, get_creds_by_roles:  *)
(* a set the dictionary already has is returned again ...                  *)
(***************************************************************************)
get_cached_creds(p) ==
  /\ pc[p] = "setup" /\ todo[p] # <<>>
  /\ ~Head(todo[p]).force /\ Cached(p, Head(todo[p])) # {}
  /\ todo' = [todo EXCEPT ![p] = Tail(@)]
  /\ UNCHANGED <<accounts_dir, lock, isolated_creds, pc, free_hash, returning,
                 leaked, doubled, classes, faults, crashes>>

(***************************************************************************)
(* ... otherwise _get_creds locks one of the matching accounts, or raises  *)
(* InvalidConfiguration.  With the directory missing it is made first, also *)
(* when there is no candidate (hashes[0] then raises).                     *)
(***************************************************************************)
_get_creds(p) ==
  /\ pc[p] = "setup" /\ todo[p] # <<>>
  /\ LET r    == Head(todo[p])
         free == _get_free_hash(_get_match_hash_list(r.roles))
     IN /\ r.force \/ Cached(p, r) = {}
        /\ \/ /\ Known(r.roles)
              /\ \E a \in free :
                   /\ lock' = [lock EXCEPT ![a] = p]
                   /\ free_hash' = [free_hash EXCEPT ![p] = a]
              /\ accounts_dir' = TRUE
              /\ isolated_creds' = [isolated_creds EXCEPT ![p] = Moved(p, r)]
              /\ pc' = [pc EXCEPT ![p] = "wrap"]
              /\ UNCHANGED <<todo, returning, doubled>>
           \/ /\ Known(r.roles) => free = {}
              /\ accounts_dir' = (accounts_dir \/ Known(r.roles))
              /\ Raise(p, Moved(p, r))
              /\ UNCHANGED <<lock, free_hash>>
  /\ UNCHANGED <<leaked, classes, faults, crashes>>

(***************************************************************************)
(* _wrap_creds_with_network asks identity and compute about the account.   *)
(* Only when that has worked does the account enter the dictionary; when   *)
(* it raises, clear_isolated_creds will not know of the lock.              *)
(***************************************************************************)
_wrap_creds_with_network(p) ==
  /\ pc[p] = "wrap"
  /\ free_hash' = [free_hash EXCEPT ![p] = None]
  /\ LET key == DictKey(Head(todo[p]), 0)
     IN \/ /\ isolated_creds' = [isolated_creds EXCEPT ![p] =
                 Without(@, key) \cup {[key |-> key, acc |-> free_hash[p]]}]
           /\ todo' = [todo EXCEPT ![p] = Tail(@)]
           /\ pc' = [pc EXCEPT ![p] = "setup"]
           /\ UNCHANGED <<returning, leaked, doubled, faults>>
        \/ /\ faults < MaxFaults
           /\ faults' = faults + 1
           /\ leaked' = leaked \cup {free_hash[p]}
           /\ pc' = [pc EXCEPT ![p] = "teardown"]
           /\ returning' = [returning EXCEPT ![p] = isolated_creds[p]]
           /\ doubled' = (doubled \/ Cached(p, Head(todo[p])) # {})
           /\ todo' = [todo EXCEPT ![p] = <<>>]
           /\ UNCHANGED isolated_creds
  /\ UNCHANGED <<accounts_dir, lock, classes, crashes>>

(***************************************************************************)
(* The class has its credentials and its tests run.                        *)
(***************************************************************************)
run(p) ==
  /\ pc[p] = "setup" /\ todo[p] = <<>>
  /\ pc' = [pc EXCEPT ![p] = "running"]
  /\ UNCHANGED <<accounts_dir, lock, isolated_creds, todo, free_hash, returning,
                 leaked, doubled, classes, faults, crashes>>

tearDownClass(p) ==
  /\ pc[p] = "running"
  /\ pc' = [pc EXCEPT ![p] = "teardown"]
  /\ returning' = [returning EXCEPT ![p] = isolated_creds[p]]
  /\ UNCHANGED <<accounts_dir, lock, isolated_creds, todo, free_hash,
                 leaked, doubled, classes, faults, crashes>>

(***************************************************************************)
(* One round of the loop of clear_isolated_creds: remove_credentials and   *)
(* remove_hash, under the external lock.  Whoever wrote the file, it goes. *)
(***************************************************************************)
clear_isolated_creds(p) ==
  /\ pc[p] = "teardown"
  /\ \E e \in returning[p] :
       /\ lock' = [lock EXCEPT ![e.acc] = None]
       /\ accounts_dir' = (accounts_dir /\ (lock[e.acc] = None
                                            \/ \E a \in Accounts \ {e.acc} : lock[a] # None))
       /\ returning' = [returning EXCEPT ![p] = @ \ {e}]
       /\ leaked' = leaked \ {e.acc}
  /\ UNCHANGED <<isolated_creds, pc, todo, free_hash, doubled, classes, faults, crashes>>

ClassEnds(p) ==
  /\ pc[p] = "teardown" /\ returning[p] = {}
  /\ pc' = [pc EXCEPT ![p] = "idle"]
  /\ isolated_creds' = [isolated_creds EXCEPT ![p] = {}]
  /\ UNCHANGED <<accounts_dir, lock, todo, free_hash, returning,
                 leaked, doubled, classes, faults, crashes>>

(***************************************************************************)
(* The process is killed; its lock files stay.                             *)
(***************************************************************************)
Holds(p) == {e.acc : e \in isolated_creds[p]} \cup {a \in Accounts : free_hash[p] = a}

Crash(p) ==
  /\ pc[p] # "idle" /\ crashes < MaxCrashes
  /\ crashes' = crashes + 1
  /\ leaked' = leaked \cup {a \in Accounts : lock[a] = p}
  /\ pc' = [pc EXCEPT ![p] = "idle"]
  /\ isolated_creds' = [isolated_creds EXCEPT ![p] = {}]
  /\ todo' = [todo EXCEPT ![p] = <<>>]
  /\ free_hash' = [free_hash EXCEPT ![p] = None]
  /\ returning' = [returning EXCEPT ![p] = {}]
  /\ UNCHANGED <<accounts_dir, lock, doubled, classes, faults>>

Work(p) ==
  \/ get_cached_creds(p) \/ _get_creds(p) \/ _wrap_creds_with_network(p)
  \/ run(p) \/ tearDownClass(p) \/ clear_isolated_creds(p) \/ ClassEnds(p)

PoolNext == \E p \in Procs : setUpClass(p) \/ Work(p) \/ Crash(p)

PoolSpec == PoolInit /\ [][PoolNext]_poolVars

-----------------------------------------------------------------------------
(***************************************************************************)
(* The accounts a process may log in with.                                 *)
(***************************************************************************)
Using(p) == IF pc[p] \in {"setup", "wrap", "running"} THEN Holds(p) ELSE {}

(***************************************************************************)
(* What the locking is for: no account is in the hands of two processes.   *)
(***************************************************************************)
Exclusive == \A p, q \in Procs : p # q => Using(p) \cap Using(q) = {}

(***************************************************************************)
(* It holds as long as no dictionary kept one account under two keys: the  *)
(* lock file of an account in use is there and was written by its user.    *)
(* get_creds_by_roles copies the old entry before it asks for another      *)
(* account; when that raises, clear_isolated_creds gives the old account   *)
(* back twice, and the second time it may be somebody else's lock.         *)
(***************************************************************************)
LockedWhileUsed == doubled \/ \A p \in Procs : \A a \in Using(p) : lock[a] = p

(***************************************************************************)
(* Every lock file can be accounted for: its writer still has the account, *)
(* or has been killed, or failed between locking and recording it.         *)
(***************************************************************************)
Kept(p) == IF pc[p] = "teardown" THEN {e.acc : e \in returning[p]} ELSE Holds(p)

LocksAccounted ==
  \A a \in Accounts : lock[a] # None => a \in leaked \/ a \in Kept(lock[a])

=============================================================================
