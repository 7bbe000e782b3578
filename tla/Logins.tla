--------------------------------- MODULE Logins ---------------------------------
(***************************************************************************)
(* The brake on failed logins (oauth.py): each address is locked for       *)
(* longer and longer, and behind that all of them together are.  The lock  *)
(* is looked at, the password compared and the outcome recorded without    *)
(* anything being awaited in between that could let another attempt in.    *)
(* The 10 000 addresses after which the oldest is forgotten are not        *)
(* reached here.                                                           *)
(***************************************************************************)
EXTENDS Naturals, FiniteSets

CONSTANTS
  Address,
  Threshold,        \* LOGIN_FAIL_THRESHOLD
  Window,           \* LOGIN_FAIL_WINDOW
  Base,             \* LOGIN_LOCK_BASE_SECONDS
  MaxLock,          \* LOGIN_LOCK_MAX_SECONDS
  GlobalThreshold,  \* LOGIN_GLOBAL_FAIL_THRESHOLD
  Start,            \* time.time() at first, far from 0
  MaxLoginTime,     \* bound on the clock
  MaxFails,         \* bound: failed attempts
  MaxEntries        \* bound: logins with the right password

VARIABLES
  loginTime,    \* time.time()
  failures,     \* _login_ip_state[a]["failures"]
  firstFail,    \* _login_ip_state[a]["first_fail_ts"]; 0 when a has no state
  lockedUntil,  \* _login_ip_state[a]["locked_until"]
  allFails,     \* _login_failed_attempts
  allFirst,     \* _login_first_fail_ts
  allUntil,     \* _login_locked_until
  fails,        \* history: failed attempts so far
  entries,      \* history: logins so far
  blame,        \* history: the addresses that allFails counts
  midway        \* history: allFails began in the middle of an address's own window

loginVars ==
  <<loginTime, failures, firstFail, lockedUntil, allFails, allFirst, allUntil,
    fails, entries, blame, midway>>

Times == 0 .. MaxLoginTime

TypeOK ==
  /\ loginTime \in Start .. MaxLoginTime
  /\ failures \in [Address -> Nat]
  /\ firstFail \in [Address -> Times]
  /\ lockedUntil \in [Address -> 0 .. MaxLoginTime + MaxLock]
  /\ allFails \in Nat /\ allFirst \in Times /\ allUntil \in 0 .. MaxLoginTime + MaxLock
  /\ fails \in Nat /\ entries \in Nat /\ blame \subseteq Address
  /\ midway \in BOOLEAN

Init ==
  /\ loginTime = Start
  /\ failures = [a \in Address |-> 0]
  /\ firstFail = [a \in Address |-> 0]
  /\ lockedUntil = [a \in Address |-> 0]
  /\ allFails = 0 /\ allFirst = 0 /\ allUntil = 0
  /\ fails = 0 /\ entries = 0
  /\ blame = {} /\ midway = FALSE

-------------------------------------------------------------------------------
(* Mutant: each further failure adds the same time.                          *)
LockSecondsLinear(n, threshold) ==
  IF Base * (1 + n - threshold) < MaxLock THEN Base * (1 + n - threshold) ELSE MaxLock

(* _lock_seconds.                                                            *)
LockSeconds(n, threshold) ==
  LET doubled == Base * 2 ^ (n - threshold)
  IN IF doubled < MaxLock THEN doubled ELSE MaxLock

(* _login_lock_remaining.                                                    *)
Locked(a) == loginTime < lockedUntil[a] \/ loginTime < allUntil

(* _purge_login_ip_state.                                                    *)
Lapsed(a) == loginTime - firstFail[a] > Window /\ loginTime >= lockedUntil[a]

(* _record_login_failure: an address whose window is over starts anew, and   *)
(* so does the count of all; who has nothing to remember is forgotten.       *)
LoginFails(a) ==
  LET n     == IF loginTime - firstFail[a] > Window THEN 1 ELSE failures[a] + 1
      first == IF n = 1 THEN loginTime ELSE firstFail[a]
      anew  == loginTime - allFirst > Window
      all   == IF anew THEN 1 ELSE allFails + 1
      Keep(f, own) == [b \in Address |-> IF b = a THEN own ELSE IF Lapsed(b) THEN 0 ELSE f[b]]
  IN /\ ~Locked(a) /\ fails < MaxFails
     /\ failures' = Keep(failures, n)
     /\ firstFail' = Keep(firstFail, first)
     /\ lockedUntil' =
          Keep(lockedUntil,
               IF n >= Threshold THEN loginTime + LockSeconds(n, Threshold)
               ELSE IF n = 1 THEN 0 ELSE lockedUntil[a])
     /\ allFails' = all
     /\ allFirst' = IF anew THEN loginTime ELSE allFirst
     /\ allUntil' = IF all >= GlobalThreshold
                    THEN loginTime + LockSeconds(all, GlobalThreshold) ELSE allUntil
     /\ blame' = IF anew THEN {a} ELSE blame \cup {a}
     /\ midway' = IF anew THEN n > 1 ELSE midway
     /\ fails' = fails + 1
     /\ UNCHANGED <<loginTime, entries>>

(* _reset_login_throttle: for the address that came in, and for all.         *)
LogsIn(a) ==
  /\ ~Locked(a) /\ entries < MaxEntries
  /\ failures' = [failures EXCEPT ![a] = 0]
  /\ firstFail' = [firstFail EXCEPT ![a] = 0]
  /\ lockedUntil' = [lockedUntil EXCEPT ![a] = 0]
  /\ allFails' = 0 /\ allFirst' = 0 /\ allUntil' = 0
  /\ blame' = {}
  /\ midway' = FALSE
  /\ entries' = entries + 1
  /\ UNCHANGED <<loginTime, fails>>

LoginTick ==
  /\ loginTime < MaxLoginTime
  /\ loginTime' = loginTime + 1
  /\ UNCHANGED <<failures, firstFail, lockedUntil, allFails, allFirst, allUntil,
                 fails, entries, blame, midway>>

Next == (\E a \in Address : LoginFails(a) \/ LogsIn(a)) \/ LoginTick

-------------------------------------------------------------------------------
(* One address alone does not close the login to the others: the lock of all *)
(* addresses takes the failures of two at least.  It does when the count of  *)
(* all started in the middle of the address's own window, after a login with *)
(* the right password or the end of an older count: its window then ends     *)
(* inside the new one and it fails from the start again (oauth.py:1214-1246, *)
(* 1248-1265).                                                               *)
OneAloneLocksItself == loginTime < allUntil => Cardinality(blame) >= 2 \/ midway
===============================================================================
