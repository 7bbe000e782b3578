------------------------------ MODULE AuthFailures ------------------------------
(***************************************************************************)
(* The count of failed authentications by address (middleware.py): what    *)
(* record_auth_failure keeps for each, and whom it forgets when it keeps   *)
(* too many.                                                               *)
(***************************************************************************)
EXTENDS Naturals, Sequences, FiniteSets

CONSTANTS
  Ip,
  MaxPerMinute,   \* auth_failure_max_per_minute
  FailureWindow,  \* _AUTH_FAILURE_WINDOW, in ticks
  MaxIps,         \* _AUTH_FAILURE_MAX_IPS
  MaxAuthTime,    \* bound on the clock
  MaxRejections   \* bound: requests rejected

VARIABLES
  bucket,     \* _AUTH_FAILURE_BUCKET: times of failures, for each address in it
  authTime,   \* time.monotonic()
  caller,     \* the address that was rejected last
  cut,        \* it was answered 429
  rejections  \* history: requests rejected so far

authVars == <<bucket, authTime, caller, cut, rejections>>

TypeOK ==
  /\ \E known \in SUBSET Ip : DOMAIN bucket = known
  /\ \A a \in DOMAIN bucket : bucket[a] # <<>> /\ \A n \in DOMAIN bucket[a] : bucket[a][n] \in 0 .. authTime
  /\ authTime \in 0 .. MaxAuthTime
  /\ caller \in Ip \cup {"nobody"} /\ cut \in BOOLEAN
  /\ rejections \in 0 .. MaxRejections

Init ==
  /\ bucket = [a \in {} |-> <<>>]
  /\ authTime = 0
  /\ caller = "nobody" /\ cut = FALSE
  /\ rejections = 0

-------------------------------------------------------------------------------
Fresh(t) == t + FailureWindow > authTime
LastOf(stamps) == stamps[Len(stamps)]

(* The failures of a with the new one; the old ones of a, which come first,  *)
(* are dropped, those of the others stay in their lists.                     *)
Counted(a) ==
  LET known == IF a \in DOMAIN bucket THEN bucket[a] ELSE <<>>
      old   == Cardinality({n \in DOMAIN known : ~Fresh(known[n])})
  IN [b \in DOMAIN bucket \cup {a} |->
        IF b = a THEN Append(SubSeq(known, old + 1, Len(known)), authTime) ELSE bucket[b]]

(* Mutant: the newest failures are sorted first.                             *)
BeforeNewest(s, t) == LastOf(s) > LastOf(t) \/ (LastOf(s) = LastOf(t) /\ Len(s) < Len(t))

(* The order in which addresses are forgotten: fewest failures first, and of *)
(* as many the older.                                                        *)
Before(s, t) == Len(s) < Len(t) \/ (Len(s) = Len(t) /\ LastOf(s) < LastOf(t))

(* The sets that the first `excess` of the order may be, for any order of    *)
(* those that are equal in it.                                               *)
Victims(table, excess) ==
  {V \in SUBSET DOMAIN table :
     /\ Cardinality(V) = excess
     /\ \A a \in DOMAIN table \ V, v \in V : ~Before(table[a], table[v])}

Without(table, gone) == [a \in DOMAIN table \ gone |-> table[a]]

(* OAuthBearerAuth rejects a request: who has no recent failure goes first,  *)
(* then as many as are too many, but not the caller.                         *)
Reject(a) ==
  /\ rejections < MaxRejections
  /\ LET all  == Counted(a)
         live == Without(all, {b \in DOMAIN all : ~Fresh(LastOf(all[b]))})
         n    == Cardinality(DOMAIN live)
     IN /\ cut' = (Len(all[a]) > MaxPerMinute)
        /\ IF Cardinality(DOMAIN all) <= MaxIps THEN bucket' = all
           ELSE IF n <= MaxIps THEN bucket' = live
           ELSE \E V \in Victims(live, n - MaxIps) : bucket' = Without(live, V \ {a})
  /\ caller' = a
  /\ rejections' = rejections + 1
  /\ UNCHANGED authTime

AuthTick ==
  /\ authTime < MaxAuthTime
  /\ authTime' = authTime + 1
  /\ UNCHANGED <<bucket, caller, cut, rejections>>

Next == (\E a \in Ip : Reject(a)) \/ AuthTick

-------------------------------------------------------------------------------
(* Many addresses with one failure each push each other out before they      *)
(* touch the count of one that goes on failing: nobody with a recent failure *)
(* is forgotten while another but the caller is kept with fewer.  The table  *)
(* exceeds its limit by the caller at most, however often the caller is      *)
(* spared (middleware.py:125-142).                                           *)
FloodEvictsItself ==
  LET gone == {a \in DOMAIN bucket \ DOMAIN bucket' : Fresh(LastOf(bucket[a]))}
  IN /\ \A a \in gone, b \in DOMAIN bucket' \ {caller'} : Len(bucket'[b]) >= Len(bucket[a])
     /\ Cardinality(DOMAIN bucket') <= MaxIps + 1
===============================================================================
