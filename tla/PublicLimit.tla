------------------------------- MODULE PublicLimit -------------------------------
(***************************************************************************)
(* RateLimitPreAuth (middleware.py): requests to the public paths, those   *)
(* of the login among them, are limited for each address; addresses are    *)
(* forgotten every so many requests, and the table has a limit as well.    *)
(***************************************************************************)
EXTENDS Naturals, Sequences, FiniteSets

CONSTANTS
  Source,        \* addresses
  PublicMax,     \* max_per_minute
  PublicWindow,  \* _window, in ticks
  PurgeInterval, \* _PURGE_INTERVAL
  MaxTracked,    \* _MAX_TRACKED_IPS
  MaxPublicTime, \* bound on the clock
  MaxDispatches  \* bound: requests

VARIABLES
  requests,    \* _requests: times of admitted requests, for each address in it
  publicTime,  \* time.monotonic(), from 1: nothing was admitted at 0
  dispatches,  \* _dispatch_count
  admitted,    \* history: admitted[s], times at which requests of s were admitted
  forgiven     \* history: addresses that were forgotten while they had recent requests

publicVars == <<requests, publicTime, dispatches, admitted, forgiven>>

TypeOK ==
  /\ DOMAIN requests \subseteq Source
  /\ \A s \in DOMAIN requests : Len(requests[s]) <= PublicMax
  /\ publicTime \in 1 .. MaxPublicTime
  /\ dispatches \in 0 .. MaxDispatches
  /\ \A s \in Source : \A n \in DOMAIN admitted[s] : admitted[s][n] \in 1 .. publicTime
  /\ forgiven \subseteq Source

Init ==
  /\ requests = [s \in {} |-> <<>>]
  /\ publicTime = 1
  /\ dispatches = 0
  /\ admitted = [s \in Source |-> <<>>]
  /\ forgiven = {}

-------------------------------------------------------------------------------
Recent(t) == t + PublicWindow > publicTime
Latest(stamps) == IF stamps = <<>> THEN 0 ELSE stamps[Len(stamps)]
RecentOnes(stamps) == {n \in DOMAIN stamps : Recent(stamps[n])}

(* Times are noted in their order, so the recent ones are the last.          *)
Cleaned(stamps) ==
  SubSeq(stamps, Len(stamps) - Cardinality(RecentOnes(stamps)) + 1, Len(stamps))

(* What _purge_stale_ips may leave: who was not admitted lately goes, then   *)
(* those admitted longest ago until the table is within its limit.           *)
Purged ==
  LET live   == {s \in DOMAIN requests : requests[s] # <<>> /\ Recent(Latest(requests[s]))}
      excess == Cardinality(live) - MaxTracked
  IN IF Cardinality(live) <= MaxTracked THEN {live}
     ELSE {live \ V : V \in {U \in SUBSET live :
             /\ Cardinality(U) = excess
             /\ \A s \in live \ U, v \in U : Latest(requests[v]) <= Latest(requests[s])}}

(* Mutant: the requests that are refused are put down as well.               *)
NotedAlways(stamps) == Append(stamps, publicTime)

(* Only what is admitted is noted, or a client that goes on asking would     *)
(* never be admitted again.                                                  *)
Noted(stamps) ==
  IF Len(stamps) >= PublicMax THEN stamps ELSE Append(stamps, publicTime)

Dispatch(s) ==
  /\ dispatches < MaxDispatches
  /\ dispatches' = dispatches + 1
  /\ \E kept \in (IF (dispatches + 1) % PurgeInterval = 0 THEN Purged ELSE {DOMAIN requests}) :
       LET known  == IF s \in kept THEN requests[s] ELSE <<>>
           stamps == Cleaned(known)
       IN /\ requests' = [r \in kept \cup {s} |-> IF r = s THEN Noted(stamps) ELSE requests[r]]
          /\ admitted' = [admitted EXCEPT ![s] =
                            IF Len(stamps) >= PublicMax THEN @ ELSE Append(@, publicTime)]
          /\ forgiven' = forgiven \cup
               {r \in DOMAIN requests \ kept : Recent(Latest(requests[r]))}
  /\ UNCHANGED publicTime

PublicTick ==
  /\ publicTime < MaxPublicTime
  /\ publicTime' = publicTime + 1
  /\ UNCHANGED <<requests, dispatches, admitted, forgiven>>

Next == (\E s \in Source : Dispatch(s)) \/ PublicTick

-------------------------------------------------------------------------------
(* No address is admitted more often than the limit within any window, and   *)
(* each is admitted again once a window has passed, however often it was     *)
(* refused; except an address that was forgotten at the limit of the table,  *)
(* because as many others had been admitted since: it starts anew.  The      *)
(* table exceeds its limit by one purge interval at most                     *)
(* (middleware.py:208-279).                                                  *)
PublicBounded ==
  /\ \A s \in Source \ forgiven : Cardinality(RecentOnes(admitted[s])) <= PublicMax
  /\ \A s \in DOMAIN requests :
       Cardinality(RecentOnes(requests[s])) <= Cardinality(RecentOnes(admitted[s]))
  /\ Cardinality(DOMAIN requests) <= MaxTracked + PurgeInterval
===============================================================================
