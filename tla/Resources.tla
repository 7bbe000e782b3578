-------------------------------- MODULE Resources --------------------------------
(***************************************************************************)
(* The parts that keep a table, a file or a place for a while.  They share *)
(* no state in the code: a behaviour is one of one part, named by `part`,  *)
(* and the others stay as they begin.  The constants are those of the      *)
(* parts, where they are explained.                                        *)
(***************************************************************************)
EXTENDS Integers, Sequences, FiniteSets

CONSTANTS
  Wait, MaxConcurrent, MaxEvents,
  Flow,
  Job, JobKeep, MaxJobTime,
  Address, Threshold, Window, Base, MaxLock, GlobalThreshold, LoginStart, MaxLoginTime,
  MaxFails, MaxEntries,
  CrashThreshold, CrashWindow, RingSize, MaxBootTime, MaxStarts,
  Ip, MaxPerMinute, FailureWindow, MaxIps, MaxAuthTime, MaxRejections,
  Source, PublicMax, PublicWindow, PurgeInterval, MaxTracked, MaxPublicTime, MaxDispatches,
  Client, MaxClients,
  Writer,
  Path, Edit, MaxPerPath, MaxTotal, MaxSecond, MaxCalls

(* The limits are numbers, the log of starts has room for as many as refuse  *)
(* one, a failure is recent when it happens, a purge comes after some        *)
(* requests, there may be a registered client, and a writer is neither the   *)
(* file as it was nor no file.                                               *)
ASSUME ResourcesAssumption ==
  /\ {MaxConcurrent, MaxEvents, JobKeep, MaxJobTime, MaxPerPath, MaxSecond, MaxCalls,
      CrashThreshold, CrashWindow, RingSize, MaxBootTime, MaxStarts,
      FailureWindow, MaxIps, MaxAuthTime, MaxRejections,
      PublicMax, PublicWindow, MaxTracked, MaxDispatches} \subseteq Nat
  /\ RingSize # 0 /\ CrashThreshold <= RingSize /\ FailureWindow # 0
  /\ {PurgeInterval, MaxPublicTime} \subseteq Nat \ {0}
  /\ MaxClients \in Nat \ {0} /\ IsFiniteSet(Client)
  /\ "old" \notin Writer /\ "none" \notin Writer

(* The lock of the n-th failure, but for its maximum (Logins!LockSeconds).   *)
Doubled(n) == Base * 2 ^ (n - Threshold)

(* The time an address has spent when the lock of its n-th failure is over,  *)
(* at least: as much as a window before it comes to the threshold of all.    *)
Slows(spent) ==
  /\ spent[0] = 0 /\ spent[GlobalThreshold - 1] = Window + 1
  /\ \A n \in 1 .. GlobalThreshold - 1 :
       IF n < Threshold THEN spent[n] <= spent[n - 1]
       ELSE /\ spent[n] <= spent[n - 1] + Doubled(n)
            /\ spent[n] <= spent[n - 1] + MaxLock

(* The locks of one address fill its window before the threshold of all, and *)
(* the clock is far from 0.  That a power of 2 is not negative is arithmetic *)
(* that the provers do not have.                                             *)
ASSUME LoginsAssumption ==
  /\ {Threshold, Window, Base, MaxLock, MaxFails, MaxEntries, MaxLoginTime} \subseteq Nat
  /\ GlobalThreshold \in Nat \ {0} /\ LoginStart \in Window + 1 .. MaxLoginTime
  /\ \A k \in 0 .. MaxFails : 2 ^ k \in Nat
  /\ \E spent \in [0 .. GlobalThreshold - 1 -> 0 .. Window + 1] : Slows(spent)

VARIABLES
  part,
  stage, active, cancelled, inbox, sent, reply, cut,
  running, restricted, scan, saw, save, saving, why, automations,
  kindOf, flow, tool, told, unheard, continued,
  jobs, starter, work, poll, jobTime, jobSince, jobTold, sawDone, jobsMissed,
  loginTime, failures, firstFail, lockedUntil, allFails, allFirst, allUntil,
  fails, entries, blame, midway,
  startLog, damaged, boot, bootTime, begun,
  bucket, authTime, caller, authCut, rejections,
  requests, publicTime, dispatches, admitted, forgiven,
  clients, born, progress, begunRegs, undeleted,
  step, raw, full, file, tmpAt, overlapped, troubled, unread,
  current, copies, edit, second, calls, taken, replaced, dropped

Waits      == INSTANCE EventWaits
Kinds      == INSTANCE AutoRestricted WITH file <- automations
Openings   == INSTANCE Flows
Ledger     == INSTANCE Jobs WITH Keep <- JobKeep
Passwords  == INSTANCE Logins WITH Start <- LoginStart
Starts     == INSTANCE CrashLoop
Rejected   == INSTANCE AuthFailures WITH cut <- authCut
Limited    == INSTANCE PublicLimit
Registered == INSTANCE Registrations
Secrets    == INSTANCE FileEdits
Copied     == INSTANCE FileBackups

Parts == {"waits", "kinds", "flows", "jobs", "logins", "starts", "rejected", "limited",
          "clients", "secrets", "copies"}

-------------------------------------------------------------------------------
Init ==
  /\ part \in Parts
  /\ Waits!Init /\ Kinds!Init /\ Openings!Init /\ Ledger!Init /\ Passwords!Init
  /\ Starts!Init /\ Rejected!Init /\ Limited!Init
  /\ Registered!Init /\ Secrets!Init /\ Copied!Init

Moves(name) == part = name /\ UNCHANGED part

(* The state of each part.                                                   *)
OfWaits == <<stage, active, cancelled, inbox, sent, reply, cut>>
OfKinds == <<running, restricted, scan, saw, save, saving, why, automations>>
OfFlows == <<kindOf, flow, tool, told, unheard, continued>>
OfJobs == <<jobs, starter, work, poll, jobTime, jobSince, jobTold, sawDone, jobsMissed>>
OfLogins ==
  <<loginTime, failures, firstFail, lockedUntil, allFails, allFirst, allUntil,
    fails, entries, blame, midway>>
OfStarts == <<startLog, damaged, boot, bootTime, begun>>
OfRejected == <<bucket, authTime, caller, authCut, rejections>>
OfLimited == <<requests, publicTime, dispatches, admitted, forgiven>>
OfClients == <<clients, born, progress, begunRegs, undeleted>>
OfSecrets == <<step, raw, full, file, tmpAt, overlapped, troubled, unread>>
OfCopies == <<current, copies, edit, second, calls, taken, replaced, dropped>>

(* The parts other than the one that moves.                                  *)
Still(name) ==
  /\ name # "waits"    => UNCHANGED OfWaits
  /\ name # "kinds"    => UNCHANGED OfKinds
  /\ name # "flows"    => UNCHANGED OfFlows
  /\ name # "jobs"     => UNCHANGED OfJobs
  /\ name # "logins"   => UNCHANGED OfLogins
  /\ name # "starts"   => UNCHANGED OfStarts
  /\ name # "rejected" => UNCHANGED OfRejected
  /\ name # "limited"  => UNCHANGED OfLimited
  /\ name # "clients"  => UNCHANGED OfClients
  /\ name # "secrets"  => UNCHANGED OfSecrets
  /\ name # "copies"   => UNCHANGED OfCopies

Next ==
  \/ Moves("waits")    /\ Waits!Next     /\ Still("waits")
  \/ Moves("kinds")    /\ Kinds!Next     /\ Still("kinds")
  \/ Moves("flows")    /\ Openings!Next  /\ Still("flows")
  \/ Moves("jobs")     /\ Ledger!Next    /\ Still("jobs")
  \/ Moves("logins")   /\ Passwords!Next /\ Still("logins")
  \/ Moves("starts")   /\ Starts!Next    /\ Still("starts")
  \/ Moves("rejected") /\ Rejected!Next  /\ Still("rejected")
  \/ Moves("limited")  /\ Limited!Next   /\ Still("limited")
  \/ Moves("clients")  /\ Registered!Next /\ Still("clients")
  \/ Moves("secrets")  /\ Secrets!Next   /\ Still("secrets")
  \/ Moves("copies")   /\ Copied!Next    /\ Still("copies")

allVars ==
  <<part, OfWaits, OfKinds, OfFlows, OfJobs, OfLogins, OfStarts, OfRejected, OfLimited,
    OfClients, OfSecrets, OfCopies>>

Spec == Init /\ [][Next]_allVars

-------------------------------------------------------------------------------
(* The type of each part's state.                                            *)
TypeOK ==
  /\ part \in Parts
  /\ Waits!TypeOK /\ Kinds!TypeOK /\ Openings!TypeOK /\ Ledger!TypeOK
  /\ Passwords!TypeOK /\ Starts!TypeOK /\ Rejected!TypeOK /\ Limited!TypeOK
  /\ Registered!TypeOK /\ Secrets!TypeOK /\ Copied!TypeOK

(* Nothing is left behind in a table that nobody can reach or will ever give *)
(* back: a place of a wait, a flow of Home Assistant, a job (EventWaits,     *)
(* Flows, Jobs).                                                             *)
NothingStranded == Waits!PlacesHeld /\ Openings!NoOrphans /\ Ledger!JobKept

(* An automation or script of a dangerous kind asks before it runs           *)
(* (AutoRestricted).                                                         *)
RestrictedAsks == Kinds!RestrictedAsks

(* A file under /config, and the versions it had, survive what the tools do  *)
(* (FileEdits, FileBackups).                                                 *)
FilesSurvive == Secrets!FilesWhole /\ Copied!CopiesKept

(* The tables with a limit neither forgive what they are there to count nor  *)
(* hit who they are not for (AuthFailures, PublicLimit, Logins, CrashLoop,   *)
(* Registrations).                                                           *)
LimitsHold ==
  [][/\ Rejected!FloodEvictsItself
     /\ Limited!PublicBounded'
     /\ Passwords!OneAloneLocksItself'
     /\ Starts!StartsBounded'
     /\ Registered!ClientsKept']_allVars
===============================================================================
