----------------------------- MODULE AutoRestricted -----------------------------
(***************************************************************************)
(* Scripts that call services of the denylist are run with a confirmation  *)
(* only (service_policy.py, tools/ha.py).  Which they are is a set in      *)
(* memory, that scans of the stored configuration and the tools that save  *)
(* one add to: a scan when the process starts, a scan after a reload by    *)
(* ha_call_service, and the content of each save once it was answered.     *)
(*                                                                         *)
(* One script; its content is harmless, or it calls a service of the       *)
(* denylist, or one that only the options of the add-on put there          *)
(* (call_service_denylist_extra): the scans know both, the tools that save *)
(* know the first.  Home Assistant runs what it last loaded, which may     *)
(* differ from the file.                                                   *)
(***************************************************************************)
EXTENDS Naturals, FiniteSets

Content   == {"harmless", "dangerous", "extra"}
Dangerous == {"dangerous", "extra"}
Scan      == {"boot", "reload"}   \* _boot_classify; the one after a reload

VARIABLES
  file,        \* what scripts.yaml has
  running,     \* what Home Assistant has loaded
  restricted,  \* the script is in _auto_restricted
  scan,        \* scan[k]: where scan k is
  saw,         \* saw[k]: what it has read, "unread" if it could not
  save,        \* where the saving tool is
  saving,      \* what it saves
  why          \* history: why what runs may not be in the set

restrictedVars == <<file, running, restricted, scan, saw, save, saving, why>>

TypeOK ==
  /\ file \in Content /\ running \in Content /\ saving \in Content
  /\ restricted \in BOOLEAN
  /\ scan \in [Scan -> {"idle", "started", "read"}]
  /\ saw \in [Scan -> Content \cup {"unread"}]
  /\ save \in {"idle", "asked", "applied", "abandoned"}
  /\ why \in {"none", "answer", "lost", "extra", "outside", "unscanned", "unread", "raced"} \cup Scan

Init ==
  /\ file = "dangerous" /\ running = "dangerous"
  /\ restricted = FALSE
  /\ scan = [k \in Scan |-> IF k = "boot" THEN "started" ELSE "idle"]
  /\ saw = [k \in Scan |-> "harmless"]
  /\ save = "idle" /\ saving = "harmless"
  /\ why = "boot"

(* Home Assistant loads c.                                                   *)
Loads(c, reason) == running' = c /\ why' = reason

-------------------------------------------------------------------------------
(* auto_classify_dangerous: the files are read in a thread, and what was     *)
(* found is added later.  A file that cannot be opened or parsed (Home       *)
(* Assistant's own tags are no plain YAML) is passed over, and the scan ends *)
(* like any other.                                                           *)
ScanReads(k) ==
  /\ scan[k] = "started"
  /\ scan' = [scan EXCEPT ![k] = "read"]
  /\ \E found \in {file, "unread"} : saw' = [saw EXCEPT ![k] = found]
  /\ UNCHANGED <<file, running, restricted, save, saving, why>>

(* Mutant: the set becomes what the scan has found.                          *)
Replaced(k) == saw[k] \in Dangerous

(* The set only grows: a scan may have read an older file.                   *)
Added(k) == restricted \/ saw[k] \in Dangerous

(* Why what runs may not be in the set once k has ended.                     *)
Learned(k) ==
  IF saw[k] = running THEN "none"
  ELSE IF why # k THEN why
  ELSE IF saw[k] = "unread" THEN "unread" ELSE "raced"

ScanEnds(k) ==
  /\ scan[k] = "read"
  /\ scan' = [scan EXCEPT ![k] = "idle"]
  /\ restricted' = Added(k)
  /\ why' = Learned(k)
  /\ UNCHANGED <<file, running, saw, save, saving>>

-------------------------------------------------------------------------------
(* ha_create_or_update_script past its token: the request, what Home         *)
(* Assistant does with it (it stores the configuration and loads it), and    *)
(* its answer, after which the content is classified before anything else,   *)
(* by classify_saved_config and its own denylist.                            *)
SaveAsks ==
  /\ save = "idle"
  /\ save' = "asked"
  /\ saving' \in Content
  /\ UNCHANGED <<file, running, restricted, scan, saw, why>>

SaveApplies ==
  /\ \/ save = "asked" /\ save' = "applied" /\ Loads(saving, "answer")
     \/ save = "abandoned" /\ save' = "idle" /\ Loads(saving, "lost")
  /\ file' = saving
  /\ UNCHANGED <<restricted, scan, saw, saving>>

SaveAnswered ==
  /\ save = "applied"
  /\ save' = "idle"
  /\ restricted' = (restricted \/ saving = "dangerous")
  /\ why' = IF why # "answer" THEN why ELSE IF saving = "extra" THEN "extra" ELSE "none"
  /\ UNCHANGED <<file, running, scan, saw, saving>>

(* The request is refused, or its answer is lost: nothing is classified.     *)
SaveFails ==
  /\ save \in {"asked", "applied"}
  /\ save' = IF save = "asked" THEN "abandoned" ELSE "idle"
  /\ why' = IF why = "answer" THEN "lost" ELSE why
  /\ UNCHANGED <<file, running, restricted, scan, saw, saving>>

SaveForgotten ==
  /\ save = "abandoned"
  /\ save' = "idle"
  /\ UNCHANGED <<file, running, restricted, scan, saw, saving, why>>

-------------------------------------------------------------------------------
(* fs_write_file, or an editor, on scripts.yaml: loaded by a reload only.    *)
FileWritten ==
  /\ \E c \in Content \ {file} : file' = c
  /\ UNCHANGED <<running, restricted, scan, saw, save, saving, why>>

(* script.reload through ha_call_service: scanned afterwards, if the answer  *)
(* arrives.  Bound: one such scan at a time.                                 *)
ServiceReload ==
  /\ scan["reload"] = "idle"
  /\ \/ Loads(file, "reload") /\ scan' = [scan EXCEPT !["reload"] = "started"]
     \/ Loads(file, "unscanned") /\ UNCHANGED scan
  /\ UNCHANGED <<file, restricted, saw, save, saving>>

(* ha_reload_scripts: the same reload, and no scan.                          *)
ToolReload ==
  /\ file # running
  /\ Loads(file, "unscanned")
  /\ UNCHANGED <<file, restricted, scan, saw, save, saving>>

(* The interface of Home Assistant saves a script (external).                *)
OutsideSave ==
  /\ \E c \in Content : file' = c /\ c # running /\ Loads(c, "outside")
  /\ UNCHANGED <<restricted, scan, saw, save, saving>>

(* The process ends and starts again; what it asked of HA may still happen.  *)
Restart ==
  /\ restricted' = FALSE
  /\ scan' = [k \in Scan |-> IF k = "boot" THEN "started" ELSE "idle"]
  /\ save' = IF save = "asked" THEN "abandoned" ELSE IF save = "applied" THEN "idle" ELSE save
  /\ why' = "boot"
  /\ UNCHANGED <<file, running, saw, saving>>

Next ==
  \/ \E k \in Scan : ScanReads(k) \/ ScanEnds(k)
  \/ SaveAsks \/ SaveApplies \/ SaveAnswered \/ SaveFails \/ SaveForgotten
  \/ FileWritten \/ ServiceReload \/ ToolReload \/ OutsideSave \/ Restart

-------------------------------------------------------------------------------
(* A dangerous script is in the set, so that guarded_entity_invoke and       *)
(* ha_call_service ask before they run it, except while the scan that would  *)
(* find it is under way or the answer of its save is, and when the process   *)
(* could not learn of it: an answer that was lost, a save that calls only    *)
(* what the options forbid, a change made outside, a reload that is not      *)
(* followed by a scan, a file that the scan could not read, and one that was *)
(* changed between a reload and the scan after it (_common.py:357,           *)
(* tools/ha.py:273-283, 312-348, 564-567).                                   *)
RestrictedAsks == running \in Dangerous /\ ~restricted => why # "none"
===============================================================================
