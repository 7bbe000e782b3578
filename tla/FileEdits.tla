-------------------------------- MODULE FileEdits --------------------------------
(***************************************************************************)
(* Writing one file under /config: fs_set_secret reads secrets.yaml, adds  *)
(* its secret to the text and has safe_write_file put the whole text back  *)
(* (filesystem_write.py, fs_write.py).  safe_write_file runs in a thread:  *)
(* it fills a temporary file, whose name depends on the path alone, and    *)
(* renames it.  Slots keep the calls of the tool seconds apart, but the    *)
(* safety backup comes after them and may take long: two writes can        *)
(* overlap.  A file is named here for the call that filled it.             *)
(***************************************************************************)
EXTENDS FiniteSets

CONSTANT Writer  \* calls of fs_set_secret, each with a secret of its own

VARIABLES
  step,        \* step[w]: where the call is
  raw,         \* raw[w]: the secrets in the text it has read
  full,        \* the writers whose text is on the disk as a whole
  file,        \* secrets.yaml: whose text it is
  tmpAt,       \* the entry secrets.yaml.mcp_tmp: whose text it is, or none
  overlapped,  \* history: writers that ran while another one did
  troubled,    \* history: writers for which the disk failed
  unread       \* history: secrets in a file that could not be read, or only in part

editVars == <<step, raw, full, file, tmpAt, overlapped, troubled, unread>>

Busy == {"read", "taken", "unlinked", "opened", "filled", "failing"}

TypeOK ==
  /\ step \in [Writer -> Busy \cup {"idle", "ok", "error", "gone"}]
  /\ raw \in [Writer -> SUBSET Writer]
  /\ full \subseteq Writer
  /\ file \in Writer \cup {"old"}
  /\ tmpAt \in Writer \cup {"none"}
  /\ overlapped \subseteq Writer /\ troubled \subseteq Writer /\ unread \subseteq Writer

Init ==
  /\ step = [w \in Writer |-> "idle"]
  /\ raw = [w \in Writer |-> {}]
  /\ full = {}
  /\ file = "old" /\ tmpAt = "none"
  /\ overlapped = {} /\ troubled = {} /\ unread = {}

-------------------------------------------------------------------------------
Goes(w, s) == step' = [step EXCEPT ![w] = s]

BusyNow == {w \in Writer : step[w] \in Busy}

(* The secrets in the text of f, once it is whole.                           *)
Secrets(f) == IF f = "old" THEN {} ELSE raw[f] \cup {f}

(* What reading f gives: a text that is being filled may be cut anywhere.    *)
Readings(f) == IF f = "old" \/ f \in full THEN {Secrets(f)} ELSE SUBSET Secrets(f)

Begins(w) ==
  /\ step[w] = "idle"
  /\ Goes(w, "read")
  /\ overlapped' = IF BusyNow = {} THEN overlapped ELSE overlapped \cup BusyNow \cup {w}
  /\ UNCHANGED <<full, file, tmpAt, troubled>>

(* The text is read and changed on the event loop.                           *)
ReadFile(w) ==
  /\ Begins(w)
  /\ \E text \in Readings(file) :
       /\ raw' = [raw EXCEPT ![w] = text]
       /\ unread' = unread \cup (Secrets(file) \ text)

(* A file that cannot be read is taken to be empty.                          *)
ReadFails(w) ==
  /\ Begins(w)
  /\ raw' = [raw EXCEPT ![w] = {}]
  /\ unread' = unread \cup Secrets(file)

-------------------------------------------------------------------------------
(* Mutant: the file itself is opened and filled.                             *)
CreatedInPlace(w) ==
  /\ file' = w
  /\ UNCHANGED tmpAt

(* os.open with O_CREAT and O_EXCL has made the entry.                       *)
Created(w) ==
  /\ tmpAt' = w
  /\ UNCHANGED file

OpenTmp(w) ==
  /\ step[w] = "read"
  /\ \/ tmpAt = "none" /\ Created(w) /\ Goes(w, "opened")
     \/ tmpAt # "none" /\ Goes(w, "taken") /\ UNCHANGED <<file, tmpAt>>
  /\ UNCHANGED <<raw, full, overlapped, troubled, unread>>

(* Mutant: what an earlier write left in the way is an error.                *)
UnlinkRefuses(w) ==
  /\ step[w] = "taken"
  /\ Goes(w, "failing")
  /\ UNCHANGED <<tmpAt, raw, full, file, overlapped, troubled, unread>>

(* The entry that is in the way is removed, whoever made it.                 *)
UnlinkTmp(w) ==
  /\ step[w] = "taken"
  /\ IF tmpAt = "none" THEN Goes(w, "failing") /\ UNCHANGED tmpAt
     ELSE Goes(w, "unlinked") /\ tmpAt' = "none"
  /\ UNCHANGED <<raw, full, file, overlapped, troubled, unread>>

(* And it is tried once more.                                                *)
OpenAgain(w) ==
  /\ step[w] = "unlinked"
  /\ \/ tmpAt = "none" /\ Created(w) /\ Goes(w, "opened")
     \/ tmpAt # "none" /\ Goes(w, "failing") /\ UNCHANGED <<file, tmpAt>>
  /\ UNCHANGED <<raw, full, overlapped, troubled, unread>>

(* The text is written and synced, through the descriptor.                   *)
Fill(w) ==
  /\ step[w] = "opened"
  /\ Goes(w, "filled")
  /\ full' = full \cup {w}
  /\ UNCHANGED <<raw, file, tmpAt, overlapped, troubled, unread>>

(* os.replace goes by the name: it installs what is there now.               *)
Replace(w) ==
  /\ step[w] = "filled"
  /\ IF tmpAt = "none" THEN Goes(w, "failing") /\ UNCHANGED <<file, tmpAt>>
     ELSE Goes(w, "ok") /\ file' = tmpAt /\ tmpAt' = "none"
  /\ UNCHANGED <<raw, full, overlapped, troubled, unread>>

(* Opening, writing, syncing or renaming fails.                              *)
DiskFails(w) ==
  /\ step[w] \in {"read", "opened", "filled"}
  /\ Goes(w, "failing")
  /\ troubled' = troubled \cup {w}
  /\ UNCHANGED <<raw, full, file, tmpAt, overlapped, unread>>

CleansUp(w) ==
  /\ step[w] = "failing"
  /\ Goes(w, "error")
  /\ tmpAt' = "none"
  /\ UNCHANGED <<raw, full, file, overlapped, troubled, unread>>

(* The process is killed; what there is on the disk stays.                   *)
EditCrash ==
  /\ BusyNow # {}
  /\ step' = [w \in Writer |-> IF w \in BusyNow THEN "gone" ELSE step[w]]
  /\ UNCHANGED <<raw, full, file, tmpAt, overlapped, troubled, unread>>

Next ==
  \/ \E w \in Writer :
       \/ ReadFile(w) \/ ReadFails(w) \/ OpenTmp(w) \/ UnlinkTmp(w) \/ OpenAgain(w)
       \/ Fill(w) \/ Replace(w) \/ DiskFails(w) \/ CleansUp(w)
  \/ EditCrash

-------------------------------------------------------------------------------
(* Whatever fails and wherever the process is killed, the file is one whole  *)
(* text: of the last write that succeeded, with the secrets of all that      *)
(* succeeded before it, and none of a write that failed.  What a killed      *)
(* write has left is in nobody's way.  Excepted are writes that overlap, and *)
(* secrets in a file that could not be read, or only in part since writes    *)
(* overlapped, which the next write drops (filesystem_write.py:805-850,      *)
(* fs_write.py:305-411).                                                     *)
FilesWhole ==
  /\ file \in full \cup overlapped \cup {"old"}
  /\ \A w \in Writer \ overlapped :
       /\ step[w] = "ok" => w \in Secrets(file) \cup unread
       /\ step[w] = "error" => w \in troubled /\ w \notin Secrets(file)
===============================================================================
