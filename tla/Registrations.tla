------------------------------ MODULE Registrations ------------------------------
(***************************************************************************)
(* Registered clients (oauth.py): anybody may register one, each in a file *)
(* of its own; at the limit the oldest go.  A client that is in the middle *)
(* of its authorization, or has been authorized, may be among them.        *)
(***************************************************************************)
EXTENDS Naturals, FiniteSets

CONSTANTS
  Client,      \* clients that may register
  MaxClients   \* MAX_REGISTERED_CLIENTS

VARIABLES
  clients,     \* the files of _CLIENTS_DIR
  born,        \* born[c]: when c registered (mtime), 0 if it has not
  progress,    \* progress[c]: how far the authorization of c is
  begunRegs,   \* registrations so far, the ones that were cut short among them
  undeleted    \* history: clients whose file was to go and could not be deleted

clientVars == <<clients, born, progress, begunRegs, undeleted>>

MaxRegs == Cardinality(Client) + 1

TypeOK ==
  /\ clients \subseteq Client
  /\ born \in [Client -> 0 .. MaxRegs]
  /\ progress \in [Client -> {"none", "registered", "code", "tokens", "unknown"}]
  /\ begunRegs \in 0 .. MaxRegs
  /\ undeleted \subseteq Client

Init ==
  /\ clients = {}
  /\ born = [c \in Client |-> 0]
  /\ progress = [c \in Client |-> "none"]
  /\ begunRegs = 0
  /\ undeleted = {}

-------------------------------------------------------------------------------
(* Mutant: room is made for the clients that are there, not for one more.    *)
PrunedLate ==
  {c \in clients : Cardinality({d \in clients : born[d] > born[c]}) < MaxClients}

(* _prune_clients_over_limit: there are to be one less than the limit.       *)
Pruned ==
  {c \in clients : Cardinality({d \in clients : born[d] > born[c]}) < MaxClients - 1}

(* An error of the disk, in the listing or with one file, is passed over.    *)
Prune(added) ==
  \E kept \in SUBSET (clients \ Pruned) :
    /\ clients' = Pruned \cup kept \cup added
    /\ undeleted' = undeleted \cup kept

Registers == begunRegs < MaxRegs /\ begunRegs' = begunRegs + 1

(* register_client, without an await after the request is read.              *)
RegisterClient(c) ==
  /\ born[c] = 0 /\ Registers
  /\ Prune({c})
  /\ born' = [born EXCEPT ![c] = begunRegs']
  /\ progress' = [progress EXCEPT ![c] = "registered"]

(* The process is killed, or the disk fails, after the old clients are gone. *)
RegisterCut ==
  /\ Registers
  /\ Prune({})
  /\ UNCHANGED <<born, progress>>

(* authorize_post, with the right password.                                  *)
Authorize(c) ==
  /\ progress[c] \in {"registered", "code", "tokens", "unknown"}
  /\ progress' = [progress EXCEPT ![c] = IF c \in clients THEN "code" ELSE "unknown"]
  /\ UNCHANGED <<clients, born, begunRegs, undeleted>>

(* The exchange of the code asks only for the id that is in the code.        *)
Exchange(c) ==
  /\ progress[c] = "code"
  /\ progress' = [progress EXCEPT ![c] = "tokens"]
  /\ UNCHANGED <<clients, born, begunRegs, undeleted>>

Next == (\E c \in Client : RegisterClient(c) \/ Authorize(c) \/ Exchange(c)) \/ RegisterCut

-------------------------------------------------------------------------------
(* The table is over its limit only by the files that could not be deleted   *)
(* when they should have been.  A client is told that it is unknown only if  *)
(* at least as many registrations as the limit came after its own, the ones  *)
(* that were cut short included; registrations that fail do not add up to    *)
(* more (oauth.py:140-156, 585-597, 736-758).                                *)
ClientsKept ==
  /\ Cardinality(clients \ undeleted) <= MaxClients
  /\ \A c \in Client : progress[c] = "unknown" => begunRegs >= born[c] + MaxClients
===============================================================================
