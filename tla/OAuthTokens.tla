------------------------------ MODULE OAuthTokens ------------------------------
(***************************************************************************)
(* Authorization codes and refresh-token chains of hermes/oauth.py.        *)
(*                                                                         *)
(* Every code and token is a file under /data/oauth.  The handlers of the  *)
(* token endpoint never await once the form is read, so one runs at a time;*)
(* but each makes several disk operations in a row, and a crash of the     *)
(* process or a write that raises ends it between two of them.  A step is  *)
(* one disk operation, `pc` says which comes next.                         *)
(*                                                                         *)
(* A token is named by the number of the issue that created it: issue n    *)
(* writes access token n and, unless it answers a retry, refresh token n.  *)
(* Codes double as the names of the authorizations they stand for.         *)
(***************************************************************************)
EXTENDS Naturals, FiniteSets

CONSTANTS
  Code,         \* authorization codes
  Client,       \* registered clients
  MaxIssue,     \* bound: issues
  MaxClock,     \* bound: the clock
  Life,         \* REFRESH_TOKEN_TTL, in ticks
  Grace,        \* REFRESH_ROTATION_GRACE_SECONDS
  MaxSessions,  \* MAX_ACTIVE_SESSIONS
  NoCode

ASSUME OAuthAssumption ==
  /\ {MaxIssue, MaxClock, Life, Grace} \subseteq Nat
  /\ MaxSessions \in Nat \ {0}
  /\ NoCode \notin Code

Token == 1 .. MaxIssue
None  == 0          \* no token

VARIABLES
  clock,     \* time.time()
  code,      \* code[c]: c is not issued yet, on disk, or gone
  client,    \* client[c]: the client_id c was issued to
  type,      \* type[t]: token_type of refresh token t's file, "absent" if none
  end,       \* end[t]: expires_at
  access,    \* access[t]: access_token_hash
  succ,      \* succ[t]: successor_hash
  rotated,   \* rotated[t]: rotated_at
  grant,     \* grant[n]: the authorization issue n was made under
  live,      \* access tokens on disk
  next,      \* the next issue
  pc,        \* the next disk operation of the handler that runs
  under,     \* the authorization it works under
  base,      \* the refresh token it works on
  value,     \* the refresh token its answer will carry
  victims,   \* the sessions it still has to revoke
  known,     \* refresh tokens that reached somebody
  sent,      \* history: issues whose answer left the process or is sealed for a retry
  firstEnd,  \* history: when the authorization runs out
  spent,     \* history: spent[c] counts the sessions opened with c
  ended,     \* history: authorizations a revocation or an eviction began to end
  closed,    \* history: those for which it went through before they ran out
  broken     \* history: those for which it was cut short

codeVars    == <<code, client>>
fileVars    == <<type, end, access, succ, rotated>>
accessVars  == <<grant, live>>
handlerVars == <<pc, under, base, value, victims>>
history     == <<sent, firstEnd, spent, ended, closed, broken>>
vars        == <<clock, codeVars, fileVars, accessVars, next, handlerVars, known, history>>

Steps == {"idle", "grantAccess", "grantRefresh", "dropAccess", "newAccess",
          "keep", "newRefresh", "mark", "answer", "revoke"}

TypeOK ==
  /\ clock \in 0 .. MaxClock
  /\ code \in [Code -> {"new", "issued", "gone"}] /\ client \in [Code -> Client]
  /\ type \in [Token -> {"absent", "refresh", "refresh_rotated"}]
  /\ grant \in [Token -> Code \cup {NoCode}] /\ end \in [Token -> Nat]
  /\ access \in [Token -> Token \cup {None}] /\ succ \in [Token -> Token \cup {None}]
  /\ rotated \in [Token -> 0 .. MaxClock]
  /\ live \in SUBSET Token
  /\ next \in 1 .. MaxIssue + 1
  /\ pc \in Steps /\ under \in Code \cup {NoCode}
  /\ base \in Token \cup {None} /\ value \in Token \cup {None}
  /\ victims \in SUBSET Token
  /\ known \in SUBSET Token /\ sent \in SUBSET Token
  /\ firstEnd \in [Code -> Nat] /\ spent \in [Code -> Nat]
  /\ ended \in SUBSET Code /\ closed \in SUBSET Code /\ broken \in SUBSET Code

Init ==
  /\ clock = 0
  /\ code = [c \in Code |-> "new"] /\ client \in [Code -> Client]
  /\ type = [t \in Token |-> "absent"]
  /\ grant = [t \in Token |-> NoCode] /\ end = [t \in Token |-> 0]
  /\ access = [t \in Token |-> None] /\ succ = [t \in Token |-> None]
  /\ rotated = [t \in Token |-> 0]
  /\ live = {}
  /\ next = 1
  /\ pc = "idle" /\ under = NoCode /\ base = None /\ value = None /\ victims = {}
  /\ known = {} /\ sent = {}
  /\ firstEnd = [c \in Code |-> 0] /\ spent = [c \in Code |-> 0]
  /\ ended = {} /\ closed = {} /\ broken = {}

-------------------------------------------------------------------------------
Issue == next - 1   \* the issue a handler has begun
Head(t) == type[t] = "refresh"
Heads == {t \in Token : Head(t)}

Close(T) == closed \cup {c \in {grant[t] : t \in T} : clock <= firstEnd[c]}

(* The handler is over, with or without an answer.                           *)
Finish ==
  /\ pc' = "idle" /\ under' = NoCode /\ base' = None /\ value' = None /\ victims' = {}

(* Unlinking the file of refresh token t.                                    *)
Erase(t) ==
  /\ type' = [type EXCEPT ![t] = "absent"]
  /\ access' = [access EXCEPT ![t] = None]
  /\ succ' = [succ EXCEPT ![t] = None]
  /\ rotated' = [rotated EXCEPT ![t] = 0]
  /\ UNCHANGED end

(* Writing the files of an issue: its refresh token, its access token.       *)
WriteRefresh(e) ==
  /\ type' = [type EXCEPT ![Issue] = "refresh"]
  /\ end' = [end EXCEPT ![Issue] = e]
  /\ access' = [access EXCEPT ![Issue] = Issue]
  /\ UNCHANGED <<succ, rotated>>

WriteAccess ==
  /\ live' = live \cup {next}
  /\ grant' = [grant EXCEPT ![next] = under]
  /\ next' = next + 1

-------------------------------------------------------------------------------
(* authorize_post, once the password was right: a code for one client.       *)
Authorize(c) ==
  /\ pc = "idle" /\ code[c] = "new"
  /\ code' = [code EXCEPT ![c] = "issued"]
  /\ UNCHANGED <<clock, client, fileVars, accessVars, next, handlerVars, known, history>>

(* _token_auth_code takes the code off the disk before it looks at PKCE; an  *)
(* expired code, a wrong client or redirect_uri and a failed PKCE end there, *)
(* as the cleanup ends a code that expired.                                  *)
RefuseCode(c) ==
  /\ pc = "idle" /\ code[c] = "issued"
  /\ code' = [code EXCEPT ![c] = "gone"]
  /\ UNCHANGED <<clock, client, fileVars, accessVars, next, handlerVars, known, history>>

(* Mutant: the code is only taken off the disk once the tokens are out.      *)
RedeemKeepingCode(c) ==
  /\ pc = "idle" /\ code[c] = "issued" /\ next <= MaxIssue
  /\ pc' = "grantAccess" /\ under' = c
  /\ UNCHANGED <<clock, codeVars, fileVars, accessVars, next, base, value, victims, known,
                 history>>

RedeemCode(c) ==
  /\ pc = "idle" /\ code[c] = "issued" /\ next <= MaxIssue
  /\ code' = [code EXCEPT ![c] = "gone"]
  /\ pc' = "grantAccess" /\ under' = c
  /\ UNCHANGED <<clock, client, fileVars, accessVars, next, base, value, victims,
                 known, history>>

GrantAccess ==
  /\ pc = "grantAccess"
  /\ WriteAccess
  /\ pc' = "grantRefresh"
  /\ UNCHANGED <<clock, codeVars, fileVars, under, base, value, victims, known, history>>

(* Mutant: only the sessions of the same client are retired.                 *)
PreviousOfClient(keep) ==
  {t \in Heads \ {keep} : client[grant[t]] = client[under]}

(* _revoke_previous_sessions: the heads of the same client, and of the rest  *)
(* the oldest that leave no room for the new one.                            *)
Previous(keep) ==
  LET others == Heads \ {keep}
      same == {t \in others : client[grant[t]] = client[under]}
      rest == others \ same
  IN same \cup {t \in rest : Cardinality({u \in rest : u > t}) >= MaxSessions - 1}

(* The refresh token is on disk; the directory is read once for the sessions *)
(* that have to go.                                                          *)
GrantRefresh ==
  /\ pc = "grantRefresh"
  /\ WriteRefresh(clock + Life)
  /\ firstEnd' = [firstEnd EXCEPT ![under] = clock + Life]
  /\ spent' = [spent EXCEPT ![under] = @ + 1]
  /\ pc' = "answer" /\ value' = Issue /\ victims' = Previous(Issue)
  /\ UNCHANGED <<clock, codeVars, accessVars, next, under, base, known, sent, ended, closed,
                 broken>>

(* Each session goes in two steps: its access token, then its file.          *)
EvictAccess(t) ==
  /\ t \in victims /\ access[t] \in live
  /\ live' = live \ {access[t]}
  /\ ended' = ended \cup {grant[u] : u \in {t} \cap sent}
  /\ UNCHANGED <<clock, codeVars, fileVars, grant, next, handlerVars, known, sent, firstEnd,
                 spent, closed, broken>>

EvictFile(t) ==
  /\ t \in victims /\ access[t] \notin live
  /\ Erase(t)
  /\ victims' = victims \ {t}
  /\ ended' = ended \cup {grant[u] : u \in {t} \cap sent}
  /\ closed' = Close({t} \cap sent)
  /\ UNCHANGED <<clock, codeVars, accessVars, next, pc, under, base, value, known, sent,
                 firstEnd, spent, broken>>

-------------------------------------------------------------------------------
(* _token_refresh                                                            *)

(* A refresh token whose time is up is unlinked.                             *)
PresentExpired(t) ==
  /\ pc = "idle" /\ t \in known /\ Head(t) /\ clock > end[t]
  /\ Erase(t)
  /\ UNCHANGED <<clock, codeVars, accessVars, next, handlerVars, known, history>>

(* The head of a chain is rotated.                                           *)
Present(t) ==
  /\ pc = "idle" /\ t \in known /\ Head(t) /\ clock <= end[t] /\ next <= MaxIssue
  /\ pc' = "dropAccess" /\ under' = grant[t] /\ base' = t
  /\ UNCHANGED <<clock, codeVars, fileVars, accessVars, next, value, victims, known, history>>

(* A rotated token whose successor is the head of the chain is, for Grace, a *)
(* retry: it opens the sealed successor.                                     *)
Retry(t) ==
  /\ type[t] = "refresh_rotated" /\ clock - rotated[t] <= Grace
  /\ succ[t] # None /\ Head(succ[t])

Replay(t) ==
  /\ pc = "idle" /\ t \in known /\ Retry(t) /\ next <= MaxIssue
  /\ pc' = "dropAccess" /\ under' = grant[t] /\ base' = succ[t] /\ value' = succ[t]
  /\ UNCHANGED <<clock, codeVars, fileVars, accessVars, next, victims, known, history>>

(* Otherwise there are two copies of it, and the chain goes.                 *)
Reuse(t) ==
  /\ pc = "idle" /\ t \in known /\ type[t] = "refresh_rotated" /\ ~Retry(t)
  /\ pc' = "revoke" /\ under' = grant[t] /\ base' = t
  /\ ended' = ended \cup {grant[t]}
  /\ UNCHANGED <<clock, codeVars, fileVars, accessVars, next, value, victims, known, sent,
                 firstEnd, spent, closed, broken>>

-------------------------------------------------------------------------------
(* _issue_from_refresh: `value` is set for a retry, not for a rotation.      *)

(* Mutant: the access token of before stays.                                 *)
DropNothing ==
  /\ pc = "dropAccess"
  /\ pc' = "newAccess"
  /\ UNCHANGED <<clock, codeVars, fileVars, accessVars, next, under, base, value, victims, known,
                 history>>

DropAccess ==
  /\ pc = "dropAccess"
  /\ live' = live \ {access[base]}
  /\ pc' = "newAccess"
  /\ UNCHANGED <<clock, codeVars, fileVars, grant, next, under, base, value, victims, known,
                 history>>

NewAccess ==
  /\ pc = "newAccess"
  /\ WriteAccess
  /\ pc' = IF value # None THEN "keep" ELSE "newRefresh"
  /\ UNCHANGED <<clock, codeVars, fileVars, under, base, value, victims, known, history>>

KeepHead ==
  /\ pc = "keep"
  /\ access' = [access EXCEPT ![base] = Issue]
  /\ pc' = "answer"
  /\ UNCHANGED <<clock, codeVars, type, grant, end, succ, rotated, live, next, under, base,
                 value, victims, known, history>>

(* Mutant: a rotation starts the lifetime anew.                              *)
NewRefreshStretched ==
  /\ pc = "newRefresh"
  /\ WriteRefresh(clock + Life)
  /\ pc' = "mark"
  /\ UNCHANGED <<clock, codeVars, accessVars, next, under, base, value, victims, known, history>>

NewRefresh ==
  /\ pc = "newRefresh"
  /\ WriteRefresh(end[base])
  /\ pc' = "mark"
  /\ UNCHANGED <<clock, codeVars, accessVars, next, under, base, value, victims, known, history>>

(* Mutant: the rotated file does not say what it was rotated into.           *)
MarkWithoutSuccessor ==
  /\ pc = "mark"
  /\ type' = [type EXCEPT ![base] = "refresh_rotated"]
  /\ rotated' = [rotated EXCEPT ![base] = clock]
  /\ access' = [access EXCEPT ![base] = None]
  /\ value' = Issue /\ pc' = "answer"
  /\ sent' = sent \cup {Issue}
  /\ UNCHANGED <<clock, codeVars, grant, end, succ, live, next, under, base, victims, known,
                 firstEnd, spent, ended, closed, broken>>

(* Mutant: rotated_at lies ahead of the clock.                               *)
MarkAhead ==
  /\ pc = "mark"
  /\ type' = [type EXCEPT ![base] = "refresh_rotated"]
  /\ rotated' = [rotated EXCEPT ![base] = clock + 1]
  /\ succ' = [succ EXCEPT ![base] = Issue]
  /\ access' = [access EXCEPT ![base] = None]
  /\ value' = Issue /\ pc' = "answer"
  /\ sent' = sent \cup {Issue}
  /\ UNCHANGED <<clock, codeVars, grant, end, live, next, under, base, victims, known,
                 firstEnd, spent, ended, closed, broken>>

MarkRotated ==
  /\ pc = "mark"
  /\ type' = [type EXCEPT ![base] = "refresh_rotated"]
  /\ rotated' = [rotated EXCEPT ![base] = clock]
  /\ succ' = [succ EXCEPT ![base] = Issue]
  /\ access' = [access EXCEPT ![base] = None]
  /\ value' = Issue /\ pc' = "answer"
  /\ sent' = sent \cup {Issue}
  /\ UNCHANGED <<clock, codeVars, grant, end, live, next, under, base, victims, known,
                 firstEnd, spent, ended, closed, broken>>

(* The answer leaves, and arrives or is lost.                                *)
Answer(arrives) ==
  /\ pc = "answer" /\ victims = {}
  /\ known' = IF arrives THEN known \cup {value} ELSE known
  /\ sent' = sent \cup {Issue, value}
  /\ Finish
  /\ UNCHANGED <<clock, codeVars, fileVars, accessVars, next, firstEnd, spent, ended, closed,
                 broken>>

-------------------------------------------------------------------------------
(* revoke, for a refresh token, and _revoke_token_chain.                     *)
Revoke(t) ==
  /\ pc = "idle" /\ t \in known /\ type[t] # "absent"
  /\ pc' = "revoke" /\ under' = grant[t] /\ base' = t
  /\ ended' = ended \cup {grant[t]}
  /\ UNCHANGED <<clock, codeVars, fileVars, accessVars, next, value, victims, known, sent,
                 firstEnd, spent, closed, broken>>

RevokeAccess ==
  /\ pc = "revoke" /\ access[base] \in live
  /\ live' = live \ {access[base]}
  /\ UNCHANGED <<clock, codeVars, fileVars, grant, next, handlerVars, known, history>>

(* Mutant: only the file of the token itself goes, as it did once.           *)
RevokeOneFile ==
  /\ pc = "revoke" /\ access[base] \notin live
  /\ Erase(base)
  /\ Finish /\ closed' = Close({base})
  /\ UNCHANGED <<clock, codeVars, accessVars, next, known, sent, firstEnd, spent, ended, broken>>

RevokeFile ==
  /\ pc = "revoke" /\ access[base] \notin live
  /\ Erase(base)
  /\ IF succ[base] # None /\ type[succ[base]] # "absent"
     THEN base' = succ[base] /\ UNCHANGED <<pc, under, value, victims, closed>>
     ELSE Finish /\ closed' = Close({base})
  /\ UNCHANGED <<clock, codeVars, accessVars, next, known, sent, firstEnd, spent, ended, broken>>

-------------------------------------------------------------------------------
(* An access token ends by its own expiry (validate_token, the cleanup) or   *)
(* by revoke.                                                                *)
AccessEnds(a) ==
  /\ pc = "idle" /\ a \in live
  /\ live' = live \ {a}
  /\ UNCHANGED <<clock, codeVars, fileVars, grant, next, handlerVars, known, history>>

(* _cleanup_expired, at boot and hourly; a crash may cut it short.           *)
Cleanup(S) ==
  /\ pc = "idle" /\ S # {}
  /\ \A t \in S : type[t] # "absent" /\ clock > end[t]
  /\ type' = [t \in Token |-> IF t \in S THEN "absent" ELSE type[t]]
  /\ access' = [t \in Token |-> IF t \in S THEN None ELSE access[t]]
  /\ succ' = [t \in Token |-> IF t \in S THEN None ELSE succ[t]]
  /\ rotated' = [t \in Token |-> IF t \in S THEN 0 ELSE rotated[t]]
  /\ UNCHANGED <<clock, codeVars, grant, end, live, next, handlerVars, known, history>>

(* The process dies or the next write raises: what is on disk stays.         *)
Abort ==
  /\ pc # "idle"
  /\ Finish
  /\ broken' = IF pc = "revoke" THEN broken \cup {under}
               ELSE broken \cup ({grant[t] : t \in victims} \cap ended)
  /\ UNCHANGED <<clock, codeVars, fileVars, accessVars, next, known, sent, firstEnd, spent,
                 ended, closed>>

Tick ==
  /\ pc = "idle" /\ clock < MaxClock
  /\ clock' = clock + 1
  /\ UNCHANGED <<codeVars, fileVars, accessVars, next, handlerVars, known, history>>

-------------------------------------------------------------------------------
Next ==
  \/ \E c \in Code : Authorize(c) \/ RefuseCode(c) \/ RedeemCode(c)
  \/ GrantAccess \/ GrantRefresh
  \/ \E t \in Token : EvictAccess(t) \/ EvictFile(t)
  \/ \E t \in Token : PresentExpired(t) \/ Present(t) \/ Replay(t) \/ Reuse(t) \/ Revoke(t)
  \/ DropAccess \/ NewAccess \/ KeepHead \/ NewRefresh \/ MarkRotated
  \/ \E arrives \in BOOLEAN : Answer(arrives)
  \/ RevokeAccess \/ RevokeFile
  \/ \E a \in Token : AccessEnds(a)
  \/ \E S \in SUBSET Token : Cleanup(S)
  \/ Abort \/ Tick

Spec == Init /\ [][Next]_vars

-------------------------------------------------------------------------------
(* Properties.                                                               *)

(* "Solo debe haber uno vivo" (oauth.py 1067): of the access tokens that left*)
(* the process under one authorization at most one is alive, however many    *)
(* retries, rotations, lost answers and crashes there were.                  *)
OneLiveAccess ==
  \A a, b \in live \cap sent : grant[a] = grant[b] => a = b

(* MAX_ACTIVE_SESSIONS bounds the sessions somebody can hold, and a session  *)
(* has one refresh token to go on with (oauth.py 256-260, 288-306).          *)
SessionsBounded ==
  /\ Cardinality(Heads \cap sent) <= MaxSessions
  /\ \A t, u \in Heads \cap sent : grant[t] = grant[u] => t = u

(* A session that was neither revoked, nor evicted, nor is over, goes on: of *)
(* the tokens its holder has, one is the head or was rotated into the head,  *)
(* so that a retry gets it.  No crash and no lost answer strands a holder    *)
(* (oauth.py 250-253, 1057-1063).                                            *)
SessionSurvives ==
  \A t \in known :
    grant[t] \in ended \/ clock > firstEnd[grant[t]]
      \/ \E u \in known : grant[u] = grant[t] /\ (Head(u) \/ (succ[u] # None /\ Head(succ[u])))

(* After a revocation, a detected reuse or an eviction that went through,    *)
(* nothing that was issued under the authorization works any more, whichever *)
(* link of the chain was presented (oauth.py 263-285, 1146-1152).  Once the  *)
(* authorization ran out its links go one by one, and an access token may be *)
(* out of a revocation's reach until it expires itself.                      *)
RevokedIsGone ==
  \A c \in closed \ broken :
    ~\E t \in sent : (Head(t) /\ grant[t] = c) \/ (t \in live /\ grant[t] = c)

(* A code opens at most one session (oauth.py 906-908).                      *)
CodeOnce == \A c \in Code : spent[c] <= 1

(* A session ends when its authorization does: rotation does not stretch it  *)
(* (oauth.py 1099-1101).                                                     *)
ExpiryKept == \A t \in Token : type[t] # "absent" => end[t] = firstEnd[grant[t]]
===============================================================================
