--------------------------- MODULE OAuthTokensProofs ---------------------------
(***************************************************************************)
(* What holds of authorizations and their chains of refresh tokens for any *)
(* number of codes, clients, issues and sessions, any lifetimes and grace, *)
(* and a crash between any two disk operations.                            *)
(***************************************************************************)
EXTENDS OAuthTokens, FiniteSetTheorems, WellFoundedInduction, NaturalsInduction, TLAPS

OnDisk(t) == type[t] # "absent"
Chain(t) == pc = "revoke" /\ under = grant[t]      \* the chain of t is being revoked

(* A code that is still there has opened nothing.                            *)
CodeInv ==
  /\ \A c \in Code : spent[c] \in {0, 1} /\ (code[c] # "gone" => spent[c] = 0)
  /\ closed \subseteq {c \in Code : spent[c] = 1}

(* What was not issued yet is nowhere; what was is of a code that was spent. *)
IssueInv ==
  /\ known \subseteq sent
  /\ \A t \in Token :
       /\ t >= next => type[t] = "absent" /\ t \notin live /\ t \notin sent
       /\ OnDisk(t) \/ t \in sent => grant[t] \in Code /\ spent[grant[t]] = 1
       /\ access[t] < next

(* A link leads to a later token of the same authorization.                  *)
LinkInv ==
  \A t \in Token : succ[t] # None =>
    OnDisk(t) /\ succ[t] \in sent /\ succ[t] > t /\ grant[succ[t]] = grant[t]

(* Of what left the process, an authorization has one head, and no living    *)
(* access token but that head's.                                             *)
HeadInv ==
  /\ \A t, u \in Heads \cap sent : grant[t] = grant[u] => t = u
  /\ \A t \in Heads \cap sent, a \in live \cap sent : grant[t] = grant[a] => access[t] = a

(* While an authorization is neither over nor ended nor was left half ended, *)
(* every rotated link leads on: all of them, or the ones a revocation has    *)
(* yet to reach.                                                             *)
ChainInv ==
  \A t \in sent :
    /\ type[t] = "refresh_rotated"
    /\ grant[t] \notin closed \cup broken
    /\ clock <= firstEnd[grant[t]]
    /\ Chain(t) => t >= base
    => succ[t] # None /\ OnDisk(succ[t])

Redeems   == pc \in {"grantAccess", "grantRefresh"}
Refreshes == pc \in {"dropAccess", "newAccess", "keep", "newRefresh", "mark"}
Issued    == pc \in {"grantRefresh", "keep", "newRefresh", "mark"}

(* What a handler knows between two of its disk operations.                  *)
HandlerInv ==
  /\ victims # {} => pc = "answer"
  /\ pc = "idle" => value = None
  /\ pc \in {"grantAccess", "dropAccess", "newAccess"} => next <= MaxIssue
  /\ Redeems => under \in Code /\ code[under] = "gone" /\ spent[under] = 0
  /\ Refreshes => /\ base \in sent /\ Head(base) /\ grant[base] = under
                  /\ value = None => base \in known
                  /\ value # None => value = base
  /\ Issued => /\ next > 1 /\ grant[Issue] = under /\ Issue \notin sent
               /\ pc # "mark" => type[Issue] = "absent"
  /\ pc \in {"newAccess", "keep", "newRefresh", "mark"} => access[base] \notin live
  /\ pc = "keep" => value # None
  /\ pc \in {"newRefresh", "mark"} => value = None
  /\ pc = "mark" => Head(Issue) /\ access[Issue] = Issue
  /\ pc = "revoke" => /\ base \in sent /\ OnDisk(base) /\ grant[base] = under
                      /\ under \in ended

(* What is about to be answered is the one head and the one access token of  *)
(* its authorization, and no victim is of it; a new session has its place.   *)
AnswerInv ==
  pc = "answer" =>
    /\ next > 1 /\ grant[Issue] = under /\ under \notin closed \ broken
    /\ type[Issue] # "refresh_rotated"
    /\ value \in Token /\ value \in sent \cup {Issue}
    /\ Head(value) /\ grant[value] = under /\ access[value] = Issue
    /\ \A a \in live \cap sent : grant[a] = under => a = Issue
    /\ \A t \in Heads \cap (sent \cup {Issue}) : grant[t] = under => t = value
    /\ \A t \in victims : Head(t) /\ grant[t] # under
    /\ value \notin sent => Cardinality((Heads \cap sent) \ victims) <= MaxSessions - 1

IInv ==
  /\ TypeOK /\ CodeInv /\ IssueInv /\ LinkInv /\ HeadInv /\ ChainInv /\ HandlerInv /\ AnswerInv
  /\ ExpiryKept /\ OneLiveAccess /\ SessionsBounded /\ SessionSurvives /\ RevokedIsGone

-------------------------------------------------------------------------------
LEMMA TokenFacts ==
  ASSUME TypeOK
  PROVE  /\ next \in Nat /\ MaxIssue \in Nat /\ MaxClock \in Nat /\ Life \in Nat
         /\ next > 1 => Issue \in Token /\ Issue < next
         /\ next <= MaxIssue => next \in Token /\ next + 1 \in 1 .. MaxIssue + 1
         /\ \A t \in Token : t \in Nat /\ t # None
         /\ None \notin live /\ None \notin Token
  BY OAuthAssumption DEF TypeOK, Token, Issue, None

(* What the file operations leave of the other tokens.                       *)
LEMMA EraseTyped ==
  ASSUME TypeOK, NEW t, Erase(t)
  PROVE  /\ type' \in [Token -> {"absent", "refresh", "refresh_rotated"}]
         /\ end' \in [Token -> Nat]
         /\ access' \in [Token -> Token \cup {None}] /\ succ' \in [Token -> Token \cup {None}]
         /\ rotated' \in [Token -> 0 .. MaxClock]
  <1>1. 0 \in 0 .. MaxClock
    BY OAuthAssumption
  <1> QED
    BY <1>1 DEF TypeOK, Erase

LEMMA TypeStep == IInv /\ [Next]_vars => TypeOK'
<1> SUFFICES ASSUME IInv, [Next]_vars PROVE TypeOK'
  OBVIOUS
<1> USE DEF codeVars, fileVars, accessVars, handlerVars, history
<1>0. TypeOK /\ IssueInv /\ HandlerInv /\ AnswerInv /\ LinkInv
  BY DEF IInv
<1>f. /\ "idle" \in Steps /\ \A p \in {"grantAccess", "grantRefresh", "dropAccess", "newAccess",
                 "keep", "newRefresh", "mark", "answer", "revoke"} : p \in Steps
  BY DEF Steps
<1>1. ASSUME NEW c \in Code, Authorize(c) \/ RefuseCode(c) \/ RedeemCode(c) PROVE TypeOK'
  BY <1>0, <1>f, <1>1 DEF TypeOK, Authorize, RefuseCode, RedeemCode
<1>2. CASE GrantAccess \/ NewAccess
  <2>1. next \in Token /\ next + 1 \in 1 .. MaxIssue + 1
    BY <1>0, <1>2, TokenFacts DEF GrantAccess, NewAccess, HandlerInv
  <2> QED
    BY <1>0, <1>f, <1>2, <2>1 DEF TypeOK, GrantAccess, NewAccess, WriteAccess
<1>3. CASE GrantRefresh
  <2>1. Issue \in Token /\ under \in Code /\ Life \in Nat /\ clock + Life \in Nat
    BY <1>0, <1>3, TokenFacts DEF GrantRefresh, HandlerInv, Redeems, Issued, TypeOK
  <2>2. Previous(Issue) \in SUBSET Token
    BY DEF Previous, Heads
  <2> QED
    BY <1>0, <1>f, <1>3, <2>1, <2>2 DEF TypeOK, GrantRefresh, WriteRefresh
<1>4. ASSUME NEW t \in Token, EvictAccess(t) PROVE TypeOK'
  <2>1. {grant[u] : u \in {t} \cap sent} \subseteq Code
    BY <1>0 DEF IssueInv
  <2> QED
    BY <1>0, <1>4, <2>1 DEF TypeOK, EvictAccess
<1>5. ASSUME NEW t \in Token, EvictFile(t) PROVE TypeOK'
  <2>1. /\ {grant[u] : u \in {t} \cap sent} \subseteq Code
        /\ Close({t} \cap sent) \subseteq Code
    BY <1>0 DEF IssueInv, Close, TypeOK
  <2>2. Erase(t)
    BY <1>5 DEF EvictFile
  <2> QED
    BY <1>0, <1>5, <2>1, <2>2, EraseTyped DEF TypeOK, EvictFile
<1>6. ASSUME NEW t \in Token, PresentExpired(t) PROVE TypeOK'
  BY <1>0, <1>6, EraseTyped DEF TypeOK, PresentExpired
<1>7. ASSUME NEW t \in Token, Present(t) \/ Replay(t) PROVE TypeOK'
  <2>1. grant[t] \in Code \cup {NoCode} /\ succ[t] \in Token \cup {None}
    BY <1>0 DEF TypeOK
  <2> QED
    BY <1>0, <1>f, <1>7, <2>1 DEF TypeOK, Present, Replay
<1>8. ASSUME NEW t \in Token, Reuse(t) \/ Revoke(t) PROVE TypeOK'
  <2>1. grant[t] \in Code
    BY <1>0, <1>8 DEF IssueInv, Reuse, Revoke
  <2> QED
    BY <1>0, <1>f, <1>8, <2>1 DEF TypeOK, Reuse, Revoke
<1>9. CASE DropAccess \/ KeepHead \/ NewRefresh \/ MarkRotated
  <2>1. pc # "dropAccess" => Issue \in Token
    BY <1>0, <1>9, TokenFacts DEF DropAccess, KeepHead, NewRefresh, MarkRotated, HandlerInv, Issued
  <2>2. base \in Token /\ end[base] \in Nat
    BY <1>0, <1>9 DEF DropAccess, KeepHead, NewRefresh, MarkRotated, HandlerInv, Refreshes, TypeOK
  <2>3. CASE DropAccess
    BY <1>0, <1>f, <2>3 DEF TypeOK, DropAccess
  <2>4. CASE KeepHead
    BY <1>0, <1>f, <2>1, <2>2, <2>4 DEF TypeOK, KeepHead
  <2>5. CASE NewRefresh
    BY <1>0, <1>f, <2>1, <2>2, <2>5 DEF TypeOK, NewRefresh, WriteRefresh
  <2>6. CASE MarkRotated
    BY <1>0, <1>f, <2>1, <2>2, <2>6 DEF TypeOK, MarkRotated
  <2> QED
    BY <1>9, <2>3, <2>4, <2>5, <2>6
<1>10. ASSUME NEW arrives \in BOOLEAN, Answer(arrives) PROVE TypeOK'
  <2>1. Issue \in Token /\ value \in Token
    BY <1>0, <1>10, TokenFacts DEF Answer, AnswerInv
  <2> QED
    BY <1>0, <1>f, <1>10, <2>1 DEF TypeOK, Answer, Finish
<1>11. CASE RevokeAccess
  BY <1>0, <1>11 DEF TypeOK, RevokeAccess
<1>12. CASE RevokeFile
  <2>1. base \in Token /\ grant[base] \in Code
    BY <1>0, <1>12 DEF RevokeFile, HandlerInv, IssueInv, TypeOK
  <2>2. Close({base}) \subseteq Code /\ succ[base] \in Token \cup {None}
    BY <1>0, <2>1 DEF Close, TypeOK
  <2>3. Erase(base)
    BY <1>12 DEF RevokeFile
  <2> QED
    BY <1>0, <1>f, <1>12, <2>1, <2>2, <2>3, EraseTyped DEF TypeOK, RevokeFile, Finish
<1>13. ASSUME NEW a \in Token, AccessEnds(a) PROVE TypeOK'
  BY <1>0, <1>13 DEF TypeOK, AccessEnds
<1>14. ASSUME NEW S \in SUBSET Token, Cleanup(S) PROVE TypeOK'
  <2>1. 0 \in 0 .. MaxClock
    BY OAuthAssumption
  <2> QED
    BY <1>0, <1>14, <2>1 DEF TypeOK, Cleanup
<1>15. CASE Abort
  <2>1. pc = "revoke" => under \in Code
    BY <1>0 DEF HandlerInv, IssueInv, TypeOK
  <2>2. ended \subseteq Code /\ broken \subseteq Code
    BY <1>0 DEF TypeOK
  <2>3. broken' \subseteq Code
    BY <1>15, <2>1, <2>2 DEF Abort
  <2> QED
    BY <1>0, <1>f, <1>15, <2>3 DEF TypeOK, Abort, Finish
<1>16. CASE Tick
  <2>1. clock + 1 \in 0 .. MaxClock
    BY <1>0, <1>16, OAuthAssumption DEF Tick, TypeOK
  <2> QED
    BY <1>0, <1>16, <2>1 DEF TypeOK, Tick
<1>17. CASE UNCHANGED vars
  BY <1>0, <1>17 DEF TypeOK, vars
<1> QED
  BY <1>1, <1>2, <1>3, <1>4, <1>5, <1>6, <1>7, <1>8, <1>9, <1>10, <1>11, <1>12, <1>13, <1>14,
     <1>15, <1>16, <1>17 DEF Next

-------------------------------------------------------------------------------
(* The steps by what they do to the files.                                   *)

(* Nothing but access tokens that end, and the handler's own variables.      *)
QuietStep ==
  /\ UNCHANGED <<type, end, access, succ, grant, next, known, sent, firstEnd, spent, closed>>
  /\ live' \subseteq live
  /\ clock' \in {clock, clock + 1}
  /\ ended \subseteq ended' /\ broken \subseteq broken'
  /\ \A c \in Code : code[c] = "gone" => code'[c] = "gone"

(* The files of the refresh tokens S are unlinked.                           *)
EraseStep(S) ==
  /\ type' = [t \in Token |-> IF t \in S THEN "absent" ELSE type[t]]
  /\ access' = [t \in Token |-> IF t \in S THEN None ELSE access[t]]
  /\ succ' = [t \in Token |-> IF t \in S THEN None ELSE succ[t]]
  /\ UNCHANGED <<clock, codeVars, end, grant, live, next, known, sent, firstEnd, spent, broken>>
  /\ ended \subseteq ended' /\ closed \subseteq closed'

ErasesSome ==
  \/ \E t \in Token : EvictFile(t) \/ PresentExpired(t)
  \/ RevokeFile
  \/ \E S \in SUBSET Token : Cleanup(S)

LEMMA Erasing ==
  ASSUME TypeOK
  PROVE  /\ \A t : EvictFile(t) \/ PresentExpired(t) => EraseStep({t})
         /\ RevokeFile => EraseStep({base})
         /\ \A S : Cleanup(S) => EraseStep(S)
  <1>1. ASSUME NEW t, Erase(t)
        PROVE  /\ type' = [u \in Token |-> IF u \in {t} THEN "absent" ELSE type[u]]
               /\ access' = [u \in Token |-> IF u \in {t} THEN None ELSE access[u]]
               /\ succ' = [u \in Token |-> IF u \in {t} THEN None ELSE succ[u]]
               /\ end' = end
    BY <1>1 DEF TypeOK, Erase
  <1>2. ASSUME NEW t, EvictFile(t) PROVE EraseStep({t})
    BY <1>1, <1>2 DEF EvictFile, EraseStep, codeVars, accessVars, Close
  <1>3. ASSUME NEW t, PresentExpired(t) PROVE EraseStep({t})
    BY <1>1, <1>3 DEF PresentExpired, EraseStep, codeVars, accessVars, history
  <1>4. ASSUME RevokeFile PROVE EraseStep({base})
    BY <1>1, <1>4 DEF RevokeFile, EraseStep, codeVars, accessVars, Close
  <1>5. ASSUME NEW S, Cleanup(S) PROVE EraseStep(S)
    BY <1>5 DEF Cleanup, EraseStep, codeVars, history
  <1> QED
    BY <1>2, <1>3, <1>4, <1>5

LEMMA EraseFacts ==
  ASSUME NEW S, EraseStep(S)
  PROVE  \A t \in Token :
           IF t \in S
           THEN type'[t] = "absent" /\ access'[t] = None /\ succ'[t] = None
           ELSE type'[t] = type[t] /\ access'[t] = access[t] /\ succ'[t] = succ[t]
  BY DEF EraseStep

LEMMA FileSteps ==
  ASSUME TypeOK, [Next]_vars
  PROVE  \/ QuietStep
         \/ ErasesSome
         \/ GrantAccess \/ NewAccess
         \/ GrantRefresh \/ KeepHead \/ NewRefresh \/ MarkRotated
         \/ \E arrives \in BOOLEAN : Answer(arrives)
<1> USE DEF QuietStep, codeVars, fileVars, accessVars, handlerVars, history
<1>1. ASSUME NEW c \in Code, Authorize(c) \/ RefuseCode(c) \/ RedeemCode(c) PROVE QuietStep
  BY <1>1 DEF Authorize, RefuseCode, RedeemCode, TypeOK
<1>2. ASSUME NEW t \in Token, EvictAccess(t) PROVE QuietStep
  BY <1>2 DEF EvictAccess
<1>3. ASSUME NEW t \in Token, Present(t) \/ Replay(t) \/ Reuse(t) \/ Revoke(t) PROVE QuietStep
  BY <1>3 DEF Present, Replay, Reuse, Revoke
<1>4. CASE DropAccess \/ RevokeAccess
  BY <1>4 DEF DropAccess, RevokeAccess
<1>5. ASSUME NEW a \in Token, AccessEnds(a) PROVE QuietStep
  BY <1>5 DEF AccessEnds
<1>6. CASE Abort
  BY <1>6 DEF Abort
<1>7. CASE Tick
  BY <1>7 DEF Tick
<1>8. CASE UNCHANGED vars
  BY <1>8 DEF vars
<1> QED
  BY <1>1, <1>2, <1>3, <1>4, <1>5, <1>6, <1>7, <1>8 DEF Next, ErasesSome

-------------------------------------------------------------------------------
LEMMA CodeStep == IInv /\ TypeOK' /\ [Next]_vars => CodeInv'
<1> SUFFICES ASSUME IInv, TypeOK', [Next]_vars PROVE CodeInv'
  OBVIOUS
<1>0. TypeOK /\ CodeInv /\ IssueInv /\ HandlerInv /\ AnswerInv
  BY DEF IInv
<1> USE <1>0 DEF CodeInv
<1>1. CASE QuietStep
  BY <1>1 DEF QuietStep
<1>2. CASE ErasesSome
  <2>1. spent' = spent /\ code' = code
    BY <1>2, Erasing DEF ErasesSome, EraseStep, codeVars
  <2>2. closed' \subseteq closed \cup {c \in Code : spent[c] = 1}
    <3>1. ASSUME NEW t \in Token, EvictFile(t) PROVE closed' \subseteq closed \cup {c \in Code : spent[c] = 1}
      BY <3>1 DEF EvictFile, Close, IssueInv
    <3>2. CASE RevokeFile
      <4>1. base \in sent /\ base \in Token
        BY <3>2 DEF RevokeFile, HandlerInv, TypeOK
      <4> QED
        BY <3>2, <4>1 DEF RevokeFile, Close, IssueInv
    <3> QED
      BY <1>2, <3>1, <3>2 DEF ErasesSome, PresentExpired, Cleanup, history
  <2> QED
    BY <2>1, <2>2
<1>3. CASE GrantRefresh
  BY <1>3 DEF GrantRefresh, HandlerInv, Redeems, TypeOK, codeVars
<1>4. CASE GrantAccess \/ NewAccess \/ KeepHead \/ NewRefresh \/ MarkRotated
  BY <1>4 DEF GrantAccess, NewAccess, KeepHead, NewRefresh, MarkRotated, codeVars, history
<1>5. ASSUME NEW arrives \in BOOLEAN, Answer(arrives) PROVE CodeInv'
  BY <1>5 DEF Answer, codeVars
<1> QED
  BY <1>1, <1>2, <1>3, <1>4, <1>5, FileSteps

LEMMA IssueStep == IInv /\ TypeOK' /\ [Next]_vars => IssueInv'
<1> SUFFICES ASSUME IInv, TypeOK', [Next]_vars PROVE IssueInv'
  OBVIOUS
<1>0. TypeOK /\ IssueInv /\ HandlerInv /\ AnswerInv
  BY DEF IInv
<1> USE <1>0 DEF IssueInv, OnDisk, Head
<1>1. CASE QuietStep
  BY <1>1 DEF QuietStep
<1>2. CASE ErasesSome
  <2>1. PICK S : EraseStep(S)
    BY <1>2, Erasing DEF ErasesSome
  <2>2. None < next
    BY TokenFacts DEF None, TypeOK
  <2>3. UNCHANGED <<grant, live, next, known, sent, spent>>
    BY <2>1 DEF EraseStep
  <2> QED
    BY <2>1, <2>2, <2>3, EraseFacts
<1>3. CASE GrantAccess \/ NewAccess
  <2>1. next \in Token
    BY <1>3, TokenFacts DEF GrantAccess, NewAccess, HandlerInv
  <2>2. /\ live' = live \cup {next} /\ grant' = [grant EXCEPT ![next] = under] /\ next' = next + 1
        /\ UNCHANGED <<type, access, known, sent, spent>>
    BY <1>3 DEF GrantAccess, NewAccess, WriteAccess, fileVars, history
  <2>3. \A t \in Token : t >= next + 1 => t >= next /\ t # next
    BY TokenFacts
  <2>4. \A t \in Token : access[t] < next => access[t] < next + 1
    <3>1. \A t \in Token : access[t] \in Token \cup {None}
      BY DEF TypeOK
    <3>2. \A t \in Token : access[t] \in Nat
      BY <3>1, TokenFacts DEF None
    <3> QED
      BY <3>2, TokenFacts
  <2>5. next >= next
    BY TokenFacts
  <2>6. \A t \in Token : t # next => grant'[t] = grant[t]
    BY <2>2 DEF TypeOK
  <2> QED
    BY <2>1, <2>2, <2>3, <2>4, <2>5, <2>6
<1>4. CASE GrantRefresh
  <2>1. Issue \in Token /\ Issue < next /\ ~(Issue >= next)
    BY <1>4, TokenFacts DEF GrantRefresh, HandlerInv, Issued
  <2>2. /\ type' = [type EXCEPT ![Issue] = "refresh"] /\ access' = [access EXCEPT ![Issue] = Issue]
        /\ spent' = [spent EXCEPT ![under] = @ + 1]
        /\ UNCHANGED <<grant, live, next, known, sent>>
    BY <1>4 DEF GrantRefresh, WriteRefresh, accessVars
  <2>3. under \in Code /\ spent[under] = 0 /\ grant[Issue] = under
    BY <1>4 DEF GrantRefresh, HandlerInv, Redeems, Issued
  <2> QED
    BY <2>1, <2>2, <2>3 DEF TypeOK
<1>5. CASE KeepHead
  <2>1. Issue < next
    BY <1>5, TokenFacts DEF KeepHead, HandlerInv, Issued
  <2> QED
    BY <1>5, <2>1 DEF KeepHead, TypeOK, history
<1>6. CASE NewRefresh \/ MarkRotated
  <2>1. Issue \in Token /\ Issue < next /\ ~(Issue >= next) /\ None < next
    BY <1>6, TokenFacts DEF NewRefresh, MarkRotated, HandlerInv, Issued, None, TypeOK
  <2>2. /\ base \in sent /\ Head(base) /\ grant[base] = under /\ grant[Issue] = under
        /\ base \in Token
    BY <1>6 DEF NewRefresh, MarkRotated, HandlerInv, Issued, Refreshes, TypeOK
  <2>3. grant[base] \in Code /\ spent[grant[base]] = 1 /\ ~(base >= next)
    BY <2>2
  <2>4. CASE NewRefresh
    BY <2>1, <2>2, <2>3, <2>4 DEF NewRefresh, WriteRefresh, accessVars, history, TypeOK
  <2>5. CASE MarkRotated
    BY <2>1, <2>2, <2>3, <2>5 DEF MarkRotated, TypeOK
  <2> QED
    BY <1>6, <2>4, <2>5
<1>7. ASSUME NEW arrives \in BOOLEAN, Answer(arrives) PROVE IssueInv'
  <2>1. Issue \in Token /\ ~(Issue >= next) /\ value \in Token /\ OnDisk(value)
    BY <1>7, TokenFacts DEF Answer, AnswerInv
  <2>2. ~(value >= next) /\ grant[Issue] = grant[value] /\ grant[value] \in Code
        /\ spent[grant[value]] = 1
    BY <1>7, <2>1 DEF Answer, AnswerInv
  <2>3. /\ known' \subseteq known \cup {value} /\ sent' = sent \cup {Issue, value}
        /\ UNCHANGED <<type, access, grant, live, next, spent>>
    BY <1>7 DEF Answer, fileVars, accessVars
  <2> QED
    BY <2>1, <2>2, <2>3
<1> QED
  BY <1>1, <1>2, <1>3, <1>4, <1>5, <1>6, <1>7, FileSteps

LEMMA LinkStep == IInv /\ TypeOK' /\ [Next]_vars => LinkInv'
<1> SUFFICES ASSUME IInv, TypeOK', [Next]_vars PROVE LinkInv'
  OBVIOUS
<1>0. TypeOK /\ IssueInv /\ LinkInv /\ HandlerInv
  BY DEF IInv
<1> USE <1>0 DEF LinkInv, OnDisk
<1>1. CASE QuietStep
  BY <1>1 DEF QuietStep
<1>2. CASE ErasesSome
  <2>1. PICK S : EraseStep(S)
    BY <1>2, Erasing DEF ErasesSome
  <2>2. UNCHANGED <<grant, sent>>
    BY <2>1 DEF EraseStep
  <2> QED
    BY <2>1, <2>2, EraseFacts
<1>3. CASE GrantAccess \/ NewAccess
  <2>1. next \in Token
    BY <1>3, TokenFacts DEF GrantAccess, NewAccess, HandlerInv
  <2>2. /\ grant' = [grant EXCEPT ![next] = under]
        /\ UNCHANGED <<type, succ, sent>>
    BY <1>3 DEF GrantAccess, NewAccess, WriteAccess, fileVars, history
  <2>3. next >= next
    BY TokenFacts
  <2>4. type[next] = "absent" /\ next \notin sent
    BY <2>1, <2>3 DEF IssueInv
  <2>5. \A t \in Token : t # next => grant'[t] = grant[t]
    BY <2>2 DEF TypeOK
  <2>6. \A t \in Token : succ[t] # None => succ[t] \in Token
    BY DEF TypeOK
  <2> QED
    BY <2>1, <2>2, <2>4, <2>5, <2>6
<1>4. CASE GrantRefresh \/ NewRefresh \/ KeepHead
  <2>1. UNCHANGED <<succ, grant, sent>> /\ \A t \in Token : OnDisk(t) => OnDisk(t)'
    BY <1>4 DEF GrantRefresh, NewRefresh, KeepHead, WriteRefresh, accessVars, history, TypeOK
  <2> QED
    BY <2>1
<1>5. CASE MarkRotated
  <2>1. /\ base \in sent /\ base \in Token /\ Head(base) /\ grant[base] = under
        /\ grant[Issue] = under /\ Issue \in Token /\ Issue \notin sent
    BY <1>5, TokenFacts DEF MarkRotated, HandlerInv, Issued, Refreshes, TypeOK
  <2>2. Issue > base
    <3>1. base < next /\ base # Issue
      BY <2>1, TokenFacts DEF IssueInv
    <3> QED
      BY <2>1, <3>1, TokenFacts DEF Issue
  <2>3. /\ succ' = [succ EXCEPT ![base] = Issue]
        /\ type' = [type EXCEPT ![base] = "refresh_rotated"]
        /\ sent' = sent \cup {Issue} /\ grant' = grant
    BY <1>5 DEF MarkRotated
  <2> QED
    BY <2>1, <2>2, <2>3 DEF TypeOK
<1>6. ASSUME NEW arrives \in BOOLEAN, Answer(arrives) PROVE LinkInv'
  BY <1>6 DEF Answer, fileVars, accessVars
<1> QED
  BY <1>1, <1>2, <1>3, <1>4, <1>5, <1>6, FileSteps

(* A session ends when its authorization does.                               *)
LEMMA ExpiryStep == IInv /\ TypeOK' /\ [Next]_vars => ExpiryKept'
<1> SUFFICES ASSUME IInv, TypeOK', [Next]_vars PROVE ExpiryKept'
  OBVIOUS
<1>0. TypeOK /\ IssueInv /\ HandlerInv /\ ExpiryKept
  BY DEF IInv
<1> USE <1>0 DEF ExpiryKept
<1>1. CASE QuietStep
  BY <1>1 DEF QuietStep
<1>2. CASE ErasesSome
  <2>1. PICK S : EraseStep(S)
    BY <1>2, Erasing DEF ErasesSome
  <2>2. UNCHANGED <<grant, end, firstEnd>>
    BY <2>1 DEF EraseStep
  <2> QED
    BY <2>1, <2>2, EraseFacts
<1>3. CASE GrantAccess \/ NewAccess
  <2>1. next \in Token
    BY <1>3, TokenFacts DEF GrantAccess, NewAccess, HandlerInv
  <2>2. /\ grant' = [grant EXCEPT ![next] = under]
        /\ UNCHANGED <<type, end, firstEnd>>
    BY <1>3 DEF GrantAccess, NewAccess, WriteAccess, fileVars, history
  <2>3. next >= next
    BY TokenFacts
  <2>4. type[next] = "absent"
    BY <2>1, <2>3 DEF IssueInv
  <2> QED
    BY <2>1, <2>2, <2>4 DEF TypeOK
<1>4. CASE GrantRefresh
  <2>1. /\ Issue \in Token /\ under \in Code /\ spent[under] = 0 /\ grant[Issue] = under
    BY <1>4, TokenFacts DEF GrantRefresh, HandlerInv, Redeems, Issued
  <2>2. \A t \in Token : type[t] # "absent" => grant[t] # under
    BY <2>1 DEF IssueInv, OnDisk
  <2>3. /\ type' = [type EXCEPT ![Issue] = "refresh"]
        /\ end' = [end EXCEPT ![Issue] = clock + Life]
        /\ firstEnd' = [firstEnd EXCEPT ![under] = clock + Life]
        /\ grant' = grant
    BY <1>4 DEF GrantRefresh, WriteRefresh, accessVars
  <2>4. \A t \in Token : type[t] # "absent" => firstEnd'[grant[t]] = firstEnd[grant[t]]
    BY <2>2, <2>3 DEF TypeOK, IssueInv, OnDisk
  <2> QED
    BY <2>1, <2>3, <2>4 DEF TypeOK
<1>5. CASE NewRefresh
  <2>1. /\ Issue \in Token /\ base \in Token /\ Head(base) /\ grant[base] = grant[Issue]
    BY <1>5, TokenFacts DEF NewRefresh, HandlerInv, Refreshes, Issued, TypeOK
  <2> QED
    BY <1>5, <2>1 DEF NewRefresh, WriteRefresh, Head, accessVars, history, TypeOK
<1>6. CASE KeepHead \/ MarkRotated
  <2>1. UNCHANGED <<end, grant, firstEnd>>
    BY <1>6 DEF KeepHead, MarkRotated, history
  <2>2. \A t \in Token : type'[t] = "absent" \/ type[t] # "absent"
    BY <1>6 DEF KeepHead, MarkRotated, HandlerInv, Refreshes, Head, TypeOK
  <2> QED
    BY <2>1, <2>2
<1>7. ASSUME NEW arrives \in BOOLEAN, Answer(arrives) PROVE ExpiryKept'
  BY <1>7 DEF Answer, fileVars, accessVars
<1> QED
  BY <1>1, <1>2, <1>3, <1>4, <1>5, <1>6, <1>7, FileSteps

-------------------------------------------------------------------------------
LEMMA HandlerStep == IInv /\ TypeOK' /\ [Next]_vars => HandlerInv'
<1> SUFFICES ASSUME IInv, TypeOK', [Next]_vars PROVE HandlerInv'
  OBVIOUS
<1>0. TypeOK /\ CodeInv /\ IssueInv /\ LinkInv /\ HandlerInv /\ AnswerInv
  BY DEF IInv
<1> USE DEF Redeems, Refreshes, Issued, codeVars, fileVars, accessVars, handlerVars, history
<1>1. ASSUME pc' = "idle", value' = None, victims' = {} PROVE HandlerInv'
  BY <1>1 DEF HandlerInv
<1>2. pc = "idle" => value = None /\ victims = {}
  BY <1>0 DEF HandlerInv
<1>3. ASSUME NEW c \in Code, Authorize(c) \/ RefuseCode(c) PROVE HandlerInv'
  BY <1>1, <1>2, <1>3 DEF Authorize, RefuseCode
<1>4. ASSUME NEW c \in Code, RedeemCode(c) PROVE HandlerInv'
  <2>1. /\ pc' = "grantAccess" /\ under' = c /\ code'[c] = "gone" /\ spent' = spent
        /\ next' = next /\ next <= MaxIssue /\ victims' = {}
    BY <1>0, <1>2, <1>4 DEF RedeemCode, TypeOK
  <2>2. spent[c] = 0
    BY <1>0, <1>4 DEF RedeemCode, CodeInv
  <2> QED
    BY <2>1, <2>2 DEF HandlerInv
<1>5. CASE GrantAccess \/ NewAccess
  <2>1. next \in Token /\ next > 0 /\ next + 1 > 1 /\ (next + 1) - 1 = next /\ next >= next
    BY <1>0, <1>5, TokenFacts DEF GrantAccess, NewAccess, HandlerInv, Token
  <2>2. /\ live' = live \cup {next} /\ grant' = [grant EXCEPT ![next] = under]
        /\ next' = next + 1
        /\ UNCHANGED <<code, type, access, known, sent, spent, under, base, value, victims>>
    BY <1>5 DEF GrantAccess, NewAccess, WriteAccess
  <2>3. Issue' = next /\ grant'[next] = under /\ next \notin sent /\ type[next] = "absent"
    BY <1>0, <2>1, <2>2 DEF Issue, TypeOK, IssueInv
  <2>4. CASE GrantAccess
    BY <1>0, <2>1, <2>2, <2>3, <2>4 DEF GrantAccess, HandlerInv
  <2>5. CASE NewAccess
    <3>1. /\ base \in sent /\ Head(base) /\ grant[base] = under /\ base \in Token
          /\ value = None => base \in known
          /\ value # None => value = base
          /\ access[base] \notin live /\ victims = {}
      BY <1>0, <2>5 DEF NewAccess, HandlerInv, TypeOK
    <3>2. base # next /\ access[base] # next
      <4>1. base < next /\ access[base] < next
        BY <1>0, <3>1, TokenFacts DEF IssueInv
      <4> QED
        BY <4>1, TokenFacts, <1>0
    <3>3. grant'[base] = under
      BY <1>0, <2>2, <3>1, <3>2 DEF TypeOK
    <3>4. pc' = IF value # None THEN "keep" ELSE "newRefresh"
      BY <2>5 DEF NewAccess
    <3>5. access'[base'] \notin live' /\ Head(base)'
      BY <2>2, <3>1, <3>2 DEF Head
    <3> QED
      BY <2>1, <2>2, <2>3, <3>1, <3>3, <3>4, <3>5 DEF HandlerInv
  <2> QED
    BY <1>5, <2>4, <2>5
<1>6. CASE GrantRefresh \/ KeepHead \/ MarkRotated
  <2>1. pc' = "answer"
    BY <1>6 DEF GrantRefresh, KeepHead, MarkRotated
  <2> QED
    BY <2>1 DEF HandlerInv
<1>7. ASSUME NEW t \in Token, EvictAccess(t) \/ EvictFile(t) PROVE HandlerInv'
  <2>1. pc' = "answer"
    BY <1>0, <1>7 DEF EvictAccess, EvictFile, HandlerInv
  <2> QED
    BY <2>1 DEF HandlerInv
<1>8. ASSUME NEW t \in Token, PresentExpired(t) PROVE HandlerInv'
  BY <1>1, <1>2, <1>8 DEF PresentExpired
<1>9. ASSUME NEW t \in Token, Present(t) PROVE HandlerInv'
  <2>1. t \in sent
    BY <1>0, <1>9 DEF Present, IssueInv
  <2> QED
    BY <1>2, <1>9, <2>1 DEF Present, HandlerInv, Head
<1>10. ASSUME NEW t \in Token, Replay(t) PROVE HandlerInv'
  <2>1. succ[t] # None /\ Head(succ[t]) /\ succ[t] \in sent /\ grant[succ[t]] = grant[t]
    BY <1>0, <1>10 DEF Replay, Retry, LinkInv
  <2> QED
    BY <1>2, <1>10, <2>1 DEF Replay, HandlerInv, Head
<1>11. ASSUME NEW t \in Token, Reuse(t) \/ Revoke(t) PROVE HandlerInv'
  <2>1. t \in sent /\ OnDisk(t)
    BY <1>0, <1>11 DEF Reuse, Revoke, IssueInv, OnDisk
  <2> QED
    BY <1>2, <1>11, <2>1 DEF Reuse, Revoke, HandlerInv, OnDisk
<1>12. CASE DropAccess
  <2>1. /\ base \in sent /\ Head(base) /\ grant[base] = under
        /\ value = None => base \in known
        /\ value # None => value = base
        /\ next <= MaxIssue /\ victims = {}
    BY <1>0, <1>12 DEF DropAccess, HandlerInv
  <2> QED
    BY <1>12, <2>1 DEF DropAccess, HandlerInv, Head
<1>13. CASE NewRefresh
  <2>1. /\ base \in sent /\ Head(base) /\ grant[base] = under /\ base \in Token /\ victims = {}
        /\ value = None /\ base \in known /\ access[base] \notin live
        /\ next > 1 /\ grant[Issue] = under /\ Issue \notin sent /\ Issue \in Token
    BY <1>0, <1>13, TokenFacts DEF NewRefresh, HandlerInv, TypeOK
  <2>2. /\ type' = [type EXCEPT ![Issue] = "refresh"]
        /\ access' = [access EXCEPT ![Issue] = Issue]
        /\ pc' = "mark"
        /\ UNCHANGED <<grant, live, next, known, sent, under, base, value, victims>>
    BY <1>13 DEF NewRefresh, WriteRefresh
  <2>3. Issue' = Issue /\ base # Issue
    BY <2>1, <2>2 DEF Issue
  <2>4. Head(base)' /\ access'[base] = access[base] /\ Head(Issue)' /\ access'[Issue] = Issue
    BY <1>0, <2>1, <2>2, <2>3 DEF TypeOK, Head
  <2> QED
    BY <2>1, <2>2, <2>3, <2>4 DEF HandlerInv
<1>14. ASSUME NEW arrives \in BOOLEAN, Answer(arrives) PROVE HandlerInv'
  BY <1>1, <1>14 DEF Answer, Finish
<1>15. CASE RevokeAccess
  <2>1. base \in sent /\ OnDisk(base) /\ grant[base] = under /\ under \in ended /\ victims = {}
    BY <1>0, <1>15 DEF RevokeAccess, HandlerInv
  <2> QED
    BY <1>15, <2>1 DEF RevokeAccess, HandlerInv, OnDisk
<1>16. CASE RevokeFile
  <2>1. /\ base \in sent /\ base \in Token /\ grant[base] = under /\ under \in ended
        /\ victims = {}
    BY <1>0, <1>16 DEF RevokeFile, HandlerInv, TypeOK
  <2>2. CASE succ[base] # None /\ type[succ[base]] # "absent"
    <3>1. /\ base' = succ[base]
          /\ UNCHANGED <<pc, under, value, victims, closed, sent, grant, ended>>
      BY <1>16, <2>2 DEF RevokeFile
    <3>2. succ[base] \in sent /\ grant[succ[base]] = under /\ succ[base] # base
      <4>1. succ[base] > base
        BY <1>0, <2>1, <2>2 DEF LinkInv
      <4> QED
        BY <1>0, <2>1, <2>2, <4>1, TokenFacts DEF LinkInv
    <3>3. type'[succ[base]] # "absent"
      BY <1>0, <1>16, <2>1, <2>2, <3>2 DEF RevokeFile, Erase, TypeOK
    <3> QED
      BY <1>16, <2>1, <3>1, <3>2, <3>3 DEF RevokeFile, HandlerInv, OnDisk
  <2>3. CASE ~(succ[base] # None /\ type[succ[base]] # "absent")
    BY <1>1, <1>16, <2>3 DEF RevokeFile, Finish
  <2> QED
    BY <2>2, <2>3
<1>17. ASSUME NEW a \in Token, AccessEnds(a) PROVE HandlerInv'
  BY <1>1, <1>2, <1>17 DEF AccessEnds
<1>18. ASSUME NEW S \in SUBSET Token, Cleanup(S) PROVE HandlerInv'
  BY <1>1, <1>2, <1>18 DEF Cleanup
<1>19. CASE Abort
  BY <1>1, <1>19 DEF Abort, Finish
<1>20. CASE Tick
  BY <1>1, <1>2, <1>20 DEF Tick
<1>21. CASE UNCHANGED vars
  BY <1>0, <1>21 DEF vars, HandlerInv, Issue, Head, OnDisk
<1> QED
  BY <1>3, <1>4, <1>5, <1>6, <1>7, <1>8, <1>9, <1>10, <1>11, <1>12, <1>13, <1>14, <1>15, <1>16,
     <1>17, <1>18, <1>19, <1>20, <1>21 DEF Next

-------------------------------------------------------------------------------
LEMMA FiniteTokens ==
  ASSUME NEW S, S \subseteq Token
  PROVE  IsFiniteSet(S) /\ Cardinality(S) \in Nat
  <1>1. IsFiniteSet(Token)
    BY OAuthAssumption, FS_Interval DEF Token
  <1> QED
    BY <1>1, FS_Subset, FS_CardinalityType

(* Of the sessions of other clients, those that stay leave room for one.     *)
LEMMA PreviousLeaves ==
  ASSUME NEW keep
  PROVE  Cardinality((Heads \ {keep}) \ Previous(keep)) <= MaxSessions - 1
  <1> DEFINE others == Heads \ {keep}
             same == {t \in others : client[grant[t]] = client[under]}
             rest == others \ same
             After(t) == {u \in rest : u > t}
             stay == others \ Previous(keep)
  <1>1. stay \subseteq {t \in rest : ~(Cardinality(After(t)) >= MaxSessions - 1)}
    BY DEF Previous
  <1>2. rest \subseteq Token /\ Token \subseteq Nat
    BY DEF Heads, Token
  <1> HIDE DEF rest, stay
  <1>3. CASE stay = {}
    BY <1>3, FS_EmptySet, OAuthAssumption DEF stay
  <1>4. CASE stay # {}
    <2>1. PICK m \in stay : \A t \in stay : ~(<<t, m>> \in OpToRel(<, Nat))
      <3>1. stay \subseteq Nat
        BY <1>1, <1>2
      <3> QED
        BY <1>4, <3>1, NatLessThanWellFounded, WFMin
    <2>2. m \in Nat /\ stay \subseteq Nat
      BY <1>1, <1>2
    <2>3. \A t \in stay : t = m \/ t > m
      <3>1. \A t \in stay : ~(t < m)
        BY <2>1, <2>2, Zenon DEF OpToRel
      <3> QED
        BY <2>2, <3>1
    <2>4. stay \subseteq {m} \cup After(m)
      BY <1>1, <2>3
    <2>5. /\ IsFiniteSet(After(m)) /\ Cardinality(After(m)) \in Nat
          /\ Cardinality(stay) \in Nat
      BY <1>1, <1>2, FiniteTokens
    <2>6. Cardinality(After(m) \cup {m}) <= Cardinality(After(m)) + 1
      BY <2>5, FS_AddElement
    <2>7. Cardinality(stay) <= Cardinality(After(m) \cup {m})
      BY <2>4, <2>5, FS_AddElement, FS_Subset
    <2>8. ~(Cardinality(After(m)) >= MaxSessions - 1)
      BY <1>1, <2>1
    <2>9. Cardinality(After(m) \cup {m}) \in Nat
      BY <2>5, FS_AddElement, FS_CardinalityType
    <2> HIDE DEF After
    <2> QED
      BY <2>5, <2>6, <2>7, <2>8, <2>9, OAuthAssumption DEF stay
  <1> QED
    BY <1>3, <1>4

(* One head and one living access token of each authorization.               *)
LEMMA HeadStep == IInv /\ TypeOK' /\ [Next]_vars => HeadInv' /\ OneLiveAccess'
<1> SUFFICES ASSUME IInv, TypeOK', [Next]_vars PROVE HeadInv' /\ OneLiveAccess'
  OBVIOUS
<1>0. /\ TypeOK /\ IssueInv /\ HandlerInv /\ AnswerInv /\ HeadInv /\ OneLiveAccess
  BY DEF IInv
<1> USE DEF HeadInv, OneLiveAccess, Heads, Head
<1>1. CASE QuietStep
  BY <1>0, <1>1 DEF QuietStep
<1>2. CASE ErasesSome
  <2>1. PICK S : EraseStep(S)
    BY <1>0, <1>2, Erasing DEF ErasesSome
  <2>2. UNCHANGED <<grant, sent, live>>
    BY <2>1 DEF EraseStep
  <2> QED
    BY <1>0, <2>1, <2>2, EraseFacts
<1>3. CASE GrantAccess \/ NewAccess
  <2>1. next \in Token /\ next >= next
    BY <1>0, <1>3, TokenFacts DEF GrantAccess, NewAccess, HandlerInv
  <2>2. /\ live' = live \cup {next} /\ grant' = [grant EXCEPT ![next] = under]
        /\ UNCHANGED <<type, access, sent>>
    BY <1>3 DEF GrantAccess, NewAccess, WriteAccess, fileVars, history
  <2>3. next \notin sent
    BY <1>0, <2>1 DEF IssueInv
  <2>4. \A t \in Token : t # next => grant'[t] = grant[t]
    BY <1>0, <2>2 DEF TypeOK
  <2>5. sent \subseteq Token
    BY <1>0 DEF TypeOK
  <2> QED
    BY <1>0, <2>2, <2>3, <2>4, <2>5
<1>4. CASE GrantRefresh \/ NewRefresh
  <2>1. Issue \in Token /\ Issue \notin sent
    BY <1>0, <1>4, TokenFacts DEF GrantRefresh, NewRefresh, HandlerInv, Issued
  <2>2. /\ type' = [type EXCEPT ![Issue] = "refresh"]
        /\ access' = [access EXCEPT ![Issue] = Issue]
        /\ UNCHANGED <<grant, live, sent>>
    BY <1>4 DEF GrantRefresh, NewRefresh, WriteRefresh, accessVars, history
  <2>3. \A t \in Token : t # Issue => type'[t] = type[t] /\ access'[t] = access[t]
    BY <1>0, <2>2 DEF TypeOK
  <2> QED
    BY <1>0, <2>1, <2>2, <2>3
<1>5. CASE KeepHead \/ MarkRotated
  <2>1. /\ base \in sent /\ base \in Token /\ Head(base) /\ grant[base] = under
        /\ access[base] \notin live
        /\ Issue \in Token /\ Issue \notin sent /\ grant[Issue] = under
    BY <1>0, <1>5, TokenFacts DEF KeepHead, MarkRotated, HandlerInv, Refreshes, Issued, TypeOK
  <2>2. \A a \in live \cap sent : grant[a] # under
    BY <1>0, <2>1
  <2>3. CASE KeepHead
    <3>1. access' = [access EXCEPT ![base] = Issue] /\ UNCHANGED <<type, grant, live, sent>>
      BY <2>3 DEF KeepHead, history
    <3>2. \A t \in Token : t # base => access'[t] = access[t]
      BY <1>0, <3>1 DEF TypeOK
    <3> QED
      BY <1>0, <2>1, <2>2, <3>1, <3>2
  <2>4. CASE MarkRotated
    <3>1. Head(Issue) /\ access[Issue] = Issue
      BY <1>0, <2>4 DEF MarkRotated, HandlerInv
    <3>2. /\ type' = [type EXCEPT ![base] = "refresh_rotated"]
          /\ access' = [access EXCEPT ![base] = None]
          /\ sent' = sent \cup {Issue} /\ UNCHANGED <<grant, live>>
      BY <2>4 DEF MarkRotated
    <3>3. /\ type'[base] # "refresh" /\ access'[Issue] = Issue
          /\ \A t \in Token : t # base => type'[t] = type[t] /\ access'[t] = access[t]
      BY <1>0, <2>1, <3>1, <3>2 DEF TypeOK
    <3>4. \A t \in Token : Head(t)' /\ t \in sent' =>
            t = Issue \/ (Head(t) /\ t \in sent /\ grant[t] # under)
      BY <1>0, <2>1, <3>2, <3>3
    <3>5. \A a \in live' \cap sent' : a = Issue \/ (a \in live \cap sent /\ grant[a] # under)
      BY <2>2, <3>2
    <3>6. HeadInv'
      BY <1>0, <2>1, <3>2, <3>3, <3>4, <3>5
    <3>7. OneLiveAccess'
      BY <1>0, <2>1, <3>2, <3>5
    <3> QED
      BY <3>6, <3>7
  <2> QED
    BY <1>5, <2>3, <2>4
<1>6. ASSUME NEW arrives \in BOOLEAN, Answer(arrives) PROVE HeadInv' /\ OneLiveAccess'
  <2>1. /\ Issue \in Token /\ grant[Issue] = under /\ value \in sent \cup {Issue}
        /\ Head(value) /\ grant[value] = under /\ access[value] = Issue
        /\ \A a \in live \cap sent : grant[a] = under => a = Issue
        /\ \A t \in Heads \cap (sent \cup {Issue}) : grant[t] = under => t = value
    BY <1>0, <1>6, TokenFacts DEF Answer, AnswerInv
  <2>2. sent' = sent \cup {Issue} /\ UNCHANGED <<type, access, grant, live>>
    BY <1>6, <2>1 DEF Answer, fileVars, accessVars
  <2>3. HeadInv'
    BY <1>0, <2>1, <2>2
  <2>4. OneLiveAccess'
    BY <1>0, <2>1, <2>2
  <2> QED
    BY <2>3, <2>4
<1> QED
  BY <1>0, <1>1, <1>2, <1>3, <1>4, <1>5, <1>6, FileSteps

LEMMA AnswerStep == IInv /\ TypeOK' /\ [Next]_vars => AnswerInv'
<1> SUFFICES ASSUME IInv, TypeOK', [Next]_vars, pc' = "answer" PROVE AnswerInv'
  BY DEF AnswerInv
<1>0. /\ TypeOK /\ CodeInv /\ IssueInv /\ HeadInv /\ HandlerInv /\ AnswerInv /\ RevokedIsGone
  BY DEF IInv
<1> DEFINE Fits == Cardinality((Heads \cap sent) \ victims) <= MaxSessions - 1
           Rest == /\ next > 1 /\ grant[Issue] = under /\ under \notin closed \ broken
                   /\ type[Issue] # "refresh_rotated"
                   /\ value \in Token /\ value \in sent \cup {Issue}
                   /\ Head(value) /\ grant[value] = under /\ access[value] = Issue
                   /\ \A a \in live \cap sent : grant[a] = under => a = Issue
                   /\ \A t \in Heads \cap (sent \cup {Issue}) : grant[t] = under => t = value
                   /\ \A t \in victims : Head(t) /\ grant[t] # under
<1>a. ASSUME Rest', value' \notin sent' => Fits' PROVE AnswerInv'
  BY <1>a DEF AnswerInv
<1> USE DEF Heads, Head
<1>1. CASE GrantRefresh
  <2>1. /\ under \in Code /\ spent[under] = 0 /\ next > 1 /\ grant[Issue] = under
        /\ Issue \in Token /\ Issue \notin sent /\ type[Issue] = "absent"
    BY <1>0, <1>1, TokenFacts DEF GrantRefresh, HandlerInv, Redeems, Issued
  <2>2. /\ type' = [type EXCEPT ![Issue] = "refresh"]
        /\ access' = [access EXCEPT ![Issue] = Issue]
        /\ value' = Issue /\ victims' = Previous(Issue)
        /\ UNCHANGED <<grant, live, next, under, sent, closed, broken, client>>
    BY <1>1 DEF GrantRefresh, WriteRefresh, accessVars, codeVars
  <2>3. Issue' = Issue
    BY <2>2 DEF Issue
  <2>4. /\ type'[Issue] = "refresh" /\ access'[Issue] = Issue
        /\ \A t \in Token : t # Issue => type'[t] = type[t]
    BY <1>0, <2>1, <2>2 DEF TypeOK
  <2>5. /\ under \notin closed
        /\ \A t \in Token : OnDisk(t) \/ t \in sent => grant[t] # under
    BY <1>0, <2>1 DEF CodeInv, IssueInv
  <2>6. \A t \in Previous(Issue) : t \in Token /\ Head(t) /\ t # Issue
    BY DEF Previous
  <2>7. Rest'
    <3>1. \A a \in live \cap sent : grant[a] # under
      BY <1>0, <2>5 DEF TypeOK
    <3>2. \A t \in Token : Head(t)' /\ grant[t] = under => t = Issue
      BY <2>4, <2>5 DEF OnDisk
    <3>3. \A t \in Previous(Issue) : Head(t)' /\ grant[t] # under
      BY <2>4, <2>5, <2>6 DEF OnDisk
    <3> QED
      BY <2>1, <2>2, <2>3, <2>4, <2>5, <3>1, <3>2, <3>3
  <2>8. Fits'
    <3>1. (Heads' \cap sent') \ victims' \subseteq (Heads \ {Issue}) \ Previous(Issue)
      BY <2>1, <2>2, <2>4
    <3>2. (Heads \ {Issue}) \ Previous(Issue) \subseteq Token
      OBVIOUS
    <3>3. /\ Cardinality((Heads' \cap sent') \ victims')
               <= Cardinality((Heads \ {Issue}) \ Previous(Issue))
          /\ Cardinality((Heads' \cap sent') \ victims') \in Nat
          /\ Cardinality((Heads \ {Issue}) \ Previous(Issue)) \in Nat
      BY <3>1, <3>2, FiniteTokens, FS_Subset
    <3> QED
      BY <3>3, PreviousLeaves, OAuthAssumption
  <2> QED
    BY <1>a, <2>7, <2>8
<1>2. CASE KeepHead \/ MarkRotated
  <2>1. /\ base \in sent /\ base \in Token /\ Head(base) /\ grant[base] = under
        /\ access[base] \notin live /\ victims = {}
        /\ next > 1 /\ Issue \in Token /\ Issue \notin sent /\ grant[Issue] = under
    BY <1>0, <1>2, TokenFacts DEF KeepHead, MarkRotated, HandlerInv, Refreshes, Issued, TypeOK
  <2>2. \A a \in live \cap sent : grant[a] # under
    BY <1>0, <2>1 DEF HeadInv
  <2>3. \A t \in Heads \cap sent : grant[t] = under => t = base
    BY <1>0, <2>1 DEF HeadInv
  <2>4. under \notin closed \ broken
    BY <1>0, <2>1 DEF RevokedIsGone
  <2>5. CASE KeepHead
    <3>1. /\ access' = [access EXCEPT ![base] = Issue]
          /\ UNCHANGED <<type, grant, live, next, under, value, victims, sent, closed, broken>>
      BY <2>5 DEF KeepHead, history
    <3>2. value = base /\ type[Issue] = "absent"
      BY <1>0, <2>5 DEF KeepHead, HandlerInv, Refreshes, Issued
    <3>3. Issue' = Issue /\ access'[base] = Issue
      BY <1>0, <2>1, <3>1 DEF Issue, TypeOK
    <3>4. Rest'
      BY <2>1, <2>2, <2>3, <2>4, <3>1, <3>2, <3>3
    <3> QED
      BY <1>a, <2>1, <3>1, <3>2, <3>4
  <2>6. CASE MarkRotated
    <3>1. /\ type' = [type EXCEPT ![base] = "refresh_rotated"]
          /\ access' = [access EXCEPT ![base] = None]
          /\ value' = Issue /\ sent' = sent \cup {Issue}
          /\ UNCHANGED <<grant, live, next, under, victims, closed, broken>>
      BY <2>6 DEF MarkRotated
    <3>2. Head(Issue) /\ access[Issue] = Issue
      BY <1>0, <2>6 DEF MarkRotated, HandlerInv
    <3>3. /\ Issue' = Issue /\ access'[Issue] = Issue /\ type'[Issue] = "refresh" /\ type'[base] # "refresh"
          /\ \A t \in Token : t # base => type'[t] = type[t]
      BY <1>0, <2>1, <3>1, <3>2 DEF Issue, TypeOK
    <3>4. Rest'
      BY <2>1, <2>2, <2>3, <2>4, <3>1, <3>3
    <3> QED
      BY <1>a, <3>1, <3>4
  <2> QED
    BY <1>2, <2>5, <2>6
<1>3. ASSUME NEW t \in Token, EvictAccess(t) PROVE AnswerInv'
  <2>1. pc = "answer"
    BY <1>0, <1>3 DEF EvictAccess, HandlerInv
  <2>2. /\ live' \subseteq live
        /\ UNCHANGED <<type, access, grant, next, under, value, victims, sent, closed, broken>>
    BY <1>3 DEF EvictAccess, fileVars, handlerVars
  <2> QED
    BY <1>0, <2>1, <2>2 DEF AnswerInv, Issue
<1>4. ASSUME NEW t \in Token, EvictFile(t) PROVE AnswerInv'
  <2>1. pc = "answer" /\ t \in victims
    BY <1>0, <1>4 DEF EvictFile, HandlerInv
  <2>2. /\ victims' = victims \ {t} /\ closed' = Close({t} \cap sent)
        /\ UNCHANGED <<grant, live, next, under, value, sent, broken>>
    BY <1>4 DEF EvictFile, accessVars
  <2>3. /\ type'[t] = "absent"
        /\ \A u \in Token : u # t => type'[u] = type[u] /\ access'[u] = access[u]
    BY <1>0, <1>4 DEF EvictFile, Erase, TypeOK
  <2>4. Rest
    BY <1>0, <2>1 DEF AnswerInv
  <2>5. grant[t] # under /\ t # value /\ Issue' = Issue /\ victims \subseteq Token
    BY <1>0, <2>1, <2>2, <2>4 DEF Issue, TypeOK
  <2>6. under \notin closed' \ broken'
    BY <2>2, <2>4, <2>5 DEF Close
  <2>t. type'[Issue] # "refresh_rotated"
    <3>1. Issue \in Token
      BY <1>0, <2>4, TokenFacts
    <3> QED
      BY <2>3, <2>4, <3>1
  <2>7. Rest'
    BY <2>2, <2>3, <2>4, <2>5, <2>6, <2>t
  <2>8. (Heads' \cap sent') \ victims' = (Heads \cap sent) \ victims
    BY <2>1, <2>2, <2>3
  <2>9. value' \notin sent' => Fits'
    BY <1>0, <2>1, <2>2, <2>8 DEF AnswerInv
  <2> QED
    BY <1>a, <2>7, <2>9
<1>5. CASE UNCHANGED vars
  BY <1>0, <1>5 DEF vars, AnswerInv, Issue, Previous, codeVars, fileVars, accessVars,
                    handlerVars, history
<1> QED
  <2>1. ASSUME NEW c \in Code, Authorize(c) \/ RefuseCode(c) \/ RedeemCode(c) PROVE FALSE
    BY <2>1 DEF Authorize, RefuseCode, RedeemCode, handlerVars
  <2>2. ASSUME NEW t \in Token,
               PresentExpired(t) \/ Present(t) \/ Replay(t) \/ Reuse(t) \/ Revoke(t) PROVE FALSE
    BY <2>2 DEF PresentExpired, Present, Replay, Reuse, Revoke, handlerVars
  <2>3. CASE GrantAccess \/ DropAccess \/ NewAccess \/ NewRefresh
    BY <2>3 DEF GrantAccess, DropAccess, NewAccess, NewRefresh
  <2>4. ASSUME NEW arrives \in BOOLEAN, Answer(arrives) PROVE FALSE
    BY <2>4 DEF Answer, Finish
  <2>5. CASE RevokeAccess \/ RevokeFile \/ Abort \/ Tick
    BY <2>5 DEF RevokeAccess, RevokeFile, Abort, Tick, Finish, handlerVars
  <2>6. ASSUME NEW a \in Token, AccessEnds(a) PROVE FALSE
    BY <2>6 DEF AccessEnds, handlerVars
  <2>7. ASSUME NEW S \in SUBSET Token, Cleanup(S) PROVE FALSE
    BY <2>7 DEF Cleanup, handlerVars
  <2> QED
    BY <1>1, <1>2, <1>3, <1>4, <1>5, <2>1, <2>2, <2>3, <2>4, <2>5, <2>6, <2>7 DEF Next

(* No step adds a session beyond the limit; a rotation replaces one.         *)
LEMMA BoundStep == IInv /\ TypeOK' /\ [Next]_vars => SessionsBounded'
<1> SUFFICES ASSUME IInv, TypeOK', [Next]_vars PROVE SessionsBounded'
  OBVIOUS
<1>0. /\ TypeOK /\ IssueInv /\ HandlerInv /\ AnswerInv /\ SessionsBounded
      /\ HeadInv'
  BY HeadStep DEF IInv
<1> DEFINE Held == Heads \cap sent
<1>1. /\ Held \subseteq Token /\ IsFiniteSet(Held) /\ Cardinality(Held) \in Nat
      /\ Cardinality(Held) <= MaxSessions /\ MaxSessions \in Nat
  BY <1>0, FiniteTokens, OAuthAssumption DEF Heads, SessionsBounded
<1>2. ASSUME NEW S, S \subseteq Token, Held' \subseteq S, Cardinality(S) <= MaxSessions
      PROVE  SessionsBounded'
  <2>1. Cardinality(Held') <= Cardinality(S) /\ Cardinality(Held') \in Nat /\ Cardinality(S) \in Nat
    BY <1>2, FiniteTokens, FS_Subset
  <2> QED
    BY <1>0, <1>1, <1>2, <2>1 DEF SessionsBounded, HeadInv
<1>3. ASSUME Held' \subseteq Held PROVE SessionsBounded'
  <2> HIDE DEF Held
  <2> QED
    BY <1>1, <1>2, <1>3
<1> USE DEF Heads, Head
<1>4. CASE QuietStep
  BY <1>3, <1>4 DEF QuietStep
<1>5. CASE ErasesSome
  <2>1. PICK S : EraseStep(S)
    BY <1>0, <1>5, Erasing DEF ErasesSome
  <2>2. sent' = sent
    BY <2>1 DEF EraseStep
  <2> QED
    BY <1>3, <2>1, <2>2, EraseFacts
<1>6. CASE GrantAccess \/ NewAccess \/ KeepHead
  BY <1>3, <1>6 DEF GrantAccess, NewAccess, KeepHead, WriteAccess, fileVars, history
<1>7. CASE GrantRefresh \/ NewRefresh
  <2>1. Issue \notin sent /\ Issue \in Token
    BY <1>0, <1>7, TokenFacts DEF GrantRefresh, NewRefresh, HandlerInv, Issued
  <2>2. type' = [type EXCEPT ![Issue] = "refresh"] /\ sent' = sent
    BY <1>7 DEF GrantRefresh, NewRefresh, WriteRefresh, history
  <2> QED
    BY <1>0, <1>3, <2>1, <2>2 DEF TypeOK
<1>8. CASE MarkRotated
  <2>1. base \in Held /\ Issue \in Token /\ Issue \notin sent
    BY <1>0, <1>8, TokenFacts DEF MarkRotated, HandlerInv, Issued, Refreshes, TypeOK
  <2>2. type' = [type EXCEPT ![base] = "refresh_rotated"] /\ sent' = sent \cup {Issue}
    BY <1>8 DEF MarkRotated
  <2>3. Held' \subseteq (Held \ {base}) \cup {Issue}
    BY <1>0, <2>1, <2>2 DEF TypeOK
  <2>4. Cardinality((Held \ {base}) \cup {Issue}) <= MaxSessions
    <3> HIDE DEF Held
    <3>1. /\ IsFiniteSet(Held \ {base}) /\ Cardinality(Held \ {base}) = Cardinality(Held) - 1
          /\ Cardinality(Held \ {base}) \in Nat
      BY <1>1, <2>1, FS_RemoveElement, FiniteTokens
    <3>2. Cardinality((Held \ {base}) \cup {Issue}) <= Cardinality(Held \ {base}) + 1
      <4> DEFINE R == Held \ {base}
      <4> HIDE DEF R
      <4>1. Cardinality(R \cup {Issue}) =
              IF Issue \in R THEN Cardinality(R) ELSE Cardinality(R) + 1
        BY <3>1, FS_AddElement DEF R
      <4>2. Cardinality(R) \in Nat
        BY <3>1 DEF R
      <4> QED
        BY <4>1, <4>2 DEF R
    <3>3. Cardinality((Held \ {base}) \cup {Issue}) \in Nat
      BY <3>1, FS_AddElement, FS_CardinalityType
    <3> QED
      BY <1>1, <3>1, <3>2, <3>3
  <2> HIDE DEF Held
  <2>5. (Held \ {base}) \cup {Issue} \subseteq Token
    BY <1>1, <2>1
  <2> QED
    BY <1>2, <2>3, <2>4, <2>5
<1>9. ASSUME NEW arrives \in BOOLEAN, Answer(arrives) PROVE SessionsBounded'
  <2>1. /\ value \in Token /\ value \in sent \cup {Issue} /\ Head(value) /\ grant[value] = under
        /\ grant[Issue] = under /\ victims = {}
        /\ \A t \in Heads \cap (sent \cup {Issue}) : grant[t] = under => t = value
    BY <1>0, <1>9 DEF Answer, AnswerInv
  <2>2. sent' = sent \cup {Issue, value} /\ type' = type
    BY <1>9 DEF Answer, fileVars
  <2>3. Held' \subseteq Held \cup {value}
    BY <2>1, <2>2
  <2>4. CASE value \in sent
    <3>1. Held' \subseteq Held
      BY <2>1, <2>2, <2>4
    <3> QED
      BY <1>3, <3>1
  <2>5. CASE value \notin sent
    <3>1. Cardinality(Held) <= MaxSessions - 1
      <4>1. Held \ victims = Held
        BY <2>1
      <4> HIDE DEF Held
      <4>2. Cardinality(Held \ victims) <= MaxSessions - 1
        BY <1>0, <1>9, <2>5 DEF Answer, AnswerInv, Held
      <4> QED
        BY <4>1, <4>2
    <3> HIDE DEF Held
    <3>2. Cardinality(Held \cup {value}) <= Cardinality(Held) + 1
      <4>1. Cardinality(Held \cup {value}) =
              IF value \in Held THEN Cardinality(Held) ELSE Cardinality(Held) + 1
        BY <1>1, FS_AddElement
      <4> QED
        BY <1>1, <4>1
    <3>3. Cardinality(Held \cup {value}) \in Nat
      BY <1>1, FS_AddElement, FS_CardinalityType
    <3>4. Cardinality(Held \cup {value}) <= MaxSessions
      BY <1>1, <3>1, <3>2, <3>3
    <3>5. Held \cup {value} \subseteq Token
      BY <1>1, <2>1
    <3> QED
      BY <1>2, <2>3, <3>4, <3>5
  <2> QED
    BY <2>4, <2>5
<1> QED
  BY <1>0, <1>4, <1>5, <1>6, <1>7, <1>8, <1>9, FileSteps

-------------------------------------------------------------------------------
(* A revocation is left by its own steps only.                               *)
LEMMA RevokeSteps ==
  ASSUME HandlerInv, [Next]_vars, pc = "revoke"
  PROVE  RevokeAccess \/ RevokeFile \/ Abort \/ UNCHANGED vars
  BY DEF Next, HandlerInv, Authorize, RefuseCode, RedeemCode, GrantAccess, GrantRefresh,
         EvictAccess, EvictFile, PresentExpired, Present, Replay, Reuse, Revoke, DropAccess,
         NewAccess, KeepHead, NewRefresh, MarkRotated, Answer, AccessEnds, Cleanup, Tick

(* What is unlinked outside of a revocation is over, or was evicted.         *)
LEMMA ErasedOver ==
  ASSUME IInv, ErasesSome, ~RevokeFile
  PROVE  \E S : /\ EraseStep(S) /\ pc' = pc /\ pc # "revoke"
                /\ \A t \in Token \cap sent \cap S :
                     clock > firstEnd[grant[t]] \/ grant[t] \in closed' \cap ended'
  <1>0. TypeOK /\ HandlerInv /\ IssueInv /\ ExpiryKept /\ AnswerInv
    BY DEF IInv
  <1>1. ASSUME NEW t \in Token, EvictFile(t)
        PROVE  /\ pc = "answer" /\ pc' = pc
               /\ t \in sent => clock > firstEnd[grant[t]] \/ grant[t] \in closed' \cap ended'
    <2>1. t \in sent => clock \in Nat /\ firstEnd[grant[t]] \in Nat
      BY <1>0 DEF TypeOK, IssueInv
    <2> QED
      BY <1>0, <1>1, <2>1 DEF EvictFile, HandlerInv, Close
  <1>2. ASSUME NEW t \in Token, PresentExpired(t)
        PROVE  pc = "idle" /\ pc' = pc /\ clock > firstEnd[grant[t]]
    BY <1>0, <1>2 DEF PresentExpired, Head, ExpiryKept, handlerVars
  <1>3. ASSUME NEW S \in SUBSET Token, Cleanup(S)
        PROVE  pc = "idle" /\ pc' = pc /\ \A t \in S : clock > firstEnd[grant[t]]
    BY <1>0, <1>3 DEF Cleanup, ExpiryKept, handlerVars
  <1>4. ASSUME NEW t \in Token, EvictFile(t) \/ PresentExpired(t)
        PROVE  /\ EraseStep({t}) /\ pc' = pc /\ pc # "revoke"
               /\ \A u \in Token \cap sent \cap {t} :
                    clock > firstEnd[grant[u]] \/ grant[u] \in closed' \cap ended'
    BY <1>0, <1>1, <1>2, <1>4, Erasing
  <1>5. ASSUME NEW S \in SUBSET Token, Cleanup(S)
        PROVE  /\ EraseStep(S) /\ pc' = pc /\ pc # "revoke"
               /\ \A u \in Token \cap sent \cap S :
                    clock > firstEnd[grant[u]] \/ grant[u] \in closed' \cap ended'
    BY <1>0, <1>3, <1>5, Erasing
  <1> QED
    BY <1>4, <1>5 DEF ErasesSome

(* The chain of an authorization stays whole ahead of whoever revokes it.    *)
LEMMA ChainStep == IInv /\ TypeOK' /\ [Next]_vars => ChainInv'
<1> SUFFICES ASSUME IInv, TypeOK', [Next]_vars PROVE ChainInv'
  OBVIOUS
<1>0. /\ TypeOK /\ IssueInv /\ LinkInv /\ ChainInv /\ HandlerInv /\ AnswerInv
  BY DEF IInv
<1> DEFINE Needs(t) == /\ type[t] = "refresh_rotated"
                       /\ grant[t] \notin closed \cup broken
                       /\ clock <= firstEnd[grant[t]]
           Leads(t) == succ[t] # None /\ OnDisk(succ[t])
<1>a. \A t \in sent : Needs(t) /\ (Chain(t) => t >= base) => Leads(t)
  BY <1>0 DEF ChainInv
<1>b. SUFFICES ASSUME NEW t \in sent', Needs(t)', Chain(t)' => t >= base' PROVE Leads(t)'
  BY DEF ChainInv
<1>c. t \in Token /\ \A u \in Token : u \in sent => grant[u] \in Code
  BY <1>0 DEF TypeOK, IssueInv
<1>1. CASE pc = "revoke" /\ ~RevokeFile
  <2>1. RevokeAccess \/ Abort \/ UNCHANGED vars
    BY <1>0, <1>1, RevokeSteps
  <2>2. /\ UNCHANGED <<type, succ, grant, sent, closed, clock, firstEnd>>
        /\ broken \subseteq broken'
    BY <2>1 DEF RevokeAccess, Abort, vars, fileVars, accessVars, history
  <2>3. Chain(t) => t >= base
    <3>1. CASE Abort
      <4>1. under \in broken'
        BY <1>1, <3>1 DEF Abort
      <4> QED
        BY <1>b, <2>2, <4>1 DEF Chain
    <3>2. CASE RevokeAccess \/ UNCHANGED vars
      BY <1>b, <2>2, <3>2 DEF RevokeAccess, vars, handlerVars, Chain
    <3> QED
      BY <2>1, <3>1, <3>2
  <2>4. Needs(t)
    BY <1>b, <2>2
  <2> QED
    BY <1>a, <2>2, <2>3, <2>4 DEF OnDisk
<1>2. CASE RevokeFile
  <2>1. /\ base \in sent /\ base \in Token /\ grant[base] = under /\ pc = "revoke"
        /\ EraseStep({base})
    BY <1>0, <1>2, Erasing DEF RevokeFile, HandlerInv, TypeOK
  <2>2. /\ t # base /\ type[t] = type'[t] /\ succ'[t] = succ[t]
        /\ t \in sent /\ grant' = grant /\ broken' = broken /\ clock' = clock
        /\ firstEnd' = firstEnd /\ closed \subseteq closed'
    BY <1>b, <1>c, <2>1, EraseFacts DEF EraseStep
  <2>3. Needs(t)
    BY <1>b, <2>2
  <2>4. Chain(t) => t > base
    <3>1. CASE succ[base] # None /\ type[succ[base]] # "absent"
      <4>1. base' = succ[base] /\ UNCHANGED <<pc, under>>
        BY <1>2, <3>1 DEF RevokeFile
      <4>2. succ[base] > base /\ succ[base] \in Token
        BY <1>0, <2>1, <3>1 DEF LinkInv, TypeOK
      <4>3. Chain(t) => t >= succ[base]
        BY <1>b, <2>2, <4>1 DEF Chain
      <4> QED
        BY <1>0, <1>c, <2>1, <4>2, <4>3, TokenFacts
    <3>2. CASE ~(succ[base] # None /\ type[succ[base]] # "absent")
      <4>1. closed' = Close({base})
        BY <1>2, <3>2 DEF RevokeFile
      <4>2. clock <= firstEnd[under] => under \in closed'
        BY <2>1, <4>1 DEF Close
      <4> QED
        BY <1>b, <2>2, <4>2 DEF Chain
    <3> QED
      BY <3>1, <3>2
  <2>5. Leads(t)
    <3>1. Chain(t) => t >= base
      BY <1>c, <2>1, <2>4, <1>0, TokenFacts
    <3> QED
      BY <1>a, <2>2, <2>3, <3>1
  <2>6. succ[t] # base
    <3>1. succ[t] > t /\ grant[succ[t]] = grant[t] /\ succ[t] \in Token
      BY <1>0, <1>c, <2>5 DEF LinkInv, TypeOK
    <3>2. Chain(t) => succ[t] > base
      BY <1>0, <1>c, <2>1, <2>4, <3>1, TokenFacts
    <3> QED
      BY <1>0, <2>1, <3>1, <3>2, TokenFacts DEF Chain
  <2>7. type'[succ[t]] = type[succ[t]]
    <3>1. succ[t] \in Token
      BY <1>0, <1>c, <2>5 DEF TypeOK
    <3> QED
      BY <2>1, <2>6, <3>1, EraseFacts
  <2> QED
    BY <2>2, <2>5, <2>7 DEF OnDisk
<1>3. CASE pc # "revoke" /\ ErasesSome /\ ~RevokeFile
  <2>1. PICK S : /\ EraseStep(S)
                 /\ \A u \in Token \cap sent \cap S :
                      clock > firstEnd[grant[u]] \/ grant[u] \in closed' \cap ended'
    BY <1>3, ErasedOver
  <2>2. /\ t \notin S /\ type'[t] = type[t] /\ succ'[t] = succ[t]
        /\ t \in sent /\ grant' = grant /\ broken' = broken /\ clock' = clock
        /\ firstEnd' = firstEnd /\ closed \subseteq closed'
    BY <1>b, <1>c, <2>1, EraseFacts DEF EraseStep
  <2>3. Needs(t)
    BY <1>b, <2>2
  <2>4. Leads(t)
    BY <1>3, <1>a, <2>2, <2>3 DEF Chain
  <2>5. succ[t] \in Token /\ succ[t] \in sent /\ grant[succ[t]] = grant[t]
    BY <1>0, <1>c, <2>4 DEF LinkInv, TypeOK
  <2>6. succ[t] \notin S
    <3>1. clock \in Nat /\ firstEnd[grant[t]] \in Nat
      BY <1>0, <1>c, <2>2 DEF TypeOK
    <3>2. ~(clock > firstEnd[grant[t]]) /\ grant[t] \notin closed'
      BY <1>b, <2>2, <3>1
    <3> QED
      BY <2>1, <2>5, <3>2
  <2> QED
    BY <2>1, <2>2, <2>4, <2>5, <2>6, EraseFacts DEF OnDisk
<1>4. CASE pc # "revoke" /\ QuietStep
  <2>1. /\ UNCHANGED <<type, succ, grant, sent, closed, firstEnd>>
        /\ broken \subseteq broken' /\ clock' \in {clock, clock + 1}
    BY <1>4 DEF QuietStep
  <2>2. clock <= firstEnd[grant[t]]
    <3>1. clock \in Nat /\ firstEnd[grant[t]] \in Nat
      BY <1>0, <1>c, <2>1 DEF TypeOK
    <3> QED
      BY <1>b, <2>1, <3>1
  <2>3. Needs(t)
    BY <1>b, <2>1, <2>2
  <2> QED
    BY <1>4, <1>a, <2>1, <2>3 DEF Chain, OnDisk
<1>5. CASE GrantAccess \/ NewAccess \/ GrantRefresh \/ NewRefresh \/ KeepHead
  <2>1. /\ UNCHANGED <<succ, sent, closed, broken, clock>> /\ pc # "revoke"
    BY <1>5 DEF GrantAccess, NewAccess, GrantRefresh, NewRefresh, KeepHead, WriteAccess,
                WriteRefresh, fileVars, history
  <2>2. /\ \A u \in Token : type'[u] = type[u] \/ (type[u] # type'[u] /\ type'[u] = "refresh")
        /\ \A u \in sent : grant'[u] = grant[u] /\ firstEnd'[grant[u]] = firstEnd[grant[u]]
    <3>1. CASE GrantAccess \/ NewAccess
      <4>1. next \in Token /\ next >= next
        BY <1>0, <3>1, TokenFacts DEF GrantAccess, NewAccess, HandlerInv
      <4>2. next \notin sent
        BY <1>0, <4>1 DEF IssueInv
      <4> QED
        BY <1>0, <3>1, <4>2 DEF GrantAccess, NewAccess, WriteAccess, TypeOK, fileVars, history
    <3>2. CASE GrantRefresh
      <4>1. spent[under] = 0
        BY <1>0, <3>2 DEF GrantRefresh, HandlerInv, Redeems
      <4>2. \A u \in sent : grant[u] # under
        BY <1>0, <4>1 DEF IssueInv, TypeOK
      <4> QED
        BY <1>0, <3>2, <4>2 DEF GrantRefresh, WriteRefresh, TypeOK, accessVars
    <3>3. CASE NewRefresh \/ KeepHead
      BY <1>0, <3>3 DEF NewRefresh, KeepHead, WriteRefresh, TypeOK, accessVars, history
    <3> QED
      BY <1>5, <3>1, <3>2, <3>3
  <2>3. t \in sent /\ Needs(t) /\ ~Chain(t)
    BY <1>b, <1>c, <2>1, <2>2 DEF Chain
  <2>4. Leads(t) /\ succ[t] \in Token
    BY <1>0, <1>a, <1>c, <2>3 DEF TypeOK
  <2> QED
    BY <2>1, <2>2, <2>4 DEF OnDisk
<1>6. CASE MarkRotated
  <2>1. /\ base \in Token /\ Issue \in Token /\ Head(Issue) /\ Issue \notin sent /\ base \in sent
    BY <1>0, <1>6, TokenFacts DEF MarkRotated, HandlerInv, Issued, Refreshes, TypeOK
  <2>2. /\ type' = [type EXCEPT ![base] = "refresh_rotated"]
        /\ succ' = [succ EXCEPT ![base] = Issue]
        /\ sent' = sent \cup {Issue} /\ pc # "revoke"
        /\ UNCHANGED <<grant, closed, broken, clock, firstEnd>>
    BY <1>6 DEF MarkRotated
  <2>3. CASE t = base
    <3>1. succ'[base] = Issue /\ type'[Issue] # "absent" /\ Issue # None
      BY <1>0, <2>1, <2>2, TokenFacts DEF Head, TypeOK
    <3> QED
      BY <2>3, <3>1 DEF OnDisk
  <2>4. CASE t # base
    <3>1. type'[t] = type[t] /\ succ'[t] = succ[t]
      BY <1>0, <1>c, <2>2, <2>4 DEF TypeOK
    <3>2. t # Issue
      BY <1>b, <2>1, <3>1 DEF Head
    <3>3. t \in sent /\ Needs(t) /\ ~Chain(t)
      BY <1>b, <2>2, <3>1, <3>2 DEF Chain
    <3>4. Leads(t) /\ succ[t] \in Token
      BY <1>0, <1>a, <1>c, <3>3 DEF TypeOK
    <3>5. type'[succ[t]] # "absent"
      BY <1>0, <2>2, <3>4 DEF OnDisk, TypeOK
    <3> QED
      BY <3>1, <3>4, <3>5 DEF OnDisk
  <2> QED
    BY <2>3, <2>4
<1>7. ASSUME NEW arrives \in BOOLEAN, Answer(arrives) PROVE Leads(t)'
  <2>1. /\ Head(value) /\ type[Issue] # "refresh_rotated"
    BY <1>0, <1>7 DEF Answer, AnswerInv
  <2>2. /\ sent' = sent \cup {Issue, value} /\ pc # "revoke"
        /\ UNCHANGED <<type, succ, grant, closed, broken, clock, firstEnd>>
    BY <1>7 DEF Answer, fileVars, accessVars
  <2>3. t \in sent /\ Needs(t) /\ ~Chain(t)
    BY <1>b, <2>1, <2>2 DEF Chain, Head
  <2> QED
    BY <1>a, <2>2, <2>3 DEF OnDisk
<1> QED
  BY <1>0, <1>1, <1>2, <1>3, <1>4, <1>5, <1>6, <1>7, FileSteps

(* Of what a holder was given, something is still the head or leads to it.   *)
LEMMA SurviveStep == IInv /\ TypeOK' /\ [Next]_vars => SessionSurvives'
<1> DEFINE Leads(u) == Head(u) \/ (succ[u] # None /\ Head(succ[u]))
           Gone(t) == grant[t] \in ended \/ clock > firstEnd[grant[t]]
<1> SUFFICES ASSUME IInv, TypeOK', [Next]_vars,
                    NEW t \in known', ~Gone(t)'
             PROVE  \E u \in known' : grant'[u] = grant'[t] /\ Leads(u)'
  BY DEF SessionSurvives
<1>0. TypeOK /\ IssueInv /\ LinkInv /\ HandlerInv /\ AnswerInv
  BY DEF IInv
<1>a. ASSUME t \in known, ~Gone(t)
      PROVE  \E u \in known : grant[u] = grant[t] /\ Leads(u)
  BY <1>a DEF IInv, SessionSurvives
<1>b. /\ known \subseteq Token /\ known \subseteq sent /\ sent \subseteq Token
      /\ \A u \in sent : grant[u] \in Code
      /\ \A u \in known : succ[u] # None =>
           succ[u] \in sent /\ succ[u] \in Token /\ grant[succ[u]] = grant[u]
  BY <1>0 DEF TypeOK, IssueInv, LinkInv
<1>1. CASE QuietStep
  <2>1. /\ UNCHANGED <<type, succ, grant, known, firstEnd>>
        /\ ended \subseteq ended' /\ clock' \in {clock, clock + 1}
    BY <1>1 DEF QuietStep
  <2>2. ~(clock > firstEnd[grant[t]])
    <3>1. clock \in Nat /\ firstEnd[grant[t]] \in Nat
      BY <1>0, <1>b, <2>1 DEF TypeOK
    <3> QED
      BY <2>1, <3>1
  <2> QED
    BY <1>a, <2>1, <2>2 DEF Head
<1>2. CASE ErasesSome
  <2>1. PICK S : /\ EraseStep(S)
                 /\ \A u \in sent \cap S : clock > firstEnd[grant[u]] \/ grant[u] \in ended'
    <3>1. CASE RevokeFile
      <4>1. /\ grant[base] = under /\ under \in ended /\ EraseStep({base})
        BY <1>0, <3>1, Erasing DEF RevokeFile, HandlerInv
      <4>2. ended \subseteq ended'
        BY <4>1 DEF EraseStep
      <4> QED
        BY <4>1, <4>2
    <3>2. CASE ~RevokeFile
      BY <1>2, <1>b, <3>2, ErasedOver
    <3> QED
      BY <3>1, <3>2
  <2>2. /\ UNCHANGED <<grant, known, firstEnd, clock>> /\ ended \subseteq ended'
    BY <2>1 DEF EraseStep
  <2>3. PICK u \in known : grant[u] = grant[t] /\ Leads(u)
    BY <1>a, <2>2
  <2>4. u \notin S /\ (succ[u] # None => succ[u] \notin S)
    BY <1>b, <2>1, <2>2, <2>3
  <2>5. /\ type'[u] = type[u] /\ succ'[u] = succ[u]
        /\ succ[u] # None => type'[succ[u]] = type[succ[u]]
    BY <1>b, <2>1, <2>4, EraseFacts
  <2> QED
    BY <2>2, <2>3, <2>5 DEF Head
<1>3. CASE GrantAccess \/ NewAccess
  <2>1. next \in Token /\ next >= next
    BY <1>0, <1>3, TokenFacts DEF GrantAccess, NewAccess, HandlerInv
  <2>2. /\ grant' = [grant EXCEPT ![next] = under]
        /\ UNCHANGED <<type, succ, known, ended, firstEnd, clock>>
    BY <1>3 DEF GrantAccess, NewAccess, WriteAccess, fileVars, history
  <2>3. \A u \in known : grant'[u] = grant[u]
    BY <1>0, <1>b, <2>1, <2>2 DEF IssueInv, TypeOK
  <2> QED
    BY <1>a, <2>2, <2>3 DEF Head
<1>4. CASE GrantRefresh \/ NewRefresh \/ KeepHead
  <2>1. UNCHANGED <<succ, grant, known, ended, clock>>
    BY <1>4 DEF GrantRefresh, NewRefresh, KeepHead, WriteRefresh, accessVars, history
  <2>2. firstEnd'[grant[t]] = firstEnd[grant[t]]
    <3>1. CASE GrantRefresh
      <4>1. spent[under] = 0
        BY <1>0, <3>1 DEF GrantRefresh, HandlerInv, Redeems
      <4>2. grant[t] # under
        BY <1>0, <1>b, <2>1, <4>1 DEF IssueInv
      <4> QED
        BY <1>0, <1>b, <2>1, <3>1, <4>2 DEF GrantRefresh, TypeOK
    <3>2. CASE NewRefresh \/ KeepHead
      BY <3>2 DEF NewRefresh, KeepHead, history
    <3> QED
      BY <1>4, <3>1, <3>2
  <2>3. \A v \in Token : type[v] = "refresh" => type'[v] = "refresh"
    BY <1>0, <1>4 DEF GrantRefresh, NewRefresh, KeepHead, WriteRefresh, TypeOK
  <2>4. PICK u \in known : grant[u] = grant[t] /\ Leads(u)
    BY <1>a, <2>1, <2>2
  <2> QED
    BY <1>b, <2>1, <2>3, <2>4 DEF Head
<1>5. CASE MarkRotated
  <2>1. /\ base \in known /\ base \in Token /\ grant[base] = under
        /\ Issue \in Token /\ Issue # None /\ Head(Issue) /\ Issue \notin sent
    BY <1>0, <1>5, TokenFacts DEF MarkRotated, HandlerInv, Refreshes, Issued, TypeOK
  <2>2. /\ type' = [type EXCEPT ![base] = "refresh_rotated"]
        /\ succ' = [succ EXCEPT ![base] = Issue]
        /\ UNCHANGED <<grant, known, ended, firstEnd, clock>>
    BY <1>5 DEF MarkRotated
  <2>3. /\ succ'[base] = Issue
        /\ \A v \in Token : v # base => type'[v] = type[v] /\ succ'[v] = succ[v]
    BY <1>0, <2>1, <2>2 DEF TypeOK
  <2>4. CASE grant[t] = under
    <3>1. type'[Issue] = "refresh"
      BY <1>b, <2>1, <2>3 DEF Head
    <3> QED
      BY <2>1, <2>2, <2>3, <2>4, <3>1 DEF Head
  <2>5. CASE grant[t] # under
    <3>1. PICK u \in known : grant[u] = grant[t] /\ Leads(u)
      BY <1>a, <2>2
    <3>2. u # base /\ (succ[u] # None => succ[u] # base)
      BY <1>b, <2>1, <2>5, <3>1
    <3> QED
      BY <1>b, <2>2, <2>3, <3>1, <3>2 DEF Head
  <2> QED
    BY <2>4, <2>5
<1>6. ASSUME NEW arrives \in BOOLEAN, Answer(arrives)
      PROVE  \E u \in known' : grant'[u] = grant'[t] /\ Leads(u)'
  <2>1. Head(value)
    BY <1>0, <1>6 DEF Answer, AnswerInv
  <2>2. /\ known \subseteq known' /\ known' \subseteq known \cup {value}
        /\ UNCHANGED <<type, succ, grant, ended, firstEnd, clock>>
    BY <1>6 DEF Answer, fileVars, accessVars
  <2> QED
    BY <1>a, <2>1, <2>2 DEF Head
<1> QED
  BY <1>0, <1>1, <1>2, <1>3, <1>4, <1>5, <1>6, FileSteps

(* A revocation or an eviction goes through at the head of the chain.        *)
LEMMA HeadGone ==
  ASSUME IInv, NEW h \in Heads \cap sent, EraseStep({h}),
         access[h] \notin live, closed' \subseteq closed \cup {grant[h]}
  PROVE  RevokedIsGone'
  <1>0. HeadInv /\ RevokedIsGone /\ sent \subseteq Token
    BY DEF IInv, TypeOK
  <1>1. UNCHANGED <<sent, grant, live, broken>>
    BY DEF EraseStep
  <1>2. \A t \in Heads \cap sent : grant[t] = grant[h] => t = h
    BY <1>0 DEF HeadInv
  <1>3. \A a \in live \cap sent : grant[a] # grant[h]
    BY <1>0 DEF HeadInv
  <1>4. \A t \in Token : type'[t] = "refresh" => Head(t) /\ t # h
    BY EraseFacts DEF Head
  <1> QED
    BY <1>0, <1>1, <1>2, <1>3, <1>4 DEF RevokedIsGone, Head, Heads

LEMMA RevokedStep == IInv /\ TypeOK' /\ [Next]_vars => RevokedIsGone'
<1> SUFFICES ASSUME IInv, TypeOK', [Next]_vars PROVE RevokedIsGone'
  OBVIOUS
<1>0. /\ TypeOK /\ IssueInv /\ HandlerInv /\ AnswerInv /\ ChainInv /\ RevokedIsGone
      /\ sent \subseteq Token
  BY DEF IInv, TypeOK
<1> USE DEF Head
<1>1. CASE QuietStep
  BY <1>0, <1>1 DEF QuietStep, RevokedIsGone
<1>2. ASSUME NEW S, EraseStep(S), closed' = closed PROVE RevokedIsGone'
  <2>1. UNCHANGED <<sent, grant, live, broken>>
    BY <1>2 DEF EraseStep
  <2> QED
    BY <1>0, <1>2, <2>1, EraseFacts DEF RevokedIsGone
<1>3. ASSUME NEW t \in Token, EvictFile(t) PROVE RevokedIsGone'
  <2>1. EraseStep({t}) /\ access[t] \notin live /\ Head(t)
    BY <1>0, <1>3, Erasing DEF EvictFile, HandlerInv, AnswerInv
  <2>2. closed' = Close({t} \cap sent)
    BY <1>3 DEF EvictFile
  <2>3. CASE t \in sent
    BY <2>1, <2>2, <2>3, HeadGone DEF Close, Heads
  <2>4. CASE t \notin sent
    BY <1>2, <2>1, <2>2, <2>4 DEF Close
  <2> QED
    BY <2>3, <2>4
<1>4. CASE RevokeFile
  <2>1. /\ base \in sent /\ base \in Token /\ OnDisk(base) /\ grant[base] = under
        /\ EraseStep({base}) /\ access[base] \notin live /\ pc = "revoke"
    BY <1>0, <1>4, Erasing DEF RevokeFile, HandlerInv
  <2>2. CASE closed' = closed
    BY <1>2, <2>1, <2>2
  <2>3. CASE closed' # closed
    <3>1. /\ ~(succ[base] # None /\ type[succ[base]] # "absent")
          /\ closed' = Close({base})
      BY <1>4, <2>3 DEF RevokeFile
    <3>2. closed' = closed \cup {under} /\ under \notin closed /\ clock <= firstEnd[under]
      BY <2>1, <2>3, <3>1 DEF Close
    <3>3. CASE under \in broken
      BY <1>0, <2>1, <3>2, <3>3, EraseFacts DEF EraseStep, RevokedIsGone
    <3>4. CASE under \notin broken
      <4>1. type[base] # "refresh_rotated"
        <5>1. base >= base
          BY <1>0, <2>1, TokenFacts
        <5> QED
          BY <1>0, <2>1, <3>1, <3>2, <3>4, <5>1 DEF ChainInv, OnDisk
      <4>2. type[base] = "refresh"
        BY <1>0, <2>1, <4>1 DEF OnDisk, TypeOK
      <4> QED
        BY <2>1, <3>2, <4>2, HeadGone DEF Heads
    <3> QED
      BY <3>3, <3>4
  <2> QED
    BY <2>2, <2>3
<1>5. ASSUME NEW t \in Token, PresentExpired(t) PROVE RevokedIsGone'
  BY <1>0, <1>2, <1>5, Erasing DEF PresentExpired, history
<1>6. ASSUME NEW S \in SUBSET Token, Cleanup(S) PROVE RevokedIsGone'
  BY <1>0, <1>2, <1>6, Erasing DEF Cleanup, history
<1>7. CASE GrantAccess \/ NewAccess
  <2>1. next \in Token /\ next >= next
    BY <1>0, <1>7, TokenFacts DEF GrantAccess, NewAccess, HandlerInv
  <2>2. /\ live' = live \cup {next} /\ grant' = [grant EXCEPT ![next] = under]
        /\ UNCHANGED <<type, sent, closed, broken>>
    BY <1>7 DEF GrantAccess, NewAccess, WriteAccess, fileVars, history
  <2>3. next \notin sent /\ \A t \in sent : grant'[t] = grant[t]
    BY <1>0, <2>1, <2>2 DEF IssueInv, TypeOK
  <2> QED
    BY <1>0, <2>2, <2>3 DEF RevokedIsGone
<1>8. CASE GrantRefresh \/ NewRefresh \/ KeepHead
  <2>1. UNCHANGED <<grant, live, sent, closed, broken>>
    BY <1>8 DEF GrantRefresh, NewRefresh, KeepHead, accessVars, history
  <2>2. \A t \in sent : type'[t] = type[t]
    <3>1. CASE KeepHead
      BY <3>1 DEF KeepHead
    <3>2. CASE GrantRefresh \/ NewRefresh
      <4>1. Issue \notin sent
        BY <1>0, <3>2 DEF GrantRefresh, NewRefresh, HandlerInv, Issued
      <4>2. type' = [type EXCEPT ![Issue] = "refresh"]
        BY <3>2 DEF GrantRefresh, NewRefresh, WriteRefresh
      <4> QED
        BY <1>0, <4>1, <4>2 DEF TypeOK
    <3> QED
      BY <1>8, <3>1, <3>2
  <2> QED
    BY <1>0, <2>1, <2>2 DEF RevokedIsGone
<1>9. CASE MarkRotated
  <2>1. /\ base \in sent /\ Head(base) /\ grant[base] = under /\ grant[Issue] = under
    BY <1>0, <1>9 DEF MarkRotated, HandlerInv, Refreshes, Issued
  <2>2. under \notin closed \ broken
    BY <1>0, <2>1 DEF RevokedIsGone
  <2>3. /\ type' = [type EXCEPT ![base] = "refresh_rotated"] /\ sent' = sent \cup {Issue}
        /\ UNCHANGED <<grant, live, closed, broken>>
    BY <1>9 DEF MarkRotated
  <2>4. \A t \in Token : type'[t] = "refresh" => type[t] = "refresh"
    BY <1>0, <2>3 DEF TypeOK
  <2> QED
    BY <1>0, <2>1, <2>2, <2>3, <2>4 DEF RevokedIsGone
<1>10. ASSUME NEW arrives \in BOOLEAN, Answer(arrives) PROVE RevokedIsGone'
  <2>1. grant[Issue] = under /\ grant[value] = under /\ under \notin closed \ broken
    BY <1>0, <1>10 DEF Answer, AnswerInv
  <2>2. sent' = sent \cup {Issue, value} /\ UNCHANGED <<type, grant, live, closed, broken>>
    BY <1>10 DEF Answer, fileVars, accessVars
  <2> QED
    BY <1>0, <2>1, <2>2 DEF RevokedIsGone
<1> QED
  BY <1>0, <1>1, <1>3, <1>4, <1>5, <1>6, <1>7, <1>8, <1>9, <1>10, FileSteps DEF ErasesSome

-------------------------------------------------------------------------------
LEMMA InitHolds == Init => IInv
<1> SUFFICES ASSUME Init PROVE IInv
  OBVIOUS
<1> USE DEF Init
<1>1. TypeOK
  <2>1. 0 \in 0 .. MaxClock /\ 1 \in 1 .. MaxIssue + 1 /\ 0 \in Nat /\ "idle" \in Steps
    BY OAuthAssumption DEF Steps
  <2> QED
    BY <2>1 DEF TypeOK
<1>2. CodeInv /\ LinkInv /\ HeadInv /\ ChainInv /\ AnswerInv
  BY DEF CodeInv, LinkInv, HeadInv, ChainInv, AnswerInv
<1>3. IssueInv
  BY DEF IssueInv, OnDisk, None
<1>4. HandlerInv
  BY DEF HandlerInv, Redeems, Refreshes, Issued
<1>5. SessionsBounded
  <2>1. Heads \cap sent = {}
    OBVIOUS
  <2>2. Cardinality(Heads \cap sent) = 0
    BY <2>1, FS_EmptySet
  <2> QED
    BY <2>1, <2>2, OAuthAssumption DEF SessionsBounded
<1>6. ExpiryKept /\ OneLiveAccess /\ SessionSurvives /\ RevokedIsGone
  BY DEF ExpiryKept, OneLiveAccess, SessionSurvives, RevokedIsGone
<1> QED
  BY <1>1, <1>2, <1>3, <1>4, <1>5, <1>6 DEF IInv

(* The invariant: what the handlers know between two disk operations, and    *)
(* what the files of an authorization look like meanwhile.                   *)
THEOREM Inductive == Spec => []IInv
<1>1. IInv /\ [Next]_vars => IInv'
  BY TypeStep, CodeStep, IssueStep, LinkStep, HeadStep, ChainStep, HandlerStep, AnswerStep,
     ExpiryStep, BoundStep, SurviveStep, RevokedStep DEF IInv
<1> QED
  BY <1>1, InitHolds, PTL DEF Spec

(* Every variable has its type.                                              *)
THEOREM TypeCorrect == Spec => []TypeOK
<1>1. IInv => TypeOK
  BY DEF IInv
<1> QED
  BY <1>1, Inductive, PTL

(* A code opens at most one session, whatever crash follows its redemption.  *)
THEOREM CodesOpenOnce == Spec => []CodeOnce
<1>1. IInv => CodeOnce
  BY DEF IInv, CodeInv, CodeOnce
<1> QED
  BY <1>1, Inductive, PTL

(* Under one authorization at most one access token that left the process is *)
(* alive, through rotations, retries, lost answers and crashes.              *)
THEOREM OneAccessAlive == Spec => []OneLiveAccess
<1>1. IInv => OneLiveAccess
  BY DEF IInv
<1> QED
  BY <1>1, Inductive, PTL

(* No more than MaxSessions sessions can be held, one head each.             *)
THEOREM SessionsAlwaysBounded == Spec => []SessionsBounded
<1>1. IInv => SessionsBounded
  BY DEF IInv
<1> QED
  BY <1>1, Inductive, PTL

(* No crash and no lost answer strands the holder of a session.              *)
THEOREM HoldersNeverStranded == Spec => []SessionSurvives
<1>1. IInv => SessionSurvives
  BY DEF IInv
<1> QED
  BY <1>1, Inductive, PTL

(* Nothing of a revoked or evicted authorization works any more.             *)
THEOREM RevocationIsComplete == Spec => []RevokedIsGone
<1>1. IInv => RevokedIsGone
  BY DEF IInv
<1> QED
  BY <1>1, Inductive, PTL

(* Rotation does not stretch a session beyond its authorization.             *)
THEOREM RotationKeepsExpiry == Spec => []ExpiryKept
<1>1. IInv => ExpiryKept
  BY DEF IInv
<1> QED
  BY <1>1, Inductive, PTL

===============================================================================
