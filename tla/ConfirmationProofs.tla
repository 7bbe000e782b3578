-------------------------- MODULE ConfirmationProofs --------------------------
(***************************************************************************)
(* Proofs about Confirmation for any sets of tokens, actions and calls and *)
(* any TTL: the inductive invariant behind "at most once", and the step    *)
(* simulation by ConfirmedAction.                                          *)
(***************************************************************************)
EXTENDS Confirmation, TLAPS

(* A file carries the action its token was issued for; a token that was      *)
(* never issued has left no trace.                                           *)
FilesInv ==
  \A t \in Token :
    /\ state[t] # "absent" => issued[t] # NoAction /\ bound[t] = issued[t]
    /\ issued[t] = NoAction => t \notin accepted /\ age[t] = 0

(* A pending file expires TTL after its preview, no later.                   *)
WindowInv == \A t \in Token : state[t] = "pending" => left[t] + age[t] = TTL + 1

(* Acceptance is what uses a token up: before it no request exists, after it *)
(* the file is never pending again.                                          *)
AcceptedInv ==
  \A t \in Token :
    /\ t \in accepted => state[t] # "pending"
    /\ t \notin accepted => \A a \in Action : sent[t][a] = 0 /\ applied[t][a] = 0

(* A running handler is the only one with its token, does what the token was *)
(* issued for, and has sent nothing before its one request.                  *)
HandlerInv ==
  \A c \in Call : stage[c] # "idle" =>
    /\ holds[c] \in accepted
    /\ does[c] = issued[holds[c]] /\ does[c] \in Action
    /\ \A d \in Call : stage[d] # "idle" /\ holds[d] = holds[c] => d = c
    /\ stage[c] = "validated" =>
         \A a \in Action : sent[holds[c]][a] = 0 /\ applied[holds[c]][a] = 0

(* On the wire and carried out together: one request at most.                *)
RequestInv ==
  \A t \in Token, a \in Action :
    /\ sent[t][a] + applied[t][a] <= 1
    /\ sent[t][a] > 0 \/ applied[t][a] > 0 => a = issued[t]

IInv == TypeOK /\ FilesInv /\ WindowInv /\ AcceptedInv /\ HandlerInv /\ RequestInv

-------------------------------------------------------------------------------
(* A saturating counter stays within its bound. *)
LEMMA BoundedIncrement ==
  ASSUME NEW m \in Nat, NEW n \in 0 .. m + 1, n # m + 1
  PROVE  n + 1 \in 0 .. m + 1
OBVIOUS

-------------------------------------------------------------------------------
(* Every step keeps the types; that a handler at work holds a token comes from
   HandlerInv. *)
LEMMA TypeStep ==
  ASSUME IInv, [Next]_vars
  PROVE  TypeOK'
<1>. USE ConfirmationAssumption DEF IInv, TypeOK, States, AcceptedInv, HandlerInv, fileVars, callVars, history
<1>1. ASSUME NEW t \in Token, NEW a \in Action, Preview(t, a)
      PROVE  TypeOK'
  BY <1>1 DEF Preview
<1>2. ASSUME NEW c \in Call, NEW t \in Token, NEW a \in Action, Accept(c, t, a)
      PROVE  TypeOK'
  BY <1>2 DEF Accept, Expired
<1>3. ASSUME NEW t \in Token, RefuseExpired(t)
      PROVE  TypeOK'
  BY <1>3 DEF RefuseExpired, UnlinkAll
<1>4. ASSUME NEW c \in Call, Send(c)
      PROVE  TypeOK'
  BY <1>4 DEF Send
<1>5. ASSUME NEW c \in Call, Complete(c)
      PROVE  TypeOK'
  <2>1. holds[c] \in Token
    BY <1>5 DEF Complete
  <2>2. CASE state[holds[c]] = "absent"
    BY <1>5, <2>2 DEF Complete, Finish, Release
  <2>3. CASE state[holds[c]] # "absent"
    <3>1. state' = [state EXCEPT ![holds[c]] = "completed"]
      BY <1>5, <2>3 DEF Complete, Finish
    <3>2. left' = [left EXCEPT ![holds[c]] = TTL + 1]
      BY <1>5, <2>3 DEF Complete, Finish
    <3>3. state' \in [Token -> States \cup {"absent"}]
      BY <2>1, <3>1
    <3>4. TTL + 1 \in 0 .. TTL + 1
      OBVIOUS
    <3>5. left' \in [Token -> 0 .. TTL + 1]
      BY <2>1, <3>2, <3>4
    <3>. QED
      BY <1>5, <2>3, <3>3, <3>5 DEF Complete, Finish, Release
  <2>. QED
    BY <2>2, <2>3
<1>6. ASSUME NEW c \in Call, Fail(c)
      PROVE  TypeOK'
  <2>1. holds[c] \in Token
    BY <1>6 DEF Fail
  <2>2. CASE state[holds[c]] = "absent"
    BY <1>6, <2>2 DEF Fail, Finish, Release
  <2>3. CASE state[holds[c]] # "absent"
    <3>1. state' = [state EXCEPT ![holds[c]] = "failed"]
      BY <1>6, <2>3 DEF Fail, Finish
    <3>2. left' = [left EXCEPT ![holds[c]] = TTL + 1]
      BY <1>6, <2>3 DEF Fail, Finish
    <3>3. state' \in [Token -> States \cup {"absent"}]
      BY <2>1, <3>1
    <3>4. TTL + 1 \in 0 .. TTL + 1
      OBVIOUS
    <3>5. left' \in [Token -> 0 .. TTL + 1]
      BY <2>1, <3>2, <3>4
    <3>. QED
      BY <1>6, <2>3, <3>3, <3>5 DEF Fail, Finish, Release
  <2>. QED
    BY <2>2, <2>3
<1>7. ASSUME NEW c \in Call, Abandon(c)
      PROVE  TypeOK'
  BY <1>7 DEF Abandon, Release
<1>8. ASSUME NEW t \in Token, NEW a \in Action, HaApply(t, a)
      PROVE  TypeOK'
  BY <1>8 DEF HaApply
<1>9. ASSUME NEW t \in Token, NEW a \in Action, HaLose(t, a)
      PROVE  TypeOK'
  BY <1>9 DEF HaLose
<1>10. ASSUME Cleanup
      PROVE  TypeOK'
  BY <1>10 DEF Cleanup, UnlinkAll
<1>11. ASSUME Crash
      PROVE  TypeOK'
  BY <1>11 DEF Crash
<1>12. ASSUME Boot
      PROVE  TypeOK'
  BY <1>12 DEF Boot, UnlinkAll
<1>13. ASSUME Tick
      PROVE  TypeOK'
  <2>1. left' \in [Token -> 0 .. TTL + 1]
    BY <1>13 DEF Tick
  <2>2. ASSUME NEW t \in Token
        PROVE  (IF issued[t] = NoAction \/ age[t] = TTL + 1
                THEN age[t] ELSE age[t] + 1) \in 0 .. TTL + 1
    <3>1. TTL \in Nat /\ age[t] \in 0 .. TTL + 1
      OBVIOUS
    <3>2. age[t] # TTL + 1 => age[t] + 1 \in 0 .. TTL + 1
      BY <3>1, BoundedIncrement
    <3>3. CASE issued[t] = NoAction \/ age[t] = TTL + 1
      BY <3>1, <3>3, Zenon
    <3>4. CASE ~(issued[t] = NoAction \/ age[t] = TTL + 1)
      BY <3>2, <3>4, Zenon
    <3>. QED
      BY <3>3, <3>4
  <2>3. age' \in [Token -> 0 .. TTL + 1]
    BY <1>13, <2>2 DEF Tick
  <2>. QED
    BY <1>13, <2>1, <2>3 DEF Tick
<1>14. CASE UNCHANGED vars
  BY <1>14 DEF vars
<1>. QED
  BY <1>1, <1>2, <1>3, <1>4, <1>5, <1>6, <1>7,
     <1>8, <1>9, <1>10, <1>11, <1>12, <1>13, <1>14 DEF Next

-------------------------------------------------------------------------------
(* Only Preview creates a file, and it binds it to what it issues. *)
LEMMA FilesStep ==
  ASSUME IInv, [Next]_vars
  PROVE  FilesInv'
<1>. USE ConfirmationAssumption DEF IInv, TypeOK, States, FilesInv, fileVars, callVars, history
<1>1. ASSUME NEW t \in Token, NEW a \in Action, Preview(t, a)
      PROVE  FilesInv'
  BY <1>1 DEF Preview
<1>2. ASSUME NEW c \in Call, NEW t \in Token, NEW a \in Action, Accept(c, t, a)
      PROVE  FilesInv'
  BY <1>2 DEF Accept, Expired
<1>3. ASSUME NEW t \in Token, RefuseExpired(t)
      PROVE  FilesInv'
  BY <1>3 DEF RefuseExpired, UnlinkAll
<1>4. ASSUME NEW c \in Call, Send(c)
      PROVE  FilesInv'
  BY <1>4 DEF Send
<1>5. ASSUME NEW c \in Call, Complete(c)
      PROVE  FilesInv'
  BY <1>5 DEF Complete, Finish, Release
<1>6. ASSUME NEW c \in Call, Fail(c)
      PROVE  FilesInv'
  BY <1>6 DEF Fail, Finish, Release
<1>7. ASSUME NEW c \in Call, Abandon(c)
      PROVE  FilesInv'
  BY <1>7 DEF Abandon, Release
<1>8. ASSUME NEW t \in Token, NEW a \in Action, HaApply(t, a)
      PROVE  FilesInv'
  BY <1>8 DEF HaApply
<1>9. ASSUME NEW t \in Token, NEW a \in Action, HaLose(t, a)
      PROVE  FilesInv'
  BY <1>9 DEF HaLose
<1>10. ASSUME Cleanup
      PROVE  FilesInv'
  BY <1>10 DEF Cleanup, UnlinkAll
<1>11. ASSUME Crash
      PROVE  FilesInv'
  BY <1>11 DEF Crash
<1>12. ASSUME Boot
      PROVE  FilesInv'
  BY <1>12 DEF Boot, UnlinkAll
<1>13. ASSUME Tick
      PROVE  FilesInv'
  BY <1>13 DEF Tick
<1>14. CASE UNCHANGED vars
  BY <1>14 DEF vars
<1>. QED
  BY <1>1, <1>2, <1>3, <1>4, <1>5, <1>6, <1>7,
     <1>8, <1>9, <1>10, <1>11, <1>12, <1>13, <1>14 DEF Next

-------------------------------------------------------------------------------
(* Finish gives a file a new lifetime, never to a pending one. *)
LEMMA WindowStep ==
  ASSUME IInv, [Next]_vars
  PROVE  WindowInv'
<1>. USE ConfirmationAssumption DEF IInv, TypeOK, States, FilesInv, WindowInv, AcceptedInv, HandlerInv, fileVars, callVars, history
<1>1. ASSUME NEW t \in Token, NEW a \in Action, Preview(t, a)
      PROVE  WindowInv'
  BY <1>1 DEF Preview
<1>2. ASSUME NEW c \in Call, NEW t \in Token, NEW a \in Action, Accept(c, t, a)
      PROVE  WindowInv'
  BY <1>2 DEF Accept, Expired
<1>3. ASSUME NEW t \in Token, RefuseExpired(t)
      PROVE  WindowInv'
  BY <1>3 DEF RefuseExpired, UnlinkAll
<1>4. ASSUME NEW c \in Call, Send(c)
      PROVE  WindowInv'
  BY <1>4 DEF Send
<1>5. ASSUME NEW c \in Call, Complete(c)
      PROVE  WindowInv'
  BY <1>5 DEF Complete, Finish, Release
<1>6. ASSUME NEW c \in Call, Fail(c)
      PROVE  WindowInv'
  BY <1>6 DEF Fail, Finish, Release
<1>7. ASSUME NEW c \in Call, Abandon(c)
      PROVE  WindowInv'
  BY <1>7 DEF Abandon, Release
<1>8. ASSUME NEW t \in Token, NEW a \in Action, HaApply(t, a)
      PROVE  WindowInv'
  BY <1>8 DEF HaApply
<1>9. ASSUME NEW t \in Token, NEW a \in Action, HaLose(t, a)
      PROVE  WindowInv'
  BY <1>9 DEF HaLose
<1>10. ASSUME Cleanup
      PROVE  WindowInv'
  BY <1>10 DEF Cleanup, UnlinkAll
<1>11. ASSUME Crash
      PROVE  WindowInv'
  BY <1>11 DEF Crash
<1>12. ASSUME Boot
      PROVE  WindowInv'
  BY <1>12 DEF Boot, UnlinkAll
<1>13. ASSUME Tick
      PROVE  WindowInv'
  BY <1>13 DEF Tick
<1>14. CASE UNCHANGED vars
  BY <1>14 DEF vars
<1>. QED
  BY <1>1, <1>2, <1>3, <1>4, <1>5, <1>6, <1>7,
     <1>8, <1>9, <1>10, <1>11, <1>12, <1>13, <1>14 DEF Next

-------------------------------------------------------------------------------
(* Accept is the only way to a first request, and it takes the file out of
   "pending". *)
LEMMA AcceptedStep ==
  ASSUME IInv, [Next]_vars
  PROVE  AcceptedInv'
<1>. USE ConfirmationAssumption DEF IInv, TypeOK, States, FilesInv, AcceptedInv, HandlerInv, fileVars, callVars, history
<1>1. ASSUME NEW t \in Token, NEW a \in Action, Preview(t, a)
      PROVE  AcceptedInv'
  BY <1>1 DEF Preview
<1>2. ASSUME NEW c \in Call, NEW t \in Token, NEW a \in Action, Accept(c, t, a)
      PROVE  AcceptedInv'
  BY <1>2 DEF Accept, Expired
<1>3. ASSUME NEW t \in Token, RefuseExpired(t)
      PROVE  AcceptedInv'
  BY <1>3 DEF RefuseExpired, UnlinkAll
<1>4. ASSUME NEW c \in Call, Send(c)
      PROVE  AcceptedInv'
  BY <1>4 DEF Send
<1>5. ASSUME NEW c \in Call, Complete(c)
      PROVE  AcceptedInv'
  BY <1>5 DEF Complete, Finish, Release
<1>6. ASSUME NEW c \in Call, Fail(c)
      PROVE  AcceptedInv'
  BY <1>6 DEF Fail, Finish, Release
<1>7. ASSUME NEW c \in Call, Abandon(c)
      PROVE  AcceptedInv'
  BY <1>7 DEF Abandon, Release
<1>8. ASSUME NEW t \in Token, NEW a \in Action, HaApply(t, a)
      PROVE  AcceptedInv'
  BY <1>8 DEF HaApply
<1>9. ASSUME NEW t \in Token, NEW a \in Action, HaLose(t, a)
      PROVE  AcceptedInv'
  BY <1>9 DEF HaLose
<1>10. ASSUME Cleanup
      PROVE  AcceptedInv'
  BY <1>10 DEF Cleanup, UnlinkAll
<1>11. ASSUME Crash
      PROVE  AcceptedInv'
  BY <1>11 DEF Crash
<1>12. ASSUME Boot
      PROVE  AcceptedInv'
  BY <1>12 DEF Boot, UnlinkAll
<1>13. ASSUME Tick
      PROVE  AcceptedInv'
  BY <1>13 DEF Tick
<1>14. CASE UNCHANGED vars
  BY <1>14 DEF vars
<1>. QED
  BY <1>1, <1>2, <1>3, <1>4, <1>5, <1>6, <1>7,
     <1>8, <1>9, <1>10, <1>11, <1>12, <1>13, <1>14 DEF Next

-------------------------------------------------------------------------------
(* Two handlers never hold one token: Accept needs a token nobody was accepted
   with. *)
LEMMA HandlerStep ==
  ASSUME IInv, [Next]_vars
  PROVE  HandlerInv'
<1>. USE ConfirmationAssumption DEF IInv, TypeOK, States, FilesInv, AcceptedInv, HandlerInv, fileVars, callVars, history
<1>1. ASSUME NEW t \in Token, NEW a \in Action, Preview(t, a)
      PROVE  HandlerInv'
  BY <1>1 DEF Preview
<1>2. ASSUME NEW c \in Call, NEW t \in Token, NEW a \in Action, Accept(c, t, a)
      PROVE  HandlerInv'
  BY <1>2 DEF Accept, Expired
<1>3. ASSUME NEW t \in Token, RefuseExpired(t)
      PROVE  HandlerInv'
  BY <1>3 DEF RefuseExpired, UnlinkAll
<1>4. ASSUME NEW c \in Call, Send(c)
      PROVE  HandlerInv'
  BY <1>4 DEF Send
<1>5. ASSUME NEW c \in Call, Complete(c)
      PROVE  HandlerInv'
  BY <1>5 DEF Complete, Finish, Release
<1>6. ASSUME NEW c \in Call, Fail(c)
      PROVE  HandlerInv'
  BY <1>6 DEF Fail, Finish, Release
<1>7. ASSUME NEW c \in Call, Abandon(c)
      PROVE  HandlerInv'
  BY <1>7 DEF Abandon, Release
<1>8. ASSUME NEW t \in Token, NEW a \in Action, HaApply(t, a)
      PROVE  HandlerInv'
  BY <1>8 DEF HaApply
<1>9. ASSUME NEW t \in Token, NEW a \in Action, HaLose(t, a)
      PROVE  HandlerInv'
  BY <1>9 DEF HaLose
<1>10. ASSUME Cleanup
      PROVE  HandlerInv'
  BY <1>10 DEF Cleanup, UnlinkAll
<1>11. ASSUME Crash
      PROVE  HandlerInv'
  BY <1>11 DEF Crash
<1>12. ASSUME Boot
      PROVE  HandlerInv'
  BY <1>12 DEF Boot, UnlinkAll
<1>13. ASSUME Tick
      PROVE  HandlerInv'
  BY <1>13 DEF Tick
<1>14. CASE UNCHANGED vars
  BY <1>14 DEF vars
<1>. QED
  BY <1>1, <1>2, <1>3, <1>4, <1>5, <1>6, <1>7,
     <1>8, <1>9, <1>10, <1>11, <1>12, <1>13, <1>14 DEF Next

-------------------------------------------------------------------------------
(* Send comes from a handler that has sent nothing. *)
LEMMA RequestStep ==
  ASSUME IInv, [Next]_vars
  PROVE  RequestInv'
<1>. USE ConfirmationAssumption DEF IInv, TypeOK, States, FilesInv, HandlerInv, RequestInv, fileVars, callVars, history
<1>1. ASSUME NEW t \in Token, NEW a \in Action, Preview(t, a)
      PROVE  RequestInv'
  BY <1>1 DEF Preview
<1>2. ASSUME NEW c \in Call, NEW t \in Token, NEW a \in Action, Accept(c, t, a)
      PROVE  RequestInv'
  BY <1>2 DEF Accept, Expired
<1>3. ASSUME NEW t \in Token, RefuseExpired(t)
      PROVE  RequestInv'
  BY <1>3 DEF RefuseExpired, UnlinkAll
<1>4. ASSUME NEW c \in Call, Send(c)
      PROVE  RequestInv'
  <2>1. holds[c] \in Token /\ does[c] \in Action
    BY <1>4 DEF Send
  <2>2. \A a \in Action : sent[holds[c]][a] = 0 /\ applied[holds[c]][a] = 0
    BY <1>4 DEF Send
  <2>3. ASSUME NEW t \in Token, NEW a \in Action
        PROVE  /\ (sent[t][a] + applied[t][a] <= 1)'
               /\ (sent[t][a] > 0 \/ applied[t][a] > 0 => a = issued[t])'
    <3>1. CASE t = holds[c] /\ a = does[c]
      BY <1>4, <2>1, <2>2, <3>1 DEF Send
    <3>2. CASE ~(t = holds[c] /\ a = does[c])
      <4>1. sent'[t][a] = sent[t][a]
        BY <1>4, <2>1, <3>2 DEF Send
      <4>. QED
        BY <1>4, <4>1 DEF Send
    <3>. QED
      BY <3>1, <3>2
  <2>. QED
    BY <2>3
<1>5. ASSUME NEW c \in Call, Complete(c)
      PROVE  RequestInv'
  BY <1>5 DEF Complete, Finish, Release
<1>6. ASSUME NEW c \in Call, Fail(c)
      PROVE  RequestInv'
  BY <1>6 DEF Fail, Finish, Release
<1>7. ASSUME NEW c \in Call, Abandon(c)
      PROVE  RequestInv'
  BY <1>7 DEF Abandon, Release
<1>8. ASSUME NEW t \in Token, NEW a \in Action, HaApply(t, a)
      PROVE  RequestInv'
  BY <1>8 DEF HaApply
<1>9. ASSUME NEW t \in Token, NEW a \in Action, HaLose(t, a)
      PROVE  RequestInv'
  BY <1>9 DEF HaLose
<1>10. ASSUME Cleanup
      PROVE  RequestInv'
  BY <1>10 DEF Cleanup, UnlinkAll
<1>11. ASSUME Crash
      PROVE  RequestInv'
  BY <1>11 DEF Crash
<1>12. ASSUME Boot
      PROVE  RequestInv'
  BY <1>12 DEF Boot, UnlinkAll
<1>13. ASSUME Tick
      PROVE  RequestInv'
  BY <1>13 DEF Tick
<1>14. CASE UNCHANGED vars
  BY <1>14 DEF vars
<1>. QED
  BY <1>1, <1>2, <1>3, <1>4, <1>5, <1>6, <1>7,
     <1>8, <1>9, <1>10, <1>11, <1>12, <1>13, <1>14 DEF Next

-------------------------------------------------------------------------------
(* The add-on starts with an empty directory and no call.                    *)
LEMMA InductiveInit == Init => IInv
BY ConfirmationAssumption
DEF Init, IInv, TypeOK, States, FilesInv, WindowInv, AcceptedInv, HandlerInv, RequestInv

(* No step of a handler, of the cleanup, of Home Assistant or of a crash
   leaves the invariant. *)
LEMMA InductiveStep == IInv /\ [Next]_vars => IInv'
BY TypeStep, FilesStep, WindowStep, AcceptedStep, HandlerStep, RequestStep DEF IInv

(* The inductive invariant holds in every run of the token files and their
   handlers; the theorems below are read off it. *)
THEOREM Inductive == Spec => []IInv
BY InductiveInit, InductiveStep, PTL DEF Spec

(* Every variable keeps to its type, for every Token, Action, Call and TTL.  *)
THEOREM TypeCorrect == Spec => []TypeOK
<1>1. IInv => TypeOK
  BY DEF IInv
<1>. QED
  BY <1>1, Inductive, PTL

(* HA carries out at most one action per token, the previewed one: any      *)
(* number of concurrent calls, retries, crashes, restarts and late or lost   *)
(* requests (validate_confirmation_token, complete_confirmation_token).      *)
THEOREM AtMostOnceHolds == Spec => []AtMostOnce
<1>1. IInv => AtMostOnce
  <2> SUFFICES ASSUME IInv, NEW t \in Token, NEW a \in Action, applied[t][a] > 0
               PROVE  applied[t][a] = 1 /\ a = issued[t]
    BY DEF AtMostOnce
  <2>1. sent[t][a] \in Nat /\ applied[t][a] \in Nat
    BY DEF IInv, TypeOK
  <2>. QED
    BY <2>1 DEF IInv, RequestInv
<1>. QED
  BY <1>1, Inductive, PTL

(* The completion of a run that outlived its file does not bring it back.    *)
THEOREM NoResurrectionHolds == Spec => NoResurrection
<1>1. IInv /\ [Next]_vars =>
        [\A t \in Token :
           issued[t] # NoAction /\ state[t] = "absent" => state'[t] = "absent"]_vars
  <2> SUFFICES ASSUME IInv, Next, NEW t \in Token,
                      issued[t] # NoAction, state[t] = "absent"
               PROVE  state'[t] = "absent"
    OBVIOUS
  <2>. USE DEF IInv, TypeOK, fileVars
  <2>1. CASE \E u \in Token, a \in Action : Preview(u, a)
    BY <2>1 DEF Preview
  <2>2. CASE \E c \in Call, u \in Token, a \in Action : Accept(c, u, a)
    BY <2>2 DEF Accept
  <2>3. CASE (\E u \in Token : RefuseExpired(u)) \/ Cleanup \/ Boot
    BY <2>3 DEF RefuseExpired, Cleanup, Boot, UnlinkAll
  <2>4. CASE \E c \in Call : Complete(c) \/ Fail(c)
    BY <2>4 DEF Complete, Fail, Finish
  <2>5. CASE \/ \E c \in Call : Send(c) \/ Abandon(c)
             \/ \E u \in Token, a \in Action : HaApply(u, a) \/ HaLose(u, a)
             \/ Crash \/ Tick
    BY <2>5 DEF Send, Abandon, HaApply, HaLose, Crash, Tick
  <2>. QED
    BY <2>1, <2>2, <2>3, <2>4, <2>5 DEF Next
<1>. QED
  BY <1>1, Inductive, PTL DEF Spec, NoResurrection

-------------------------------------------------------------------------------
(* Each step is a step of ConfirmedAction or leaves its variables alone.     *)
LEMMA PreviewSimulates ==
  ASSUME IInv, NEW t \in Token, NEW a \in Action, Preview(t, a)
  PROVE  Promise!Grant(t, a)
<1>1. age[t] = 0 /\ age' = age
  BY DEF Preview, IInv, FilesInv
<1>2. a # NoAction
  BY ConfirmationAssumption
<1>3. 0 <= TTL
  BY ConfirmationAssumption
<1>4. issued'[t] = a /\ \A u \in Token \ {t} : issued'[u] = issued[u]
  BY DEF Preview, IInv, TypeOK
<1>5. {u \in Token : issued'[u] # NoAction /\ age'[u] <= TTL}
        = {u \in Token : issued[u] # NoAction /\ age[u] <= TTL} \cup {t}
  BY <1>1, <1>2, <1>3, <1>4
<1>. QED
  BY <1>5 DEF Preview, Promise!Grant

(* validate_confirmation_token is the promise's Start, inside the window and
   with nothing started before. *)
LEMMA AcceptSimulates ==
  ASSUME IInv, NEW c \in Call, NEW t \in Token, NEW a \in Action, Accept(c, t, a)
  PROVE  Promise!Start(t)
<1>1. issued[t] # NoAction /\ t \notin accepted
  BY DEF Accept, IInv, FilesInv, AcceptedInv
<1>2. left[t] \in 0 .. TTL + 1 /\ left[t] # 0 /\ age[t] \in 0 .. TTL + 1
  BY DEF Accept, Expired, IInv, TypeOK
<1>3. left[t] + age[t] = TTL + 1
  BY DEF Accept, IInv, WindowInv
<1>4. age[t] <= TTL
  BY <1>2, <1>3, ConfirmationAssumption
<1>. QED
  BY <1>1, <1>4 DEF Accept, Promise!Start

(* What Home Assistant carries out is the promise's Happen: a request exists
   only for an accepted token and the action it was issued for. *)
LEMMA ApplySimulates ==
  ASSUME IInv, NEW t \in Token, NEW a \in Action, HaApply(t, a)
  PROVE  Promise!Happen(t)
<1>1. t \in accepted
  BY DEF HaApply, IInv, AcceptedInv
<1>2. \A b \in Action : sent[t][b] \in Nat /\ applied[t][b] \in Nat
  BY DEF IInv, TypeOK
<1>3. a = issued[t]
  BY DEF HaApply, IInv, RequestInv
<1>4. \A b \in Action : applied[t][b] = 0
  BY <1>2, <1>3 DEF HaApply, IInv, RequestInv
<1>5. applied[t][a] + 1 = 1
  BY <1>4
<1>6. applied' = [applied EXCEPT ![t][a] = applied[t][a] + 1]
  BY DEF HaApply
<1>7. applied' = [applied EXCEPT ![t][issued[t]] = 1]
  BY <1>3, <1>5, <1>6, Zenon
<1>. QED
  BY <1>1, <1>4, <1>7 DEF HaApply, Promise!Happen

LEMMA TickSimulates ==
  ASSUME IInv, Tick
  PROVE  Promise!Lapse
<1>1. ASSUME NEW t \in Token, age'[t] <= TTL
      PROVE  age[t] <= TTL
  <2>1. age[t] \in 0 .. TTL + 1
    BY DEF IInv, TypeOK
  <2>2. age'[t] = age[t] \/ age'[t] = age[t] + 1
    BY DEF Tick
  <2>. QED
    BY <1>1, <2>1, <2>2, ConfirmationAssumption
<1>2. {t \in Token : issued'[t] # NoAction /\ age'[t] <= TTL}
        \in SUBSET {t \in Token : issued[t] # NoAction /\ age[t] <= TTL}
  BY <1>1 DEF Tick
<1>. QED
  BY <1>2 DEF Tick, Promise!Lapse

(* The token files, handlers, cleanup, crashes and restarts of Hermes        *)
(* implement the bare promise of the two steps.                              *)
THEOREM PromiseKept == Spec => ImplementsPromise
<1>1. Init => Promise!Init
  <2> SUFFICES ASSUME Init PROVE Promise!Init
    OBVIOUS
  <2>1. {t \in Token : issued[t] # NoAction /\ age[t] <= TTL} = {}
    BY DEF Init
  <2>. QED
    BY <2>1 DEF Init, Promise!Init
<1>2. IInv /\ [Next]_vars => [Promise!Next]_(Promise!vars)
  <2> SUFFICES ASSUME IInv, [Next]_vars
               PROVE  Promise!Next \/ UNCHANGED Promise!vars
    OBVIOUS
  <2>1. ASSUME NEW t \in Token, NEW a \in Action, Preview(t, a)
        PROVE  Promise!Next
    BY <2>1, PreviewSimulates DEF Promise!Next
  <2>2. ASSUME NEW c \in Call, NEW t \in Token, NEW a \in Action, Accept(c, t, a)
        PROVE  Promise!Next
    BY <2>2, AcceptSimulates DEF Promise!Next
  <2>3. ASSUME NEW t \in Token, NEW a \in Action, HaApply(t, a)
        PROVE  Promise!Next
    BY <2>3, ApplySimulates DEF Promise!Next
  <2>4. CASE Tick
    BY <2>4, TickSimulates DEF Promise!Next
  <2>5. CASE \/ \E t \in Token : RefuseExpired(t)
             \/ \E c \in Call : Send(c) \/ Complete(c) \/ Fail(c) \/ Abandon(c)
             \/ \E t \in Token, a \in Action : HaLose(t, a)
             \/ Cleanup \/ Crash \/ Boot
             \/ UNCHANGED vars
    <3>1. UNCHANGED history
      BY <2>5 DEF RefuseExpired, Send, Complete, Fail, Abandon, HaLose, Cleanup,
                  Crash, Boot, vars
    <3>. QED
      BY <3>1 DEF history, Promise!vars
  <2>. QED
    BY <2>1, <2>2, <2>3, <2>4, <2>5 DEF Next
<1>. QED
  BY <1>1, <1>2, Inductive, PTL DEF Spec, ImplementsPromise, Promise!Spec
===============================================================================
