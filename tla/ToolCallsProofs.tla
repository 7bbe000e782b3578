---------------------------- MODULE ToolCallsProofs ----------------------------
(***************************************************************************)
(* What holds of the tool handlers for any number of sessions, any changes *)
(* made outside, and every set of plans of the given shape: a handler      *)
(* added later is covered if it awaits in that order.                      *)
(***************************************************************************)
EXTENDS ToolCalls, TLAPS

(* A call that runs has not answered, and a token in use is one of its own;  *)
(* only a preview may be confirmed.                                          *)
Phase(s) ==
  /\ todo[s] # <<>> => answer[s] = "none"
  /\ answer[s] = "none" => token[s] \in {"none", "pending", "executing"}
  /\ answer[s] = "preview" => token[s] = "pending"

(* The rest q of plan p is in the order that the plan's parts promise, given *)
(* what the steps before have done: whether they have changed anything, and  *)
(* the state of the token.  new: nothing is known of an item in the way.     *)
Allowed(q, p, acted, tok, new) ==
  \A k \in 1 .. Len(q) :
    /\ acted => q[k] \in Closing
    /\ q[k] \in Changing => \A j \in 1 .. Len(q) : j > k => q[j] \in Closing
    /\ q[k] \in {"complete", "done"} =>
         p.reads \/ acted \/ \E j \in 1 .. Len(q) : j < k /\ q[j] \in Changing
    /\ q[k] \in {"put", "unless"} /\ k > 1 => q[k - 1] \in {"read", "fetch"}
    /\ q[k] = "validate" => tok # "none"
    /\ q[k] = "unless" => tok = "none"
    /\ p.run # <<>> /\ q[k] \in Changing =>
         \/ tok = "executing"
         \/ \E j \in 1 .. Len(q) : j < k /\ q[j] = "validate"
         \/ k = 1 /\ q[k] = "save" /\ tok = "none" /\ new
    /\ p.binds /\ q[k] \in {"resolve", "find", "locate"} =>
         /\ tok # "executing"
         /\ \A j \in 1 .. Len(q) : j < k => q[j] # "validate"

Remaining(s) ==
  Allowed(todo[s], plan[s], did[s] = 1, token[s],
          item[target[s]] = Gone \/ "edited" \in stale[s])

(* What is merged, or was found missing, is what Home Assistant has.         *)
Current(s) ==
  At(s, "put") \/ At(s, "unless") =>
    seen[s] = item[target[s]] \/ "edited" \in stale[s]

(* A session works on what the name stands for, or on what the name is an id *)
(* of if it could not be resolved; and so with its preview.                  *)
Names(s) ==
  /\ target[s] \in {named, Raw} \/ "renamed" \in stale[s]
  /\ token[s] \in {"pending", "executing"} =>
       shown[s] \in {named, Raw} \/ "renamed" \in stale[s]
  /\ plan[s].binds /\ token[s] = "executing" => target[s] = shown[s]

Settled(s) ==
  Over(s) =>
    /\ token[s] = "executing" => answer[s] = "raised"
    /\ token[s] = "completed" => answer[s] \in {"ok", "not_found", "elsewhere"}
    /\ token[s] = "failed" => answer[s] \in {"error", "refused"}

Truthful(s) ==
  Over(s) =>
    /\ answer[s] \in {"ok", "elsewhere"} => did[s] = 1 \/ plan[s].reads
    /\ answer[s] \in {"preview", "refused", "not_found"} => did[s] = 0
    /\ answer[s] = "not_found" /\ item[target[s]] # Gone => stale[s] # {}

SessionInv(s) ==
  Phase(s) /\ Remaining(s) /\ Current(s) /\ Names(s) /\ Settled(s) /\ Truthful(s)

IInv == TypeOK /\ \A s \in Session : SessionInv(s)

(* To another session, a step is at most a change behind its back.           *)
Frame(r) ==
  /\ todo'[r] = todo[r] /\ answer'[r] = answer[r] /\ token'[r] = token[r]
  /\ plan'[r] = plan[r] /\ target'[r] = target[r] /\ seen'[r] = seen[r]
  /\ shown'[r] = shown[r] /\ did'[r] = did[r]
  /\ stale[r] \subseteq stale'[r]
  /\ item'[target[r]] = item[target[r]] \/ "edited" \in stale'[r]
  /\ named' = named \/ "renamed" \in stale'[r]

-------------------------------------------------------------------------------
(* The promises of a family's plans, for the plan of a session.              *)
LEMMA PlanFacts ==
  ASSUME TypeOK, NEW s \in Session
  PROVE  /\ plan[s] \in Plan
         /\ Ordered(plan[s].ask, plan[s].reads) /\ Ordered(plan[s].run, plan[s].reads)
         /\ AskOnly(plan[s]) /\ RunAccepted(plan[s])
  <1>1. PICK F \in Families : plan[s] \in F
    BY DEF TypeOK
  <1> QED
    BY <1>1, PlansAssumption

(* The rest of a sequence, index by index.                                   *)
LEMMA TailFacts ==
  ASSUME NEW S, NEW q \in Seq(S), q # <<>>
  PROVE  /\ 1 \in 1 .. Len(q) /\ Head(q) = q[1]
         /\ Tail(q) \in Seq(S) /\ Len(Tail(q)) = Len(q) - 1
         /\ \A k \in 1 .. Len(Tail(q)) : k + 1 \in 1 .. Len(q) /\ Tail(q)[k] = q[k + 1]
         /\ Tail(q) # <<>> => Head(Tail(q)) = q[2] /\ 1 \in 1 .. Len(Tail(q))
  OBVIOUS

LEMMA FrameKeeps ==
  ASSUME NEW r \in Session, SessionInv(r), Frame(r)
  PROVE  SessionInv(r)'
  <1> USE DEF Frame, SessionInv
  <1>1. Phase(r)'
    BY DEF Phase
  <1>2. Remaining(r)'
    BY DEF Remaining, Allowed
  <1>3. Current(r)'
    BY DEF Current, At
  <1>4. Names(r)'
    BY DEF Names
  <1>5. Settled(r)'
    BY DEF Settled, Over
  <1>6. Truthful(r)'
    BY DEF Truthful, Over
  <1> QED
    BY <1>1, <1>2, <1>3, <1>4, <1>5, <1>6

(* An answer is given with the state of the token that it tells of.          *)
LEMMA EndKeeps ==
  ASSUME TypeOK, NEW s \in Session, SessionInv(s), todo[s] # <<>>,
         NEW a \in Answers, NEW k, End(s, a, k), plan' = plan, Names(s)',
         <<a, k>> \in {<<"ok", "completed">>, <<"not_found", "completed">>,
                       <<"elsewhere", "completed">>, <<"refused", "failed">>,
                       <<"error", "failed">>, <<"raised", "executing">>},
         a \in {"ok", "elsewhere"} => did'[s] = 1 \/ plan[s].reads,
         a \in {"refused", "not_found"} => did'[s] = 0,
         a = "not_found" /\ item'[target'[s]] # Gone => stale'[s] # {}
  PROVE  SessionInv(s)'
  <1>1. /\ todo'[s] = <<>> /\ answer'[s] = a
        /\ token'[s] = IF token[s] = "executing" THEN k ELSE token[s]
    BY DEF TypeOK, End
  <1>2. token[s] \in {"none", "pending", "executing"}
    BY DEF SessionInv, Phase
  <1>3. a \notin {"none", "preview"}
    OBVIOUS
  <1>4. Phase(s)'
    BY <1>1, <1>3 DEF Phase
  <1>5. Remaining(s)' /\ Current(s)'
    BY <1>1 DEF Remaining, Allowed, Current, At
  <1>6. Settled(s)'
    BY <1>1, <1>2 DEF Settled, Over
  <1>7. Truthful(s)'
    BY <1>1, <1>3 DEF Truthful, Over
  <1> QED
    BY <1>1, <1>4, <1>5, <1>6, <1>7 DEF SessionInv

(* A step done leaves the promises of the plan to the steps after it.        *)
LEMMA AllowedTail ==
  ASSUME NEW q \in Seq(AnyStep), q # <<>>, NEW p, NEW acted \in BOOLEAN, NEW tok,
         NEW new \in BOOLEAN, Allowed(q, p, acted, tok, new), NEW now \in BOOLEAN, NEW nowTok,
         now <=> acted \/ q[1] \in Changing,
         nowTok = IF q[1] = "validate" THEN "executing" ELSE tok
  PROVE  Allowed(Tail(q), p, now, nowTok, FALSE)
  <1> DEFINE r == Tail(q)
  <1>1. /\ 1 \in 1 .. Len(q) /\ Len(r) \in Nat /\ Len(q) = Len(r) + 1
        /\ \A k \in 1 .. Len(r) : k + 1 \in 1 .. Len(q) /\ r[k] = q[k + 1]
    BY TailFacts
  <1> HIDE DEF r
  <1> SUFFICES ASSUME NEW k \in 1 .. Len(r)
               PROVE
        /\ now => r[k] \in Closing
        /\ r[k] \in Changing => \A j \in 1 .. Len(r) : j > k => r[j] \in Closing
        /\ r[k] \in {"complete", "done"} =>
             p.reads \/ now \/ \E j \in 1 .. Len(r) : j < k /\ r[j] \in Changing
        /\ r[k] \in {"put", "unless"} /\ k > 1 => r[k - 1] \in {"read", "fetch"}
        /\ r[k] = "validate" => nowTok # "none"
        /\ r[k] = "unless" => nowTok = "none"
        /\ p.run # <<>> /\ r[k] \in Changing =>
             nowTok = "executing" \/ \E j \in 1 .. Len(r) : j < k /\ r[j] = "validate"
        /\ p.binds /\ r[k] \in {"resolve", "find", "locate"} =>
             nowTok # "executing" /\ \A j \in 1 .. Len(r) : j < k => r[j] # "validate"
    BY DEF Allowed, r
  <1>2. k + 1 \in 1 .. Len(q) /\ r[k] = q[k + 1] /\ k + 1 > 1
    BY <1>1
  <1>3. \A j \in 1 .. Len(q) : j < k + 1 =>
          j = 1 \/ (j - 1 \in 1 .. Len(r) /\ j - 1 < k /\ r[j - 1] = q[j])
    BY <1>1
  <1>4. now => r[k] \in Closing
    BY <1>1, <1>2 DEF Allowed
  <1>5. r[k] \in Changing => \A j \in 1 .. Len(r) : j > k => r[j] \in Closing
    BY <1>1, <1>2 DEF Allowed
  <1>6. r[k] \in {"complete", "done"} =>
          p.reads \/ now \/ \E j \in 1 .. Len(r) : j < k /\ r[j] \in Changing
    <2>1. q[k + 1] \in {"complete", "done"} =>
            p.reads \/ acted \/ \E j \in 1 .. Len(q) : j < k + 1 /\ q[j] \in Changing
      BY <1>2 DEF Allowed
    <2> QED
      BY <1>2, <1>3, <2>1
  <1>7. r[k] \in {"put", "unless"} /\ k > 1 => r[k - 1] \in {"read", "fetch"}
    <2>1. q[k + 1] \in {"put", "unless"} => q[(k + 1) - 1] \in {"read", "fetch"}
      BY <1>2 DEF Allowed
    <2>2. k > 1 => k - 1 \in 1 .. Len(r) /\ (k - 1) + 1 = k
      BY <1>1
    <2>3. k > 1 => r[k - 1] = q[k]
      BY <1>1, <2>2
    <2> QED
      BY <1>1, <1>2, <2>1, <2>3
  <1>8. /\ r[k] = "validate" => nowTok # "none"
        /\ r[k] = "unless" => nowTok = "none"
    <2>1. /\ q[1] = "validate" => tok # "none"
          /\ q[k + 1] = "validate" => tok # "none"
          /\ q[k + 1] = "unless" => tok = "none"
      BY <1>1, <1>2 DEF Allowed
    <2> QED
      BY <1>2, <2>1
  <1>9. p.run # <<>> /\ r[k] \in Changing =>
          nowTok = "executing" \/ \E j \in 1 .. Len(r) : j < k /\ r[j] = "validate"
    <2>1. p.run # <<>> /\ q[k + 1] \in Changing =>
            tok = "executing" \/ \E j \in 1 .. Len(q) : j < k + 1 /\ q[j] = "validate"
      BY <1>2 DEF Allowed
    <2> QED
      BY <1>2, <1>3, <2>1
  <1>10. p.binds /\ r[k] \in {"resolve", "find", "locate"} =>
           nowTok # "executing" /\ \A j \in 1 .. Len(r) : j < k => r[j] # "validate"
    <2>1. p.binds /\ q[k + 1] \in {"resolve", "find", "locate"} =>
            tok # "executing" /\ \A j \in 1 .. Len(q) : j < k + 1 => q[j] # "validate"
      BY <1>2 DEF Allowed
    <2>2. \A j \in 1 .. Len(r) : j < k =>
            j + 1 \in 1 .. Len(q) /\ j + 1 < k + 1 /\ r[j] = q[j + 1]
      BY <1>1
    <2> QED
      BY <1>1, <1>2, <2>1, <2>2
  <1> QED
    BY <1>4, <1>5, <1>6, <1>7, <1>8, <1>9, <1>10


LEMMA AdvanceKeeps ==
  ASSUME TypeOK, NEW s \in Session, SessionInv(s), todo[s] # <<>>, Advance(s),
         answer' = answer, plan' = plan,
         token'[s] = IF At(s, "validate") THEN "executing" ELSE token[s],
         did'[s] = IF Head(todo[s]) \in Changing THEN 1 ELSE did[s],
         At(s, "read") \/ At(s, "fetch") =>
           seen'[s] = item'[target'[s]] \/ "edited" \in stale'[s],
         Names(s)'
  PROVE  SessionInv(s)'
  <1> DEFINE q == todo[s]
  <1>1. q \in Seq(AnyStep) /\ q # <<>> /\ todo'[s] = Tail(q)
    BY DEF TypeOK, Advance
  <1>2. /\ 1 \in 1 .. Len(q) /\ Head(q) = q[1]
        /\ Tail(q) # <<>> => Head(Tail(q)) = q[2] /\ 2 \in 1 .. Len(q)
    BY <1>1, TailFacts
  <1>3. answer'[s] = "none" /\ token[s] \in {"none", "pending", "executing"}
    BY DEF SessionInv, Phase
  <1>4. Phase(s)'
    BY <1>3 DEF Phase
  <1>5. Remaining(s)'
    <2>1. Allowed(q, plan[s], did[s] = 1, token[s],
                  item[target[s]] = Gone \/ "edited" \in stale[s])
      BY DEF SessionInv, Remaining
    <2>2. Allowed(Tail(q), plan[s], did'[s] = 1, token'[s], FALSE)
      <3>1. did'[s] = 1 <=> did[s] = 1 \/ q[1] \in Changing
        BY <1>2
      <3>2. token'[s] = IF q[1] = "validate" THEN "executing" ELSE token[s]
        BY <1>1, <1>2 DEF At
      <3> HIDE DEF q
      <3> QED
        BY <1>1, <2>1, <3>1, <3>2, AllowedTail
    <2> QED
      <3>1. ASSUME NEW r, NEW acted, NEW tok, NEW new, Allowed(r, plan[s], acted, tok, FALSE)
            PROVE  Allowed(r, plan[s], acted, tok, new)
        BY <3>1 DEF Allowed
      <3> HIDE DEF q
      <3> QED
        BY <1>1, <2>2, <3>1 DEF Remaining
  <1>6. Current(s)'
    <2>1. At(s, "put")' \/ At(s, "unless")' => At(s, "read") \/ At(s, "fetch")
      <3>1. q[2] \in {"put", "unless"} /\ 2 \in 1 .. Len(q) => q[1] \in {"read", "fetch"}
        <4>1. 2 \in 1 .. Len(q) /\ q[2] \in {"put", "unless"} /\ 2 > 1 =>
                q[2 - 1] \in {"read", "fetch"}
          BY DEF SessionInv, Remaining, Allowed
        <4> QED
          BY <4>1
      <3> QED
        BY <1>1, <1>2, <3>1 DEF At
    <2> QED
      BY <2>1 DEF Current
  <1>7. Settled(s)' /\ Truthful(s)'
    BY <1>3 DEF Settled, Truthful, Over
  <1> QED
    BY <1>4, <1>5, <1>6, <1>7 DEF SessionInv

-------------------------------------------------------------------------------
LEMMA TypeInit == Init => TypeOK
<1> SUFFICES ASSUME Init PROVE TypeOK
  OBVIOUS
<1>1. PICK F \in Families : plan \in [Session -> F]
  BY DEF Init
<1>2. plan \in [Session -> UNION Families]
  BY <1>1
<1>3. todo \in [Session -> Seq(AnyStep)]
  <2>1. \A s \in Session : plan[s].ask \in Seq(AnyStep)
    BY <1>1, PlansAssumption DEF Plan
  <2> QED
    BY <2>1 DEF Init
<1>4. Gone \in Written /\ Before \in Written
  BY DEF Gone, Before, Written, Author
<1>5. outside \in 0 .. MaxOutside
  BY ToolCallsAssumption DEF Init
<1> QED
  BY <1>2, <1>3, <1>4, <1>5 DEF Init, TypeOK, Answers, Id, Slot, Raw

(* What is written is by a known author.                                     *)
LEMMA WrittenFacts ==
  ASSUME TypeOK, NEW s \in Session
  PROVE  /\ Gone \in Written
         /\ [f \in Field |-> s] \in Written /\ [f \in Field |-> "outside"] \in Written
         /\ \A g \in Field : Becomes(s, g) \in Written
         /\ \A i \in Slot : [item[i] EXCEPT !["f"] = "outside"] \in Written
  <1>1. /\ Gone \in Written
        /\ [f \in Field |-> s] \in Written /\ [f \in Field |-> "outside"] \in Written
    BY DEF Gone, Written, Author
  <1>2. item[target[s]] \in Written /\ seen[s] \in Written /\ s \in Author
    BY DEF TypeOK, Author
  <1>3. ASSUME NEW g \in Field PROVE Becomes(s, g) \in Written
    <2>1. Merged(s, g) \in Written
      BY <1>2 DEF Merged, Written
    <2>2. /\ [item[target[s]] EXCEPT ![g] = s] \in Written
          /\ [Gone EXCEPT ![g] = s] \in Written
      BY <1>1, <1>2 DEF Written
    <2> QED
      BY <1>1, <1>2, <2>1, <2>2 DEF Becomes
  <1>4. \A i \in Slot : [item[i] EXCEPT !["f"] = "outside"] \in Written
    BY DEF TypeOK, Written, Author
  <1> QED
    BY <1>1, <1>3, <1>4

(* The rest of a call is a sequence of steps whatever becomes of it.         *)
LEMMA TodoTyped ==
  ASSUME TypeOK, NEW s \in Session, todo[s] # <<>>
  PROVE  /\ Advance(s) => todo' \in [Session -> Seq(AnyStep)]
         /\ \A a \in Answers, k \in {"completed", "failed", "executing"} : End(s, a, k) =>
              /\ todo' \in [Session -> Seq(AnyStep)]
              /\ answer' \in [Session -> Answers]
              /\ token' \in [Session -> {"none", "pending", "executing", "completed", "failed"}]
              /\ seen' \in [Session -> Written]
  <1>1. Tail(todo[s]) \in Seq(AnyStep) /\ <<>> \in Seq(AnyStep)
    BY DEF TypeOK
  <1>2. Gone \in Written
    BY WrittenFacts
  <1>3. Advance(s) => todo' \in [Session -> Seq(AnyStep)]
    BY <1>1 DEF TypeOK, Advance
  <1>4. ASSUME NEW a \in Answers, NEW k \in {"completed", "failed", "executing"}, End(s, a, k)
        PROVE  /\ todo' \in [Session -> Seq(AnyStep)]
               /\ answer' \in [Session -> Answers]
               /\ token' \in [Session -> {"none", "pending", "executing", "completed", "failed"}]
               /\ seen' \in [Session -> Written]
    BY <1>1, <1>2, <1>4 DEF TypeOK, End
  <1> QED
    BY <1>3, <1>4

LEMMA FailTyped ==
  ASSUME TypeOK, NEW s \in Session, todo[s] # <<>>, NEW e \in Error, Fail(s, e)
  PROVE  /\ todo' \in [Session -> Seq(AnyStep)]
         /\ answer' \in [Session -> Answers]
         /\ token' \in [Session -> {"none", "pending", "executing", "completed", "failed"}]
         /\ seen' \in [Session -> Written]
  <1>1. End(s, "error", "failed") \/ End(s, "raised", "executing")
    BY DEF Fail
  <1>2. "error" \in Answers /\ "raised" \in Answers
    BY DEF Answers
  <1> QED
    BY <1>1, <1>2, TodoTyped

LEMMA StaleTyped ==
  ASSUME TypeOK
  PROVE  /\ \A s \in Session, k \in Stale :
              /\ [stale EXCEPT ![s] = @ \cup {k}] \in [Session -> SUBSET Stale]
              /\ [stale EXCEPT ![s] = @ \ {k}] \in [Session -> SUBSET Stale]
         /\ stale \in [Session -> SUBSET Stale]
         /\ \A i, who : Outdate(i, who) \in [Session -> SUBSET Stale]
         /\ [s \in Session |-> stale[s] \cup {"renamed"}] \in [Session -> SUBSET Stale]
  <1>1. stale \in [Session -> SUBSET Stale]
    BY DEF TypeOK
  <1>2. \A s \in Session, k \in Stale :
          stale[s] \cup {k} \in SUBSET Stale /\ stale[s] \ {k} \in SUBSET Stale
    BY <1>1
  <1>3. "edited" \in Stale /\ "renamed" \in Stale
    BY DEF Stale
  <1>4. \A i, who : Outdate(i, who) \in [Session -> SUBSET Stale]
    BY <1>1, <1>2, <1>3 DEF Outdate
  <1> QED
    BY <1>1, <1>2, <1>3, <1>4

LEMMA TypeStep == TypeOK /\ [Next]_vars => TypeOK'
<1> SUFFICES ASSUME TypeOK, [Next]_vars PROVE TypeOK'
  OBVIOUS
<1> DEFINE Calls == /\ todo' \in [Session -> Seq(AnyStep)]
                    /\ answer' \in [Session -> Answers]
                    /\ token' \in [Session -> {"none", "pending", "executing", "completed",
                                               "failed"}]
                    /\ seen' \in [Session -> Written]
<1> USE DEF haVars, history
<1>1. CASE \E s \in Session : Step(s)
  <2> PICK s \in Session : Step(s)
    BY <1>1
  <2>1. ASSUME todo[s] # <<>>, NEW a \in Answers,
               NEW k \in {"completed", "failed", "executing"}, End(s, a, k)
        PROVE  Calls
    BY <2>1, TodoTyped
  <2>2. ASSUME todo[s] # <<>>, Goes(s)
        PROVE  Calls
    BY <2>2, TodoTyped DEF Goes, TypeOK
  <2>3. ASSUME todo[s] # <<>>, NEW e \in Error, Fail(s, e)
        PROVE  Calls
    BY <2>3, FailTyped
  <2>4. {"ok", "not_found", "elsewhere", "refused", "preview", "none", "error", "raised"}
          \subseteq Answers
    BY DEF Answers
  <2>5. CASE Checks(s)
    <3>1. Calls
      BY <2>1, <2>2, <2>4, <2>5 DEF Checks, At
    <3> QED
      BY <2>5, <3>1 DEF Checks, TypeOK
  <2>6. CASE Resolve(s)
    <3>1. Calls
      BY <2>2, <2>3, <2>6 DEF Resolve, At
    <3>2. /\ target' \in [Session -> Slot]
          /\ stale' \in [Session -> SUBSET Stale]
      <4>1. named \in Slot /\ Raw \in Slot
        BY DEF TypeOK, Slot
      <4>2. target' \in [Session -> Slot]
        BY <2>6, <4>1 DEF Resolve, Resolved, TypeOK
      <4>3. /\ [stale EXCEPT ![s] = @ \ {"renamed"}] \in [Session -> SUBSET Stale]
            /\ stale \in [Session -> SUBSET Stale]
        BY StaleTyped DEF Stale
      <4>4. \/ stale' = [stale EXCEPT ![s] = @ \ {"renamed"}]
            \/ stale' = stale
        BY <2>6, <4>3 DEF Resolve, Resolved
      <4> QED
        BY <4>2, <4>3, <4>4
    <3> QED
      BY <2>6, <3>1, <3>2 DEF Resolve, TypeOK
  <2>7. CASE Find(s)
    <3>1. Calls
      BY <2>1, <2>2, <2>3, <2>4, <2>7 DEF Find, At, Error, Uncaught
    <3>2. /\ target' \in [Session -> Slot]
          /\ stale' \in [Session -> SUBSET Stale]
      <4>1. target' \in [Session -> Slot]
        BY <2>7 DEF Find, Resolved, TypeOK, Slot
      <4>2. /\ [stale EXCEPT ![s] = @ \cup {"unheard"}] \in [Session -> SUBSET Stale]
            /\ [stale EXCEPT ![s] = @ \ {"renamed"}] \in [Session -> SUBSET Stale]
            /\ stale \in [Session -> SUBSET Stale]
        BY StaleTyped DEF Stale
      <4>3. \/ stale' = [stale EXCEPT ![s] = @ \cup {"unheard"}]
            \/ stale' = [stale EXCEPT ![s] = @ \ {"renamed"}]
            \/ stale' = stale
        BY <2>7, <4>2 DEF Find, Resolved
      <4> QED
        BY <4>1, <4>2, <4>3
    <3> QED
      BY <2>7, <3>1, <3>2 DEF Find, TypeOK
  <2>19. CASE Peek(s)
    <3>1. Calls
      BY <2>1, <2>2, <2>4, <2>19 DEF Peek, At, Uncaught
    <3> QED
      BY <2>19, <3>1 DEF Peek, TypeOK
  <2>8. CASE Reads(s)
    <3>1. Calls
      <4>1. CASE \E e \in Error : Fail(s, e)
        BY <2>3, <2>8, <4>1 DEF Reads, At
      <4>2. CASE Advance(s) /\ UNCHANGED <<answer, token>> /\ seen' \in [Session -> Written]
        BY <2>8, <4>2, TodoTyped DEF Reads, At, TypeOK
      <4>3. item[target[s]] \in Written /\ Gone \in Written
        BY WrittenFacts DEF TypeOK
      <4> QED
        BY <2>8, <4>1, <4>2, <4>3 DEF Reads, TypeOK
    <3>2. stale' \in [Session -> SUBSET Stale]
      BY <2>8, StaleTyped DEF Reads, Stale
    <3> QED
      BY <2>8, <3>1, <3>2 DEF Reads, TypeOK
  <2>9. CASE Exists(s)
    <3>1. Calls
      BY <2>1, <2>2, <2>3, <2>4, <2>9 DEF Exists, At
    <3> QED
      BY <2>9, <3>1 DEF Exists, TypeOK
  <2>10. CASE Issue(s)
    <3>1. Calls
      BY <2>10, <2>4, WrittenFacts DEF Issue, TypeOK
    <3> QED
      BY <2>10, <3>1 DEF Issue, TypeOK
  <2>11. CASE Confirm(s)
    <3>1. plan[s].run \in Seq(AnyStep)
      BY PlanFacts DEF Plan
    <3> QED
      BY <2>11, <2>4, <3>1 DEF Confirm, TypeOK
  <2>12. CASE Validate(s)
    <3>1. Calls
      BY <2>1, <2>4, <2>12, TodoTyped DEF Validate, At, TypeOK
    <3> QED
      BY <2>12, <3>1 DEF Validate, TypeOK
  <2>13. CASE Complete(s) \/ Finish(s)
    <3>1. Calls
      BY <2>1, <2>4, <2>13 DEF Complete, Finish, At
    <3> QED
      BY <2>13, <3>1 DEF Complete, Finish, TypeOK
  <2>14. CASE Track(s)
    <3>1. Calls
      BY <2>2, <2>3, <2>14 DEF Track, At, Error
    <3> QED
      BY <2>14, <3>1 DEF Track, TypeOK
  <2>15. CASE Change(s)
    <3>1. todo[s] # <<>>
      BY <2>15 DEF Change, Requests, At
    <3>2. Calls
      BY <2>2, <2>3, <2>15, <3>1 DEF Change
    <3>3. did' \in [Session -> 0 .. 1]
      <4>1. did' = [did EXCEPT ![s] = 1] \/ did' = did
        BY <2>15 DEF Change, Carry
      <4>2. did \in [Session -> 0 .. 1] /\ 1 \in 0 .. 1
        BY DEF TypeOK
      <4> QED
        BY <4>1, <4>2
    <3>5. item' \in [Slot -> Written]
      <4>1. item' = item \/ \E g \in Field : item' = [item EXCEPT ![target[s]] = Becomes(s, g)]
        BY <2>15 DEF Change, Carry
      <4>2. item \in [Slot -> Written] /\ \A g \in Field : Becomes(s, g) \in Written
        BY WrittenFacts DEF TypeOK
      <4> QED
        BY <4>1, <4>2
    <3>4. stale' \in [Session -> SUBSET Stale]
      BY <2>15, StaleTyped DEF Change, Carry, Stale
    <3> QED
      BY <2>15, <3>2, <3>3, <3>4, <3>5 DEF Change, TypeOK
  <2>16. CASE RemoveNothing(s)
    <3>1. Calls
      BY <2>1, <2>4, <2>16 DEF RemoveNothing, At
    <3> QED
      BY <2>16, <3>1 DEF RemoveNothing, TypeOK
  <2>17. CASE PutNew(s)
    <3>1. todo[s] # <<>>
      BY <2>17 DEF PutNew, At
    <3>2. Calls
      BY <2>1, <2>2, <2>3, <2>4, <2>17, <3>1 DEF PutNew
    <3>3. did' \in [Session -> 0 .. 1]
      <4>1. did' = [did EXCEPT ![s] = 1] \/ did' = did
        BY <2>17 DEF PutNew
      <4>2. did \in [Session -> 0 .. 1] /\ 1 \in 0 .. 1
        BY DEF TypeOK
      <4> QED
        BY <4>1, <4>2
    <3>5. item' \in [Slot -> Written]
      <4>1. item' = item \/ \E i \in Id : item' = [item EXCEPT ![i] = [f \in Field |-> s]]
        BY <2>17 DEF PutNew
      <4>2. item \in [Slot -> Written] /\ [f \in Field |-> s] \in Written
        BY WrittenFacts DEF TypeOK
      <4> QED
        BY <4>1, <4>2
    <3>4. stale' \in [Session -> SUBSET Stale]
      BY <2>17, StaleTyped DEF PutNew, Stale
    <3> QED
      BY <2>17, <3>2, <3>3, <3>4, <3>5 DEF PutNew, TypeOK
  <2>18. CASE SaveIfNone(s)
    <3>1. <<"save", "done">> \in Seq(AnyStep) /\ Tail(todo[s]) \in Seq(AnyStep)
      <4>1. "save" \in AnyStep /\ "done" \in AnyStep
        BY DEF AnyStep, Changing, Closing
      <4>2. todo[s] \in Seq(AnyStep) /\ todo[s] # <<>>
        BY <2>18 DEF SaveIfNone, At, TypeOK
      <4> QED
        BY <4>1, <4>2
    <3> QED
      BY <2>18, <3>1 DEF SaveIfNone, TypeOK
  <2> QED
    BY <2>5, <2>6, <2>7, <2>8, <2>9, <2>10, <2>11, <2>12, <2>13, <2>14, <2>15, <2>16, <2>17,
       <2>18, <2>19 DEF Step
<1>2. CASE Rename
  <2>1. outside' \in 0 .. MaxOutside /\ named' \in Id
    BY <1>2, ToolCallsAssumption DEF Rename, TypeOK, Id
  <2> QED
    BY <1>2, <2>1, StaleTyped DEF Rename, TypeOK, callVars
<1>3. CASE \E i \in Slot : Edit(i)
  <2> PICK i \in Slot : Edit(i)
    BY <1>3
  <2>1. [f \in Field |-> "outside"] \in Written /\ Gone \in Written
    BY DEF Gone, Written, Author
  <2>2. [item[i] EXCEPT !["f"] = "outside"] \in Written
    BY DEF TypeOK, Written, Author
  <2>3. item' \in [Slot -> Written]
    BY <2>1, <2>2 DEF Edit, TypeOK
  <2>4. outside' \in 0 .. MaxOutside
    BY ToolCallsAssumption DEF Edit, TypeOK
  <2> QED
    BY <2>3, <2>4, StaleTyped DEF Edit, TypeOK, callVars
<1>4. CASE UNCHANGED vars
  BY <1>4 DEF vars, callVars, TypeOK
<1> QED
  BY <1>1, <1>2, <1>3, <1>4 DEF Next

-------------------------------------------------------------------------------
(* An item that one session changes is outdated for whoever works on it.     *)
LEMMA OutdateFacts ==
  ASSUME TypeOK, NEW i \in Slot, NEW who, NEW r \in Session, r # who, NEW c \in Written,
         item' = [item EXCEPT ![i] = c],
         stale' = IF item' = item THEN stale ELSE Outdate(i, who)
  PROVE  /\ stale[r] \subseteq stale'[r]
         /\ item'[target[r]] = item[target[r]] \/ "edited" \in stale'[r]
  <1>1. CASE item' = item
    BY <1>1
  <1>2. CASE item' # item
    <2>1. stale'[r] = IF target[r] = i THEN stale[r] \cup {"edited"} ELSE stale[r]
      BY <1>2 DEF Outdate
    <2>2. target[r] # i => item'[target[r]] = item[target[r]]
      BY DEF TypeOK
    <2> QED
      BY <2>1, <2>2
  <1> QED
    BY <1>1, <1>2

LEMMA StepFrames ==
  ASSUME TypeOK, NEW s \in Session, NEW r \in Session, r # s, Step(s)
  PROVE  Frame(r)
  <1>1. CASE Change(s)
    <2>1. /\ todo'[r] = todo[r] /\ answer'[r] = answer[r] /\ token'[r] = token[r]
          /\ seen'[r] = seen[r]
      BY <1>1 DEF Change, Goes, Advance, Fail, End, TypeOK
    <2>2. CASE UNCHANGED <<item, did, stale>>
      BY <1>1, <2>1, <2>2 DEF Change, Frame
    <2>3. CASE Carry(s)
      <3>1. PICK g \in Field : item' = [item EXCEPT ![target[s]] = Becomes(s, g)]
        BY <2>3 DEF Carry
      <3>2. Becomes(s, g) \in Written /\ target[s] \in Slot
        BY WrittenFacts DEF TypeOK
      <3>3. did'[r] = did[r] /\ stale' = IF item' = item THEN stale ELSE Outdate(target[s], s)
        BY <2>3 DEF Carry, TypeOK
      <3>4. /\ stale[r] \subseteq stale'[r]
            /\ item'[target[r]] = item[target[r]] \/ "edited" \in stale'[r]
        BY <3>1, <3>2, <3>3, OutdateFacts
      <3> QED
        BY <1>1, <2>1, <3>3, <3>4 DEF Change, Frame
    <2> QED
      BY <1>1, <2>2, <2>3 DEF Change
  <1>2. CASE PutNew(s)
    <2>1. /\ todo'[r] = todo[r] /\ answer'[r] = answer[r] /\ token'[r] = token[r]
          /\ seen'[r] = seen[r]
      BY <1>2 DEF PutNew, Goes, Advance, Fail, End, TypeOK
    <2>2. CASE UNCHANGED <<item, did, stale>>
      BY <1>2, <2>1, <2>2 DEF PutNew, Frame
    <2>3. CASE ~UNCHANGED <<item, did, stale>>
      <3>1. PICK i \in Id : /\ item[i] = Gone
                            /\ item' = [item EXCEPT ![i] = [f \in Field |-> s]]
                            /\ did' = [did EXCEPT ![s] = 1]
                            /\ stale' = Outdate(i, s)
        BY <1>2, <2>3 DEF PutNew
      <3>2. stale'[r] = IF target[r] = i THEN stale[r] \cup {"edited"} ELSE stale[r]
        BY <3>1 DEF Outdate
      <3>3. target[r] # i => item'[target[r]] = item[target[r]]
        BY <3>1 DEF TypeOK
      <3>4. did'[r] = did[r]
        BY <3>1 DEF TypeOK
      <3> QED
        BY <1>2, <2>1, <3>2, <3>3, <3>4 DEF PutNew, Frame
    <2> QED
      BY <2>2, <2>3
  <1>3. CASE Checks(s) \/ Exists(s) \/ Validate(s) \/ Complete(s) \/ Finish(s) \/ Track(s)
    BY <1>3 DEF Checks, Exists, Validate, Complete, Finish, Track, Goes, Advance, Fail, End,
                TypeOK, Frame, haVars, history
  <1>4. CASE Resolve(s) \/ Find(s)
    BY <1>4 DEF Resolve, Find, Resolved, Goes, Advance, Fail, Uncaught, End, TypeOK, Frame,
                haVars
  <1>8. CASE Peek(s)
    BY <1>8 DEF Peek, Goes, Advance, Uncaught, End, TypeOK, Frame, haVars, history
  <1>5. CASE Reads(s)
    BY <1>5 DEF Reads, Advance, Fail, End, TypeOK, Frame, haVars
  <1>6. CASE Issue(s) \/ Confirm(s)
    BY <1>6 DEF Issue, Confirm, TypeOK, Frame, haVars, history
  <1>7. CASE RemoveNothing(s) \/ SaveIfNone(s)
    BY <1>7 DEF RemoveNothing, SaveIfNone, End, TypeOK, Frame, haVars, history
  <1> QED
    BY <1>1, <1>2, <1>3, <1>4, <1>5, <1>6, <1>7, <1>8 DEF Step

LEMMA NamesKept ==
  ASSUME NEW s \in Session, Names(s), plan' = plan, target'[s] = target[s],
         shown'[s] = shown[s], named' = named,
         "renamed" \in stale[s] => "renamed" \in stale'[s],
         token'[s] \in {"pending", "executing"} => token'[s] = token[s]
  PROVE  Names(s)'
  BY DEF Names

LEMMA FailKeeps ==
  ASSUME TypeOK, NEW s \in Session, SessionInv(s), todo[s] # <<>>,
         \/ \E e \in Error : Fail(s, e)
         \/ Uncaught(s) \/ End(s, "error", "failed"),
         plan' = plan, target' = target, shown' = shown, named' = named,
         "renamed" \in stale[s] => "renamed" \in stale'[s]
  PROVE  SessionInv(s)'
  <1>1. PICK p \in {<<"error", "failed">>, <<"raised", "executing">>} : End(s, p[1], p[2])
    BY DEF Fail, Uncaught
  <1>2. token'[s] \in {"pending", "executing"} => token'[s] = token[s]
    BY <1>1 DEF End, TypeOK
  <1>3. Names(s)'
    BY <1>2, NamesKept DEF SessionInv
  <1>4. p[1] \in {"error", "raised"} /\ <<p[1], p[2]>> = p /\ p[1] \in Answers
    BY DEF Answers
  <1> QED
    BY <1>1, <1>3, <1>4, EndKeeps

(* No call that has changed something does any of these again.               *)
LEMMA NotYet ==
  ASSUME TypeOK, NEW s \in Session, SessionInv(s), todo[s] # <<>>, Head(todo[s]) \notin Closing
  PROVE  did[s] = 0
  <1>1. todo[s] \in Seq(AnyStep)
    BY DEF TypeOK
  <1>2. 1 \in 1 .. Len(todo[s]) /\ Head(todo[s]) = todo[s][1]
    BY <1>1, TailFacts
  <1>3. did[s] = 1 => todo[s][1] \in Closing
    BY <1>2 DEF SessionInv, Remaining, Allowed
  <1>4. did[s] \in 0 .. 1
    BY DEF TypeOK
  <1> QED
    BY <1>2, <1>3, <1>4

(* What the order of the plan says of the step that is next.                 *)
LEMMA Foremost ==
  ASSUME TypeOK, NEW s \in Session, SessionInv(s), todo[s] # <<>>
  PROVE  /\ At(s, "complete") \/ At(s, "done") => plan[s].reads \/ did[s] = 1
         /\ At(s, "validate") => token[s] # "none"
         /\ At(s, "unless") => token[s] = "none"
         /\ Protected(s) /\ Head(todo[s]) \in Changing =>
              \/ token[s] = "executing"
              \/ /\ At(s, "save") /\ token[s] = "none"
                 /\ item[target[s]] = Gone \/ "edited" \in stale[s]
         /\ plan[s].binds /\ (At(s, "resolve") \/ At(s, "find") \/ At(s, "locate")) =>
              token[s] # "executing"
  <1>1. todo[s] \in Seq(AnyStep)
    BY DEF TypeOK
  <1>2. 1 \in 1 .. Len(todo[s]) /\ Head(todo[s]) = todo[s][1]
    BY <1>1, TailFacts
  <1>3. \A j \in 1 .. Len(todo[s]) : ~(j < 1)
    BY <1>1
  <1> QED
    BY <1>2, <1>3 DEF SessionInv, Remaining, Allowed, At, Protected

(* A whole plan is in that order, before a token and with one.               *)
LEMMA PlanShape ==
  ASSUME TypeOK, NEW s \in Session, NEW new
  PROVE  /\ Allowed(plan[s].ask, plan[s], FALSE, "none", new)
         /\ Allowed(plan[s].run, plan[s], FALSE, "pending", new)
         /\ \A q \in {plan[s].ask, plan[s].run} :
              q # <<>> => Head(q) \notin {"put", "unless"}
  <1> DEFINE p == plan[s]
  <1>1. p.ask \in Seq(AnyStep) /\ p.run \in Seq(AnyStep)
    BY PlanFacts DEF Plan
  <1>2. DOMAIN p.ask = 1 .. Len(p.ask) /\ DOMAIN p.run = 1 .. Len(p.run)
    BY <1>1
  <1>3. /\ Ordered(p.ask, p.reads) /\ Ordered(p.run, p.reads)
        /\ AskOnly(p) /\ RunAccepted(p)
    BY PlanFacts
  <1>4. \A q \in {p.ask, p.run} : q # <<>> => Head(q) \notin {"put", "unless"}
    <2> SUFFICES ASSUME NEW q \in {p.ask, p.run}, q # <<>>, Head(q) \in {"put", "unless"}
                 PROVE  FALSE
      OBVIOUS
    <2>1. q \in Seq(AnyStep)
      BY <1>1
    <2>2. 1 \in DOMAIN q /\ Head(q) = q[1]
      BY <2>1, TailFacts
    <2>3. q[1] \in {"put", "unless"} => 1 > 1
      BY <1>3, <2>2 DEF Ordered
    <2> QED
      BY <2>2, <2>3
  <1> HIDE DEF p
  <1>5. Allowed(p.ask, p, FALSE, "none", new)
    BY <1>2, <1>3 DEF Ordered, AskOnly, Allowed
  <1>6. Allowed(p.run, p, FALSE, "pending", new)
    BY <1>2, <1>3 DEF Ordered, RunAccepted, Allowed
  <1> QED
    BY <1>4, <1>5, <1>6 DEF p

LEMMA StepKeeps ==
  ASSUME TypeOK, NEW s \in Session, SessionInv(s), Step(s)
  PROVE  SessionInv(s)'
  <1> USE DEF haVars, history
  <1>1. ASSUME todo[s] # <<>>,
               \/ \E e \in Error : Fail(s, e)
               \/ Uncaught(s) \/ End(s, "error", "failed"),
               plan' = plan, target' = target, shown' = shown, named' = named,
               "renamed" \in stale[s] => "renamed" \in stale'[s]
        PROVE  SessionInv(s)'
    BY <1>1, FailKeeps
  <1>2. ASSUME todo[s] # <<>>, NEW a \in Answers, NEW k \in {"completed", "failed"}, End(s, a, k),
               target' = target, UNCHANGED <<plan, haVars, history>>
        PROVE  Names(s)'
    <2>1. token'[s] \in {"pending", "executing"} => token'[s] = token[s]
      BY <1>2 DEF End, TypeOK
    <2> QED
      BY <1>2, <2>1, NamesKept DEF SessionInv
  <1>3. ASSUME UNCHANGED <<plan, target, token, haVars, shown>>,
               "renamed" \in stale[s] => "renamed" \in stale'[s]
        PROVE  Names(s)'
    BY <1>3, NamesKept DEF SessionInv
  <1>4. {"ok", "not_found", "elsewhere", "refused", "error", "raised"} \subseteq Answers
    BY DEF Answers
  <1>5. CASE Checks(s)
    <2>1. todo[s] # <<>> /\ Head(todo[s]) \in {"ready", "check"} /\ did[s] = 0
      BY <1>5, NotYet DEF Checks, At, Closing
    <2>2. CASE Goes(s)
      <3>1. Names(s)'
        BY <1>3, <1>5, <2>2 DEF Checks, Goes
      <3> QED
        BY <1>5, <2>1, <2>2, <3>1, AdvanceKeeps DEF Checks, Goes, At, Changing
    <2>3. CASE End(s, "refused", "failed")
      <3>1. Names(s)'
        BY <1>2, <1>4, <1>5, <2>1, <2>3 DEF Checks
      <3> QED
        BY <1>4, <1>5, <2>1, <2>3, <3>1, EndKeeps DEF Checks
    <2> QED
      BY <1>5, <2>2, <2>3 DEF Checks
  <1>20. ASSUME NEW i \in {named, Raw}, Resolved(s, i), UNCHANGED <<plan, named, shown>>,
                plan[s].binds => token[s] # "executing",
                token'[s] \in {"pending", "executing"} => token'[s] = token[s]
         PROVE  Names(s)'
    <2>1. target'[s] = i /\ (token[s] # "none" => stale'[s] = stale[s])
      BY <1>20 DEF Resolved, TypeOK
    <2> QED
      BY <1>20, <2>1 DEF Names, SessionInv
  <1>6. CASE Resolve(s)
    <2>1. todo[s] # <<>> /\ Head(todo[s]) = "resolve"
      BY <1>6 DEF Resolve, At
    <2>2. plan[s].binds => token[s] # "executing"
      BY <2>1, Foremost DEF At
    <2>3. CASE \E i \in {named, Raw} : Goes(s) /\ Resolved(s, i)
      <3>1. Names(s)'
        BY <1>6, <1>20, <2>2, <2>3 DEF Resolve, Goes
      <3> QED
        BY <1>6, <2>1, <2>3, <3>1, AdvanceKeeps DEF Resolve, Goes, At, Changing
    <2>4. CASE \E e \in Error : Fail(s, e) /\ UNCHANGED <<target, stale>>
      BY <1>1, <1>6, <2>1, <2>4 DEF Resolve
    <2> QED
      BY <1>6, <2>3, <2>4 DEF Resolve
  <1>7. CASE Find(s)
    <2>1. todo[s] # <<>> /\ Head(todo[s]) \in {"find", "locate"} /\ did[s] = 0
      BY <1>7, NotYet DEF Find, At, Closing
    <2>2. plan[s].binds => token[s] # "executing"
      BY <2>1, Foremost DEF At
    <2>4. CASE Goes(s) /\ Resolved(s, named)
      <3>1. Names(s)'
        BY <1>7, <1>20, <2>2, <2>4 DEF Find, Goes
      <3> QED
        BY <1>7, <2>1, <2>4, <3>1, AdvanceKeeps DEF Find, Goes, At, Changing
    <2>5. CASE item[named] = Gone /\ End(s, "not_found", "completed") /\ Resolved(s, named)
      <3>1. token'[s] \in {"pending", "executing"} => token'[s] = token[s]
        BY <2>5 DEF End, TypeOK
      <3>2. Names(s)'
        BY <1>7, <1>20, <2>2, <2>5, <3>1 DEF Find
      <3>3. item'[target'[s]] = Gone /\ did' = did /\ plan' = plan
        BY <1>7, <2>5 DEF Find, Resolved, TypeOK
      <3> QED
        BY <1>4, <2>1, <2>5, <3>2, <3>3, EndKeeps
    <2>6. CASE /\ End(s, "not_found", "completed")
               /\ stale' = [stale EXCEPT ![s] = @ \cup {"unheard"}]
               /\ UNCHANGED target
      <3>1. token'[s] \in {"pending", "executing"} => token'[s] = token[s]
        BY <2>6 DEF End, TypeOK
      <3>2. stale'[s] = stale[s] \cup {"unheard"}
        BY <2>6 DEF TypeOK
      <3>3. Names(s)'
        BY <1>7, <2>6, <3>1, <3>2, NamesKept DEF Find, SessionInv
      <3> QED
        BY <1>4, <1>7, <2>1, <2>6, <3>2, <3>3, EndKeeps DEF Find
    <2>7. CASE /\ Fail(s, "other") \/ Uncaught(s) \/ End(s, "error", "failed")
               /\ UNCHANGED <<target, stale>>
      BY <1>1, <1>7, <2>1, <2>7 DEF Find, Error
    <2> QED
      BY <1>7, <2>4, <2>5, <2>6, <2>7 DEF Find
  <1>19. CASE Peek(s)
    <2>1. todo[s] # <<>> /\ Head(todo[s]) = "peek"
      BY <1>19 DEF Peek, At
    <2>2. CASE Goes(s)
      <3>1. Names(s)'
        BY <1>3, <1>19, <2>2 DEF Peek, Goes
      <3> QED
        BY <1>19, <2>1, <2>2, <3>1, AdvanceKeeps DEF Peek, Goes, At, Changing
    <2>3. CASE Uncaught(s)
      BY <1>1, <1>19, <2>1, <2>3 DEF Peek
    <2> QED
      BY <1>19, <2>2, <2>3 DEF Peek
  <1>8. CASE Reads(s)
    <2>1. todo[s] # <<>> /\ Head(todo[s]) \in {"look", "read", "fetch"}
      BY <1>8 DEF Reads, At
    <2>2. CASE \E e \in Error : Fail(s, e) /\ UNCHANGED stale
      BY <1>1, <1>8, <2>1, <2>2 DEF Reads
    <2>3. CASE /\ Advance(s)
               /\ seen' = [seen EXCEPT ![s] = item[target[s]]]
               /\ stale' = [stale EXCEPT ![s] = @ \ {"edited"}]
               /\ UNCHANGED <<answer, token>>
      <3>1. stale'[s] = stale[s] \ {"edited"} /\ seen'[s] = item[target[s]]
        BY <2>3 DEF TypeOK
      <3>2. Names(s)'
        BY <1>3, <1>8, <2>3, <3>1 DEF Reads
      <3> QED
        BY <1>8, <2>1, <2>3, <3>1, <3>2, AdvanceKeeps DEF Reads, At, Changing
    <2>4. CASE /\ At(s, "look")
               /\ Advance(s)
               /\ UNCHANGED <<answer, token, stale>>
      <3>1. Names(s)'
        BY <1>3, <1>8, <2>4 DEF Reads
      <3> QED
        BY <1>8, <2>1, <2>4, <3>1, AdvanceKeeps DEF Reads, At, Changing
    <2> QED
      BY <1>8, <2>2, <2>3, <2>4 DEF Reads
  <1>9. CASE Exists(s)
    <2>1. todo[s] # <<>> /\ Head(todo[s]) = "exists" /\ did[s] = 0
      BY <1>9, NotYet DEF Exists, At, Closing
    <2>2. CASE Goes(s)
      <3>1. Names(s)'
        BY <1>3, <1>9, <2>2 DEF Exists, Goes
      <3> QED
        BY <1>9, <2>1, <2>2, <3>1, AdvanceKeeps DEF Exists, Goes, At, Changing
    <2>3. CASE item[target[s]] = Gone /\ End(s, "not_found", "completed")
      <3>1. Names(s)'
        BY <1>2, <1>4, <1>9, <2>1, <2>3 DEF Exists
      <3> QED
        BY <1>4, <1>9, <2>1, <2>3, <3>1, EndKeeps DEF Exists
    <2>4. CASE \E e \in Error : Fail(s, e)
      BY <1>1, <1>9, <2>1, <2>4 DEF Exists
    <2> QED
      BY <1>9, <2>2, <2>3, <2>4 DEF Exists
  <1>10. CASE Issue(s)
    <2>1. todo[s] # <<>> /\ did[s] = 0
      BY <1>10, NotYet DEF Issue, At, Closing
    <2>2. /\ todo'[s] = <<>> /\ answer'[s] = "preview" /\ token'[s] = "pending"
          /\ shown'[s] = target[s] /\ did' = did /\ target' = target /\ named' = named
          /\ stale' = stale /\ plan' = plan
      BY <1>10 DEF Issue, TypeOK
    <2>3. Names(s)'
      BY <2>2 DEF Names, SessionInv
    <2> QED
      BY <2>1, <2>2, <2>3 DEF SessionInv, Phase, Remaining, Allowed, Current, At, Settled,
                              Truthful, Over
  <1>11. CASE Confirm(s)
    <2>1. /\ todo'[s] = plan[s].run /\ answer'[s] = "none"
          /\ UNCHANGED <<plan, token, target, seen, haVars, history>>
      BY <1>11 DEF Confirm, TypeOK
    <2>2. token[s] = "pending" /\ did[s] = 0
      BY <1>11 DEF Confirm, SessionInv, Phase, Truthful, Over
    <2>3. Allowed(plan[s].run, plan[s], FALSE, "pending",
                  item[target[s]] = Gone \/ "edited" \in stale[s])
      BY PlanShape
    <2>4. Remaining(s)'
      BY <2>1, <2>2, <2>3 DEF Remaining, Allowed
    <2>5. Current(s)'
      <3>1. ~(At(s, "put")' \/ At(s, "unless")')
        BY <2>1, PlanShape DEF At
      <3> QED
        BY <3>1 DEF Current
    <2>6. Names(s)'
      BY <1>3, <2>1
    <2> QED
      BY <2>1, <2>2, <2>4, <2>5, <2>6 DEF SessionInv, Phase, Settled, Truthful, Over
  <1>12. CASE Validate(s)
    <2>1. todo[s] # <<>> /\ Head(todo[s]) = "validate" /\ did[s] = 0
      BY <1>12, NotYet DEF Validate, At, Closing
    <2>2. CASE SameArguments(s) /\ Advance(s) /\ token' = [token EXCEPT ![s] = "executing"]
               /\ UNCHANGED <<answer, seen>>
      <3>1. token'[s] = "executing"
        BY <2>2 DEF TypeOK
      <3>2. token[s] # "none"
        BY <2>1, Foremost DEF At
      <3>3. token[s] \in {"pending", "executing"}
        BY <2>1, <3>2 DEF SessionInv, Phase
      <3>4. Names(s)'
        BY <1>12, <2>2, <3>1, <3>3 DEF Validate, Names, SessionInv, SameArguments
      <3> QED
        BY <1>12, <2>1, <2>2, <3>1, <3>4, AdvanceKeeps DEF Validate, At, Changing
    <2>3. CASE End(s, "refused", "failed")
      <3>1. Names(s)'
        BY <1>2, <1>4, <1>12, <2>1, <2>3 DEF Validate
      <3> QED
        BY <1>4, <1>12, <2>1, <2>3, <3>1, EndKeeps DEF Validate
    <2> QED
      BY <1>12, <2>2, <2>3 DEF Validate
  <1>13. CASE Complete(s) \/ Finish(s)
    <2>1. todo[s] # <<>> /\ Head(todo[s]) \in {"complete", "done"} /\ End(s, "ok", "completed")
      BY <1>13 DEF Complete, Finish, At
    <2>2. Names(s)'
      BY <1>2, <1>4, <1>13, <2>1 DEF Complete, Finish
    <2>3. plan[s].reads \/ did[s] = 1
      BY <2>1, Foremost DEF At
    <2> QED
      BY <1>4, <1>13, <2>1, <2>2, <2>3, EndKeeps DEF Complete, Finish
  <1>14. CASE Track(s)
    <2>1. todo[s] # <<>> /\ Head(todo[s]) = "track"
      BY <1>14 DEF Track, At
    <2>2. CASE Goes(s)
      <3>1. Names(s)'
        BY <1>3, <1>14, <2>2 DEF Track, Goes
      <3> QED
        BY <1>14, <2>1, <2>2, <3>1, AdvanceKeeps DEF Track, Goes, At, Changing
    <2>3. CASE Fail(s, "other")
      BY <1>1, <1>14, <2>1, <2>3 DEF Track, Error
    <2> QED
      BY <1>14, <2>2, <2>3 DEF Track
  <1>15. CASE Change(s)
    <2>1. todo[s] # <<>> /\ Head(todo[s]) \in Changing
      BY <1>15 DEF Change, Requests, At, Changing
    <2>2. "renamed" \in stale[s] => "renamed" \in stale'[s]
      BY <1>15 DEF Change, Carry, Outdate, TypeOK
    <2>3. CASE \E e \in Error : Fail(s, e)
      BY <1>1, <1>15, <2>1, <2>2, <2>3 DEF Change
    <2>4. CASE Goes(s) /\ Carry(s)
      <3>1. Names(s)'
        BY <1>15, <2>2, <2>4, NamesKept DEF Change, Goes, SessionInv
      <3>2. did'[s] = 1
        BY <2>4 DEF Carry, TypeOK
      <3> QED
        BY <1>15, <2>1, <2>4, <3>1, <3>2, AdvanceKeeps DEF Change, Goes, At, Changing
    <2> QED
      BY <1>15, <2>3, <2>4 DEF Change
  <1>16. CASE RemoveNothing(s)
    <2>1. todo[s] # <<>> /\ did[s] = 0 /\ End(s, "not_found", "completed")
          /\ item[target[s]] = Gone
      BY <1>16, NotYet DEF RemoveNothing, At, Closing
    <2>2. Names(s)'
      BY <1>2, <1>4, <1>16, <2>1 DEF RemoveNothing
    <2> QED
      BY <1>4, <1>16, <2>1, <2>2, EndKeeps DEF RemoveNothing
  <1>17. CASE PutNew(s)
    <2>1. todo[s] # <<>> /\ Head(todo[s]) = "put"
      BY <1>17 DEF PutNew, At
    <2>2. "renamed" \in stale[s] => "renamed" \in stale'[s]
      BY <1>17 DEF PutNew, Outdate, TypeOK
    <2>3. CASE \E e \in Error : Fail(s, e)
      BY <1>1, <1>17, <2>1, <2>2, <2>3 DEF PutNew
    <2>4. CASE did' = [did EXCEPT ![s] = 1] /\ (Goes(s) \/ End(s, "elsewhere", "completed"))
      <3>1. did'[s] = 1
        BY <2>4 DEF TypeOK
      <3>2. token'[s] \in {"pending", "executing"} => token'[s] = token[s]
        BY <2>4 DEF Goes, End, TypeOK
      <3>3. Names(s)'
        BY <1>17, <2>2, <3>2, NamesKept DEF PutNew, SessionInv
      <3>4. CASE Goes(s)
        BY <1>17, <2>1, <3>1, <3>3, <3>4, AdvanceKeeps DEF PutNew, Goes, At, Changing
      <3>5. CASE End(s, "elsewhere", "completed")
        BY <1>4, <1>17, <2>1, <3>1, <3>3, <3>5, EndKeeps DEF PutNew
      <3> QED
        BY <2>4, <3>4, <3>5
    <2> QED
      BY <1>17, <2>3, <2>4 DEF PutNew
  <1>18. CASE SaveIfNone(s)
    <2>1. todo[s] # <<>> /\ Head(todo[s]) = "unless" /\ did[s] = 0
      BY <1>18, NotYet DEF SaveIfNone, At, Closing
    <2>2. /\ UNCHANGED <<plan, answer, token, target, seen, haVars, history>>
          /\ todo'[s] = IF seen[s] = Gone THEN <<"save", "done">> ELSE Tail(todo[s])
      BY <1>18 DEF SaveIfNone, TypeOK
    <2>3. Names(s)'
      BY <1>3, <2>2
    <2>4. CASE seen[s] # Gone
      <3>1. Advance(s)
        BY <1>18, <2>4 DEF SaveIfNone, Advance, TypeOK
      <3> QED
        BY <2>1, <2>2, <2>3, <3>1, AdvanceKeeps DEF At, Changing
    <2>5. CASE seen[s] = Gone
      <3>1. item[target[s]] = Gone \/ "edited" \in stale[s]
        BY <2>1, <2>5 DEF SessionInv, Current, At
      <3>2. token[s] = "none"
        BY <2>1, Foremost DEF At
      <3>3. todo'[s] = <<"save", "done">> /\ answer'[s] = "none"
        BY <2>1, <2>2, <2>5 DEF SessionInv, Phase
      <3>4. Remaining(s)'
        <4>1. LET q == <<"save", "done">>
              IN /\ Len(q) = 2 /\ q[1] = "save" /\ q[2] = "done"
                 /\ \A k \in 1 .. Len(q) : k = 1 \/ k = 2
          OBVIOUS
        <4>2. "done" \in Closing /\ "save" \in Changing /\ "done" \notin Changing
          BY DEF Closing, Changing
        <4>3. did'[s] = 0 /\ token'[s] = "none" /\ plan' = plan
              /\ (item'[target'[s]] = Gone \/ "edited" \in stale'[s])
          BY <2>1, <2>2, <3>1, <3>2
        <4>4. Allowed(<<"save", "done">>, plan[s], did'[s] = 1, token'[s],
                      item'[target'[s]] = Gone \/ "edited" \in stale'[s])
          BY <4>1, <4>2, <4>3 DEF Allowed
        <4> QED
          BY <3>3, <4>3, <4>4 DEF Remaining
      <3>5. Current(s)'
        BY <3>3 DEF Current, At
      <3> QED
        BY <2>2, <2>3, <3>2, <3>3, <3>4, <3>5 DEF SessionInv, Phase, Settled, Truthful, Over
    <2> QED
      BY <2>4, <2>5
  <1> QED
    BY <1>5, <1>6, <1>7, <1>8, <1>9, <1>10, <1>11, <1>12, <1>13, <1>14, <1>15, <1>16, <1>17,
       <1>18, <1>19 DEF Step

(* The invariant the theorems below are read off: it relates what a handler  *)
(* has asked, been answered and done to the token table and to the files.    *)
THEOREM Inductive == Spec => []IInv
<1>1. Init => IInv
  <2> SUFFICES ASSUME Init PROVE IInv
    OBVIOUS
  <2>1. TypeOK
    BY TypeInit
  <2> SUFFICES ASSUME NEW s \in Session PROVE SessionInv(s)
    BY <2>1 DEF IInv
  <2>2. /\ todo[s] = plan[s].ask /\ answer[s] = "none" /\ token[s] = "none" /\ did[s] = 0
        /\ target[s] = named /\ shown[s] = named
    BY DEF Init
  <2>3. Remaining(s)
    <3>1. Allowed(plan[s].ask, plan[s], FALSE, "none",
                  item[target[s]] = Gone \/ "edited" \in stale[s])
      BY <2>1, PlanShape
    <3> QED
      BY <2>2, <3>1 DEF Remaining, Allowed
  <2>4. Current(s)
    <3>1. ~(At(s, "put") \/ At(s, "unless"))
      BY <2>1, <2>2, PlanShape DEF At
    <3> QED
      BY <3>1 DEF Current
  <2> QED
    BY <2>2, <2>3, <2>4 DEF SessionInv, Phase, Names, Settled, Truthful, Over
<1>2. IInv /\ [Next]_vars => IInv'
  <2> SUFFICES ASSUME IInv, [Next]_vars PROVE IInv'
    OBVIOUS
  <2>1. TypeOK /\ TypeOK'
    BY TypeStep DEF IInv
  <2> SUFFICES ASSUME NEW r \in Session PROVE SessionInv(r)'
    BY <2>1 DEF IInv
  <2>2. SessionInv(r)
    BY DEF IInv
  <2>3. ASSUME NEW s \in Session, Step(s) PROVE SessionInv(r)'
    BY <2>1, <2>2, <2>3, StepKeeps, StepFrames, FrameKeeps
  <2>4. CASE Rename
    <3>1. Frame(r)
      BY <2>4 DEF Rename, Frame, callVars
    <3> QED
      BY <2>2, <3>1, FrameKeeps
  <2>5. ASSUME NEW i \in Slot, Edit(i) PROVE SessionInv(r)'
    <3>1. /\ UNCHANGED <<callVars, named, shown, did>> /\ stale' = Outdate(i, "outside")
          /\ target[r] # i => item'[target[r]] = item[target[r]]
      BY <2>1, <2>5 DEF Edit, TypeOK
    <3>2. r # "outside"
      BY ToolCallsAssumption
    <3>3. stale'[r] = IF target[r] = i THEN stale[r] \cup {"edited"} ELSE stale[r]
      BY <3>1, <3>2 DEF Outdate
    <3>4. Frame(r)
      BY <3>1, <3>3 DEF Frame, callVars
    <3> QED
      BY <2>2, <3>4, FrameKeeps
  <2>6. CASE UNCHANGED vars
    <3>1. Frame(r)
      BY <2>6 DEF vars, callVars, haVars, history, Frame
    <3> QED
      BY <2>2, <3>1, FrameKeeps
  <2> QED
    BY <2>3, <2>4, <2>5, <2>6 DEF Next
<1> QED
  BY <1>1, <1>2, PTL DEF Spec

-------------------------------------------------------------------------------
(* The variables keep their types: what Home Assistant stores is always      *)
(* somebody's, field by field.                                               *)
THEOREM TypeCorrect == Spec => []TypeOK
<1>1. IInv => TypeOK
  BY DEF IInv
<1> QED
  BY <1>1, Inductive, PTL

(* A call that answers leaves its token in the state its answer tells; only  *)
(* an exception that the handler does not catch leaves it "executing".       *)
THEOREM TokensAlwaysSettled == Spec => []TokensSettled
<1>1. IInv => TokensSettled
  BY DEF IInv, SessionInv, Settled, TokensSettled
<1> QED
  BY <1>1, Inductive, PTL

(* The answer tells what Home Assistant did.                                 *)
THEOREM AnswersAlwaysTrue == Spec => []AnswersTrue
<1>1. IInv => AnswersTrue
  BY DEF IInv, SessionInv, Truthful, Names, AnswersTrue
<1> QED
  BY <1>1, Inductive, PTL

(* Whatever a step makes Home Assistant carry out, it does for one session.  *)
LEMMA DoneByOne ==
  ASSUME TypeOK, Next, NEW s \in Session, did'[s] # did[s]
  PROVE  \/ Change(s) /\ Carry(s)
         \/ PutNew(s) /\ did' = [did EXCEPT ![s] = 1]
  <1>1. ~UNCHANGED did
    OBVIOUS
  <1>2. PICK r \in Session : Step(r)
    BY <1>1 DEF Next, Rename, Edit
  <1>3. r = s
    BY <1>2, StepFrames DEF Frame
  <1> QED
    BY <1>1, <1>2, <1>3 DEF Step, Checks, Resolve, Find, Peek, Reads, Exists, Issue, Confirm,
         Validate, Complete, Finish, Track, Change, RemoveNothing, PutNew, SaveIfNone, history

(* A protected tool changes only the item its preview was about, under a     *)
(* token being executed, unless the name has come to stand for another item, *)
(* or could not be resolved in one of the calls, and the token is not bound  *)
(* to the resolved id; and the one save without a token overwrites nothing.  *)
THEOREM WritesOnlyWhatWasShown == Spec => WritesWhatWasShown
<1> DEFINE Writes == \A s \in Session : did'[s] # did[s] /\ Protected(s) =>
             IF token[s] = "executing"
             THEN \/ target[s] = shown[s]
                  \/ ~plan[s].binds /\ ("renamed" \in stale[s] \/ Raw \in {target[s], shown[s]})
             ELSE /\ At(s, "save") /\ token[s] = "none"
                  /\ item[target[s]] = Gone \/ "edited" \in stale[s]
<1>1. IInv /\ [Next]_vars => [Writes]_vars
  <2> SUFFICES ASSUME IInv, Next, NEW s \in Session, did'[s] # did[s], Protected(s)
               PROVE  IF token[s] = "executing"
                      THEN \/ target[s] = shown[s]
                           \/ /\ ~plan[s].binds
                              /\ "renamed" \in stale[s] \/ Raw \in {target[s], shown[s]}
                      ELSE /\ At(s, "save") /\ token[s] = "none"
                           /\ item[target[s]] = Gone \/ "edited" \in stale[s]
    OBVIOUS
  <2>1. TypeOK /\ SessionInv(s)
    BY DEF IInv
  <2>2. todo[s] # <<>> /\ Head(todo[s]) \in Changing
    BY <2>1, DoneByOne DEF Change, Requests, PutNew, At, Changing
  <2>3. CASE token[s] = "executing"
    BY <2>1, <2>3 DEF SessionInv, Names
  <2>4. CASE token[s] # "executing"
    BY <2>1, <2>2, <2>4, Foremost
  <2> QED
    BY <2>3, <2>4
<1> QED
  BY <1>1, Inductive, PTL DEF Spec, WritesWhatWasShown

(* What a tool writes leaves the fields it was not given as they are, unless *)
(* it replaces the whole, or the item was edited since the tool read it.     *)
THEOREM FieldsAlwaysKept == Spec => FieldsKept
<1> DEFINE Kept == \A s \in Session, i \in Slot :
             did'[s] # did[s] /\ ~At(s, "save") /\ ~At(s, "replace")
               /\ item[i] # Gone /\ item'[i] # Gone
               => "edited" \in stale[s] \/ LeavesRest(i)
<1>1. IInv /\ [Next]_vars => [Kept]_vars
  <2> SUFFICES ASSUME IInv, Next, NEW s \in Session, NEW i \in Slot, did'[s] # did[s],
                      ~At(s, "save"), ~At(s, "replace"), item[i] # Gone, item'[i] # Gone,
                      "edited" \notin stale[s]
               PROVE  \E g \in Field : \A f \in Field \ {g} : item'[i][f] = item[i][f]
    BY DEF LeavesRest
  <2>1. TypeOK /\ SessionInv(s)
    BY DEF IInv
  <2>2. CASE item'[i] = item[i]
    BY <2>2 DEF Field
  <2>3. CASE item'[i] # item[i]
    <3>1. CASE PutNew(s) /\ did' = [did EXCEPT ![s] = 1]
      <4>1. did' # did
        OBVIOUS
      <4>2. PICK j \in Id : item[j] = Gone /\ item' = [item EXCEPT ![j] = [f \in Field |-> s]]
        BY <3>1, <4>1 DEF PutNew
      <4> QED
        BY <2>1, <2>3, <4>2 DEF TypeOK
    <3>2. CASE Change(s) /\ Carry(s)
      <4>1. PICK g \in Field : item' = [item EXCEPT ![target[s]] = Becomes(s, g)]
        BY <3>2 DEF Carry
      <4>2. i = target[s] /\ item'[i] = Becomes(s, g)
        BY <2>1, <2>3, <4>1 DEF TypeOK
      <4>3. item[i] \in Written
        BY <2>1 DEF TypeOK
      <4>4. CASE At(s, "put")
        <5>1. seen[s] = item[i]
          BY <2>1, <4>2, <4>4 DEF SessionInv, Current
        <5>2. item'[i] = Merged(s, g)
          BY <4>2, <4>4 DEF Becomes, At
        <5> QED
          BY <5>1, <5>2 DEF Merged
      <4>5. CASE At(s, "change")
        <5>1. item'[i] = [item[i] EXCEPT ![g] = s]
          BY <4>2, <4>5 DEF Becomes, At
        <5> QED
          BY <4>3, <5>1 DEF Written
      <4>6. CASE At(s, "remove")
        BY <4>2, <4>6 DEF Becomes, At
      <4>7. CASE At(s, "create") \/ At(s, "invoke")
        BY <2>3, <4>2, <4>7 DEF Becomes, At
      <4> QED
        BY <3>2, <4>4, <4>5, <4>6, <4>7 DEF Change, Requests
    <3> QED
      BY <2>1, <3>1, <3>2, DoneByOne
  <2> QED
    BY <2>2, <2>3
<1> QED
  BY <1>1, Inductive, PTL DEF Spec, FieldsKept
===============================================================================
