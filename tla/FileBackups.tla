------------------------------- MODULE FileBackups -------------------------------
(***************************************************************************)
(* The copies that are kept of files under /config (fs_write.py), and the  *)
(* tools that write, delete, move and restore a file (filesystem_write.py):*)
(* each copies the present version aside, in a thread, drops old copies,   *)
(* and then changes the file, in a thread again.  A copy is named for the  *)
(* second and the path.  Slots keep the calls seconds apart, but the       *)
(* safety backup comes after them and may take long: two can overlap.      *)
(* Versions are numbers, 0 for no file; one copy is as large as another.   *)
(***************************************************************************)
EXTENDS Integers, Sequences, FiniteSets

CONSTANTS
  Path,        \* files
  Edit,        \* calls of the tools at the same time
  MaxPerPath,  \* file_backup_max_per_path
  MaxTotal,    \* file_backup_max_total_mb, in copies
  MaxSecond,   \* bound on the clock
  MaxCalls     \* bound: calls in all

VARIABLES
  current,   \* current[p]: the version of p
  copies,    \* the copies: second, path, version, and number in taken
  edit,      \* edit[e]: the call
  second,    \* datetime.now() in seconds, when the last copy was made
  calls,     \* calls so far; what the n-th writes is version n + 1
  taken,     \* history: taken[p], the versions of p that were copied
  replaced,  \* history: versions a call replaced that nobody changed since its copy
  dropped    \* history: numbers of copies that went for another reason than
             \* newer ones of their path: the total size, a copy in the same
             \* second, a call that came to the limit after others had copied

backupVars == <<current, copies, edit, second, calls, taken, replaced, dropped>>

Torn    == MaxCalls + 2  \* what half a copy is
Version == 0 .. Torn
Copy    == [at : 0 .. MaxSecond, path : Path, ver : Version, n : Nat]
Kinds   == {"write", "delete", "move", "overwrite", "restore"}

TypeOK ==
  /\ current \in [Path -> Version]
  /\ copies \subseteq Copy
  /\ \A e \in Edit :
       /\ edit[e].step \in {"idle", "checked", "copied", "missing"}
       /\ edit[e].what \in Kinds
       /\ {edit[e].path, edit[e].to} \subseteq Path \cup {"none"}
       /\ edit[e].left \in Seq(Path)
       /\ edit[e].ver \in Version /\ edit[e].stamp \in 0 .. MaxSecond
       /\ edit[e].raced \subseteq Path
  /\ second \in 0 .. MaxSecond /\ calls \in 0 .. MaxCalls
  /\ taken \in [Path -> Seq(Version)]
  /\ replaced \subseteq Path \X Version
  /\ dropped \subseteq Path \X Nat

(* Where a call is, if not in the middle of one of the tools; a restore that *)
(* found no copy is remembered.                                              *)
Rest(s, p, k) ==
  [step |-> s, what |-> "write", path |-> p, to |-> p, source |-> 0, n |-> k, ver |-> 0,
   left |-> <<>>, stamp |-> 0, raced |-> {}]

Idle == Rest("idle", "none", 0)

Init ==
  /\ current = [p \in Path |-> 1]
  /\ copies = {}
  /\ edit = [e \in Edit |-> Idle]
  /\ second = 0 /\ calls = 0
  /\ taken = [p \in Path |-> <<>>]
  /\ replaced = {} /\ dropped = {}

-------------------------------------------------------------------------------
(* With its token: what it is about, and the paths that are copied first.    *)
Starts(e, what, p, q, c) ==
  /\ edit[e].step \in {"idle", "missing"} /\ calls < MaxCalls
  /\ calls' = calls + 1
  /\ edit' = [edit EXCEPT ![e] =
       [step |-> "checked", what |-> what, path |-> p, to |-> q, source |-> c.at,
        n |-> c.n, ver |-> IF what = "write" THEN calls + 2 ELSE 0,
        left |-> IF p = q THEN <<p>> ELSE <<p, q>>, stamp |-> 0, raced |-> {}]]
  /\ UNCHANGED <<current, copies, second, taken, replaced, dropped>>

NoCopy == [at |-> 0, n |-> 0]

StartWrite(e, p)   == Starts(e, "write", p, p, NoCopy)
StartDelete(e, p)  == current[p] # 0 /\ Starts(e, "delete", p, p, NoCopy)
StartRestore(e, c) == Starts(e, "restore", c.path, c.path, c)

StartMove(e, p, q, what) ==
  /\ p # q /\ current[p] # 0
  /\ what = "overwrite" \/ (what = "move" /\ current[q] = 0)
  /\ Starts(e, what, p, q, NoCopy)

-------------------------------------------------------------------------------
Named(p, t) == {c \in copies : c.path = p /\ c.at = t}

(* The copy of p as version v at the second t, which may be the next one;    *)
(* what has its name is overwritten.                                         *)
Copies(p, v, t) ==
  /\ t \in second .. MaxSecond /\ t <= second + 1
  /\ second' = t
  /\ copies' = (copies \ Named(p, t)) \cup
       {[at |-> t, path |-> p, ver |-> v, n |-> Len(taken[p]) + 1]}
  /\ taken' = [taken EXCEPT ![p] = Append(@, v)]
  /\ dropped' = dropped \cup {<<p, c.n>> : c \in Named(p, t)}

Copying(e, p) ==
  /\ edit[e].step = "checked" /\ edit[e].left # <<>> /\ p = Head(edit[e].left)
  /\ UNCHANGED <<current, calls, replaced>>

(* backup_before_write for the next path.                                    *)
BackupCopies(e, p, t) ==
  /\ Copying(e, p) /\ current[p] # 0
  /\ Copies(p, current[p], t)
  /\ edit' = [edit EXCEPT ![e].step = "copied", ![e].stamp = t]

(* There is no file to copy.                                                 *)
BackupSkips(e, p) ==
  /\ Copying(e, p) /\ current[p] = 0
  /\ edit' = [edit EXCEPT ![e].left = Tail(@)]
  /\ UNCHANGED <<copies, second, taken, dropped>>

(* The copy fails, and so does the call; half a copy is left.                *)
BackupFails(e, p, t) ==
  /\ Copying(e, p) /\ current[p] # 0
  /\ Copies(p, Torn, t)
  /\ edit' = [edit EXCEPT ![e] = Idle]

(* Mutant: the copies that are too many are taken from the wrong end.        *)
RotatedNewest(p, t) ==
  LET others == {c \in copies : c.path = p /\ c.at # t}
  IN {c \in others : Cardinality({d \in others : d.at < c.at}) + 1 >= MaxPerPath}

(* Mutant: one copy more is dropped, as if the new one counted twice.        *)
RotatedOneMore(p, t) ==
  LET others == {c \in copies : c.path = p /\ c.at # t}
  IN {c \in others : Cardinality({d \in others : d.at > c.at}) + 2 >= MaxPerPath}

(* The copies of p that are too many for its limit: the oldest but for the   *)
(* new one, of second t, which is counted and never dropped.                 *)
Rotated(p, t) ==
  LET others == {c \in copies : c.path = p /\ c.at # t}
  IN {c \in others : Cardinality({d \in others : d.at > c.at}) + 1 >= MaxPerPath}

(* What the limit on the total size may leave: of all paths the oldest go,   *)
(* but not the new ones.                                                     *)
Trimmed(kept, new) ==
  LET excess == Cardinality(kept) - MaxTotal
  IN IF excess <= 0 THEN {kept}
     ELSE {kept \ V : V \in {U \in SUBSET (kept \ new) :
             /\ Cardinality(U) = excess
             /\ \A c \in (kept \ new) \ U, v \in U : v.at <= c.at}}

BackupRotates(e) ==
  /\ edit[e].step = "copied"
  /\ LET p    == Head(edit[e].left)
         t    == edit[e].stamp
         kept == copies \ Rotated(p, t)
     IN \E now \in Trimmed(kept, Named(p, t)) :
          /\ copies' = now
          /\ dropped' = dropped \cup
               {<<c.path, c.n>> : c \in (kept \ now) \cup {c \in Rotated(p, t) : c.at > t}}
  /\ edit' = [edit EXCEPT ![e].step = "checked", ![e].left = Tail(@)]
  /\ UNCHANGED <<current, second, calls, taken, replaced>>

-------------------------------------------------------------------------------
(* What f has copied already, or found not to be there.                      *)
Copied(f) ==
  IF edit[f].step \notin {"checked", "copied"} THEN {}
  ELSE {edit[f].path, edit[f].to} \
       {edit[f].left[n] : n \in (IF edit[f].step = "copied" THEN 2 ELSE 1) .. Len(edit[f].left)}

(* The files become `now`, by the call e, which is over.                     *)
Changes(e, now, rest) ==
  LET changed == {p \in Path : now[p] # current[p]}
  IN /\ current' = now
     /\ edit' = [f \in Edit |->
          IF f = e THEN rest
          ELSE [edit[f] EXCEPT !.raced = @ \cup (Copied(f) \cap changed)]]
     /\ replaced' = replaced \cup
          {<<p, current[p]>> : p \in {p \in changed \ edit[e].raced : current[p] # 0}}
     /\ UNCHANGED <<copies, second, calls, taken, dropped>>

Ready(e, what) == edit[e].step = "checked" /\ edit[e].left = <<>> /\ edit[e].what = what

(* safe_write_file.                                                          *)
Writes(e) ==
  /\ Ready(e, "write")
  /\ Changes(e, [current EXCEPT ![edit[e].path] = edit[e].ver], Idle)

(* A file that is gone already is as good as deleted.                        *)
Deletes(e) ==
  /\ Ready(e, "delete")
  /\ Changes(e, [current EXCEPT ![edit[e].path] = 0], Idle)

(* shutil.move, after the destination was looked at once more.               *)
Moves(e) ==
  LET p == edit[e].path
      q == edit[e].to
  IN /\ Ready(e, "move") \/ Ready(e, "overwrite")
     /\ IF current[p] = 0 \/ (edit[e].what = "move" /\ current[q] # 0)
        THEN Changes(e, current, Idle)
        ELSE Changes(e, [current EXCEPT ![q] = current[p], ![p] = 0], Idle)
   
(* shutil.copy2 from the copy that has the name now, if one has.             *)
Restores(e) ==
  LET p == edit[e].path
  IN /\ Ready(e, "restore")
     /\ IF Named(p, edit[e].source) = {} THEN Changes(e, current, Rest("missing", p, edit[e].n))
        ELSE \E c \in Named(p, edit[e].source) :
               Changes(e, [current EXCEPT ![p] = c.ver], Idle)
   
(* The disk fails.  Restoring writes into the file itself, so that a failure *)
(* in the middle leaves half of it.                                          *)
ChangeFails(e) ==
  /\ edit[e].step = "checked" /\ edit[e].left = <<>>
  /\ \/ Changes(e, current, Idle)
     \/ /\ edit[e].what = "restore" /\ Named(edit[e].path, edit[e].source) # {}
        /\ Changes(e, [current EXCEPT ![edit[e].path] = Torn], Idle)

(* The process is killed.                                                    *)
BackupCrash ==
  /\ edit' = [e \in Edit |-> Idle]
  /\ UNCHANGED <<current, copies, second, calls, taken, replaced, dropped>>

Next ==
  \/ \E e \in Edit :
       \/ \E p \in Path :
            \/ StartWrite(e, p) \/ StartDelete(e, p) \/ BackupSkips(e, p)
            \/ \E t \in 0 .. MaxSecond : BackupCopies(e, p, t) \/ BackupFails(e, p, t)
       \/ \E p, q \in Path, what \in {"move", "overwrite"} : StartMove(e, p, q, what)
       \/ \E c \in copies : StartRestore(e, c)
       \/ BackupRotates(e)
       \/ Writes(e) \/ Deletes(e) \/ Moves(e) \/ Restores(e) \/ ChangeFails(e)
  \/ BackupCrash

-------------------------------------------------------------------------------
LastOf(p, v) == CHOOSE n \in DOMAIN taken[p] :
  taken[p][n] = v /\ \A m \in DOMAIN taken[p] : taken[p][m] = v => m <= n

Within(p, n) == n + MaxPerPath > Len(taken[p])

(* A version that a tool replaced, deleted or moved away was copied, and can *)
(* be restored until as many more copies of its path were made as the limit  *)
(* allows, by calls that failed as well.  A restore finds the copy gone only *)
(* then, which includes the one it makes itself.  Excepted are versions that *)
(* somebody put there after the call had made its copy, copies dropped for   *)
(* the total size, two copies of a file in one second, and a call that is    *)
(* stopped between its copy and the limit while others make newer ones       *)
(* (fs_write.py:86-115, 212-300, filesystem_write.py:1036-1117).             *)
CopiesKept ==
  /\ \A r \in replaced :
       /\ \E n \in DOMAIN taken[r[1]] : taken[r[1]][n] = r[2]
       /\ LET n == LastOf(r[1], r[2]) IN
            Within(r[1], n) /\ <<r[1], n>> \notin dropped =>
              \E c \in copies : c.path = r[1] /\ c.n = n /\ c.ver = r[2]
  /\ \A e \in Edit : edit[e].step = "missing" =>
       \/ <<edit[e].path, edit[e].n>> \in dropped
       \/ ~Within(edit[e].path, edit[e].n)
===============================================================================
