----------------------------- MODULE EvaluationProofs -----------------------------
(***************************************************************************)
(* Experiments and reviews, for every number of experiments, checks,       *)
(* queues, datasets and daemons, whatever fails, is cancelled, cleared or  *)
(* comes late.  Revisions of review items are never used twice and         *)
(* promotions say what they added, whatever is edited, deleted, cleared or *)
(* promoted in between.                                                    *)
(***************************************************************************)
EXTENDS EvaluationWorkspace, FiniteSetTheorems, SequenceTheorems, WellFoundedInduction, TLAPS

LEMMA ToSetType ==
  ASSUME NEW S, NEW s \in Seq(S)
  PROVE  ToSet(s) \subseteq S
BY DEF ToSet

LEMMA AppendToSet ==
  ASSUME NEW s \in Seq(Nat), NEW x \in Nat
  PROVE  Append(s, x) \in Seq(Nat) /\ ToSet(Append(s, x)) = ToSet(s) \cup {x}
<1> DEFINE t == Append(s, x)
<1>1. /\ DOMAIN s = 1 .. Len(s) /\ DOMAIN t = 1 .. Len(s) + 1 /\ Len(s) \in Nat
      /\ \A i \in 1 .. Len(s) : t[i] = s[i]
      /\ t[Len(s) + 1] = x
  OBVIOUS
<1> HIDE DEF t
<1>2. ToSet(t) = ToSet(s) \cup {x}
  <2>1. 1 .. Len(s) + 1 = 1 .. Len(s) \cup {Len(s) + 1}
    BY <1>1
  <2>2. QED BY <1>1, <2>1 DEF ToSet
<1>3. Append(s, x) \in Seq(Nat)
  OBVIOUS
<1>4. QED BY <1>2, <1>3 DEF t

LEMMA AppendOnce ==
  ASSUME NEW S, NEW s \in Seq(S), NEW x \in S, IsInjective(s), x \notin ToSet(s)
  PROVE  IsInjective(Append(s, x))
<1> DEFINE t == Append(s, x)
<1>1. /\ DOMAIN s = 1 .. Len(s) /\ DOMAIN t = 1 .. Len(s) + 1 /\ Len(s) \in Nat
      /\ \A i \in 1 .. Len(s) : t[i] = s[i]
      /\ t[Len(s) + 1] = x
  OBVIOUS
<1> HIDE DEF t
<1>2. \A i \in 1 .. Len(s) : s[i] # x
  BY <1>1 DEF ToSet
<1>3. \A i, l \in 1 .. Len(s) : s[i] = s[l] => i = l
  BY <1>1 DEF IsInjective
<1>4. 1 .. Len(s) + 1 = 1 .. Len(s) \cup {Len(s) + 1}
  BY <1>1
<1>5. IsInjective(t)
  BY <1>1, <1>2, <1>3, <1>4 DEF IsInjective
<1>6. QED BY <1>5 DEF t

(***************************************************************************)
(* An experiment: its row, its job and what judges were asked, when n      *)
(* daemons have started.                                                   *)
(***************************************************************************)

Open(row) == row # None /\ row.status \in {"queued", "running"}

RowSound(row, j, as, n) ==
  /\ row.plan = j.plan
  /\ row.done <= Len(row.plan)
  /\ Len(row.checks) = Len(row.plan)
  /\ \A i \in 1 .. Len(row.plan) : row.checks[i] = "pending" <=> i > row.done
  /\ \A i \in 1 .. row.done : row.plan[i] = "rubric" => i \in ToSet(as)
  /\ ~Open(row) /\ row.error = None => row.status = "completed" /\ row.done = Len(row.plan)
  /\ Open(row) => j.daemon = n

\* A judge is asked about one check at a time, in the order of the plan.
JobSound(j, as, n) ==
  /\ j.daemon \in 1 .. n
  /\ Len(j.got) <= Len(j.plan)
  /\ ToSet(as) \subseteq 1 .. Len(j.got) + 1
  /\ j.phase \in {"timer", "yielded"} => ToSet(as) \subseteq 1 .. Len(j.got)
  /\ \A i \in 1 .. Len(j.got) : j.plan[i] = "rubric" => i \in ToSet(as)
  /\ j.phase = "judging" => Len(j.got) < Len(j.plan) /\ Len(j.got) + 1 \in ToSet(as)

Sound(row, j, as, n) ==
  /\ row \in Experiment \cup {None} /\ j \in Job \cup {None}
  /\ as \in Seq(Nat) /\ IsInjective(as)
  /\ j = None => row = None /\ as = <<>>
  /\ j # None => JobSound(j, as, n)
  /\ row # None => RowSound(row, j, as, n)

LEMMA JobNotNone == \A j \in Job : j # None
BY JobsAssumption

LEMMA RowNotNone == \A row \in Experiment : row # None
BY JobsAssumption

LEMMA RowType ==
  ASSUME NEW status \in {"queued", "running", "completed", "cancelled"},
         NEW plan \in Seq(Rules), NEW got \in Seq(Verdicts), Len(got) <= Len(plan)
  PROVE  LET row == Row(status, plan, got, None) IN
         /\ row \in Experiment
         /\ row.status = status /\ row.plan = plan /\ row.done = Len(got) /\ row.error = None
         /\ Len(row.checks) = Len(plan)
         /\ \A i \in 1 .. Len(plan) : row.checks[i] = "pending" <=> i > Len(got)
<1> DEFINE checks == [i \in 1 .. Len(plan) |-> IF i <= Len(got) THEN got[i] ELSE "pending"]
<1>1. \A i \in 1 .. Len(got) : got[i] \in Verdicts
  OBVIOUS
<1>2. checks \in [1 .. Len(plan) -> Verdicts \cup {"pending"}]
  BY <1>1
<1>3. checks \in Seq(Verdicts \cup {"pending"}) /\ Len(checks) = Len(plan)
  BY <1>2
<1>4. \A i \in 1 .. Len(plan) : checks[i] = "pending" <=> i > Len(got)
  BY <1>1 DEF Verdicts
<1>5. Row(status, plan, got, None) =
        [status |-> status, plan |-> plan, done |-> Len(got), error |-> None, checks |-> checks]
  BY DEF Row
<1> HIDE DEF checks
<1>6. QED BY <1>3, <1>4, <1>5 DEF Experiment

\* A decided row no longer depends on the daemon that serves.
LEMMA DecidedSound ==
  ASSUME NEW row, NEW j, NEW as, NEW n \in Nat, NEW m \in Nat, m >= n,
         Sound(row, j, as, n), ~Open(row)
  PROVE  Sound(row, j, as, m)
<1>1. j # None => JobSound(j, as, m)
  <2>1. 1 .. n \subseteq 1 .. m
    OBVIOUS
  <2>2. QED BY <2>1 DEF Sound, JobSound
<1>2. row # None => RowSound(row, j, as, m)
  BY DEF Sound, RowSound
<1>3. QED BY <1>1, <1>2 DEF Sound

LEMMA RemovedSound ==
  ASSUME NEW row, NEW j, NEW as, NEW n, Sound(row, j, as, n)
  PROVE  Sound(None, j, as, n)
BY DEF Sound

\* finishUnstarted keeps what was recorded.
LEMMA FinishedSound ==
  ASSUME NEW row, NEW j, NEW as, NEW n, Sound(row, j, as, n), row # None,
         NEW status \in {"completed", "cancelled"}
  PROVE  Sound(Finished(row, status), j, as, n) /\ ~Open(Finished(row, status))
<1> DEFINE new == Finished(row, status)
           checks == [i \in DOMAIN row.checks |-> IF i <= row.done THEN row.checks[i] ELSE "pending"]
<1>1. row \in Experiment /\ RowSound(row, j, as, n) /\ j # None
  BY DEF Sound
<1>2. /\ row.checks \in Seq(Verdicts \cup {"pending"}) /\ row.plan \in Seq(Rules) /\ row.done \in Nat
      /\ Len(row.checks) = Len(row.plan)
  BY <1>1 DEF Experiment, RowSound
<1>3. DOMAIN row.checks = 1 .. Len(row.plan) /\ Len(row.plan) \in Nat
  BY <1>2
<1>4. checks \in [1 .. Len(row.plan) -> Verdicts \cup {"pending"}]
  BY <1>2, <1>3
<1>5. checks \in Seq(Verdicts \cup {"pending"}) /\ Len(checks) = Len(row.plan)
  BY <1>3, <1>4
<1>6. \A i \in 1 .. Len(row.plan) : checks[i] = "pending" <=> i > row.done
  BY <1>1, <1>2, <1>3 DEF RowSound
<1>7. new = [row EXCEPT !.status = status, !.error = "interrupted", !.checks = checks]
  BY <1>1 DEF Finished, Experiment
<1> HIDE DEF checks
<1>8. /\ new \in Experiment /\ new.status = status /\ new.error = "interrupted"
      /\ new.checks = checks /\ new.plan = row.plan /\ new.done = row.done
  BY <1>1, <1>5, <1>7 DEF Experiment
<1>9. RowSound(new, j, as, n) /\ ~Open(new)
  <2> HIDE DEF new
  <2>1. ~Open(new)
    BY <1>8 DEF Open
  <2>2. new.error # None
    BY <1>8, JobsAssumption
  <2>3. QED BY <1>1, <1>5, <1>6, <1>8, <2>1, <2>2 DEF RowSound
<1>10. QED
  <2> HIDE DEF new
  <2>1. new \in Experiment /\ RowSound(new, j, as, n) /\ ~Open(new)
    BY <1>8, <1>9
  <2>2. Sound(new, j, as, n)
    BY <1>1, <2>1 DEF Sound
  <2>3. QED BY <2>1, <2>2 DEF new

\* A job that is told to stop, or that is over.
LEMMA LeftSound ==
  ASSUME NEW row, NEW j, NEW as, NEW n, Sound(row, j, as, n), j # None,
         NEW left \in Job, left.phase \in {j.phase, "over"}, left.daemon = j.daemon,
         left.plan = j.plan, left.got = j.got
  PROVE  Sound(row, left, as, n)
BY JobNotNone DEF Sound, JobSound, RowSound

LEMMA StartedSound ==
  ASSUME NEW plan \in Seq(Rules), NEW n \in Nat \ {0}, NEW j \in Job, j.plan = plan,
         j.phase = "timer", j.daemon = n, Len(j.got) = 0
  PROVE  Sound(Row("queued", plan, j.got, None), j, <<>>, n)
<1> DEFINE new == Row("queued", plan, j.got, None)
<1>0. j.got \in Seq(Verdicts) /\ Len(j.got) = 0 /\ Len(plan) \in Nat /\ Len(j.got) <= Len(plan)
  BY DEF Job
<1>1. /\ new \in Experiment /\ new.status = "queued" /\ new.plan = plan /\ new.done = Len(j.got)
      /\ new.error = None /\ Len(new.checks) = Len(plan)
      /\ \A i \in 1 .. Len(plan) : new.checks[i] = "pending" <=> i > Len(j.got)
  BY <1>0, RowType
<1> HIDE DEF new
<1>2. ToSet(<<>>) = {} /\ IsInjective(<<>>) /\ <<>> \in Seq(Nat)
  BY DEF ToSet, IsInjective
<1>3. RowSound(new, j, <<>>, n)
  <2>1. Open(new)
    BY <1>1, RowNotNone DEF Open
  <2>2. \A i \in 1 .. new.done : FALSE
    BY <1>0, <1>1
  <2>3. new.done <= Len(new.plan)
    BY <1>0, <1>1
  <2>4. \A i \in 1 .. Len(new.plan) : new.checks[i] = "pending" <=> i > new.done
    BY <1>1
  <2>5. QED BY <1>1, <2>1, <2>2, <2>3, <2>4 DEF RowSound
<1>4. JobSound(j, <<>>, n)
  BY <1>0, <1>2 DEF JobSound
<1>5. Sound(new, j, <<>>, n)
  BY <1>1, <1>2, <1>3, <1>4, JobNotNone DEF Sound
<1>6. QED BY <1>5 DEF new

LEMMA CompletedSound ==
  ASSUME NEW row, NEW j, NEW as, NEW n, Sound(row, j, as, n), row # None,
         Len(j.got) >= Len(j.plan), NEW left \in Job, left.phase = "over",
         left.daemon = j.daemon, left.plan = j.plan, left.got = j.got
  PROVE  /\ Sound(Row("completed", j.plan, j.got, None), left, as, n)
         /\ ~Open(Row("completed", j.plan, j.got, None))
<1> DEFINE new == Row("completed", j.plan, j.got, None)
<1>1. j \in Job /\ j # None /\ JobSound(j, as, n) /\ as \in Seq(Nat) /\ IsInjective(as)
  BY DEF Sound
<1>2. j.plan \in Seq(Rules) /\ j.got \in Seq(Verdicts) /\ Len(j.got) = Len(j.plan)
  BY <1>1 DEF Job, JobSound
<1>3. /\ new \in Experiment /\ new.status = "completed" /\ new.plan = j.plan
      /\ new.done = Len(j.got) /\ Len(new.checks) = Len(j.plan)
      /\ \A i \in 1 .. Len(j.plan) : new.checks[i] = "pending" <=> i > Len(j.got)
  BY <1>2, RowType
<1> HIDE DEF new
<1>4. ~Open(new)
  BY <1>3 DEF Open
<1>5. RowSound(new, left, as, n)
  BY <1>1, <1>2, <1>3, <1>4 DEF RowSound, JobSound
<1>6. JobSound(left, as, n)
  BY <1>1 DEF JobSound
<1>7. Sound(new, left, as, n)
  BY <1>1, <1>3, <1>5, <1>6, JobNotNone DEF Sound
<1>8. QED BY <1>4, <1>7 DEF new

\* The next check is recorded: one no judge is needed for, or the one that was asked.
LEMMA RecordedSound ==
  ASSUME NEW row, NEW j, NEW as, NEW n, Sound(row, j, as, n), Open(row),
         Len(j.got) < Len(j.plan), NEW got \in Seq(Verdicts), Len(got) = Len(j.got) + 1,
         j.plan[Len(j.got) + 1] = "rubric" => j.phase = "judging",
         j.phase \in {"timer", "yielded"} \/ j.phase = "judging",
         NEW then \in Job, then.phase = "yielded", then.daemon = j.daemon,
         then.plan = j.plan, then.got = got
  PROVE  Sound(Row("running", j.plan, got, None), then, as, n)
<1> DEFINE new == Row("running", j.plan, got, None)
           k == Len(j.got) + 1
<1>1. /\ j \in Job /\ j # None /\ JobSound(j, as, n) /\ as \in Seq(Nat) /\ IsInjective(as)
      /\ row \in Experiment /\ RowSound(row, j, as, n)
  BY DEF Sound, Open
<1>2. /\ j.plan \in Seq(Rules) /\ j.got \in Seq(Verdicts) 
      /\ Len(got) = k /\ k <= Len(j.plan) /\ k \in Nat
  BY <1>1 DEF Job
<1>3. /\ new \in Experiment /\ new.status = "running" /\ new.plan = j.plan
      /\ new.done = k /\ new.error = None /\ Len(new.checks) = Len(j.plan)
      /\ \A i \in 1 .. Len(j.plan) : new.checks[i] = "pending" <=> i > k
  BY <1>2, RowType
<1>4. 1 .. k \subseteq 1 .. k + 1
  BY <1>2
<1>5. \A i \in 1 .. k : j.plan[i] = "rubric" => i \in ToSet(as)
  <2> SUFFICES ASSUME NEW i \in 1 .. k, j.plan[i] = "rubric" PROVE i \in ToSet(as)
    OBVIOUS
  <2>1. CASE i = k
    BY <1>1, <2>1 DEF JobSound
  <2>2. CASE i # k
    <3>1. i \in 1 .. Len(j.got)
      BY <1>2, <2>2
    <3>2. QED BY <1>1, <3>1 DEF JobSound
  <2>3. QED BY <2>1, <2>2
<1>6. ToSet(as) \subseteq 1 .. k
  BY <1>1 DEF JobSound
<1> HIDE DEF new, k
<1>7. RowSound(new, then, as, n)
  <2>1. Open(new)
    BY <1>3, RowNotNone DEF Open
  <2>2. j.daemon = n
    BY <1>1 DEF RowSound
  <2>3. QED BY <1>2, <1>3, <1>5, <2>1, <2>2 DEF RowSound
<1>8. JobSound(then, as, n)
  <2>1. then.daemon \in 1 .. n
    BY <1>1 DEF JobSound
  <2>2. ToSet(as) \subseteq 1 .. k + 1
    BY <1>4, <1>6
  <2>3. QED BY <1>2, <1>5, <1>6, <2>1, <2>2 DEF JobSound
<1>9. Sound(new, then, as, n)
  BY <1>1, <1>3, <1>7, <1>8, JobNotNone DEF Sound
<1>10. QED BY <1>9 DEF new

LEMMA AskedSound ==
  ASSUME NEW row, NEW j, NEW as, NEW n, Sound(row, j, as, n), j # None,
         Len(j.got) < Len(j.plan), j.phase \in {"timer", "yielded"},
         NEW new \in Experiment \cup {None}, new = None <=> row = None, Open(new) <=> Open(row),
         row # None => /\ new.plan = row.plan /\ new.done = row.done
                       /\ new.checks = row.checks /\ new.error = row.error
                       /\ new.status = row.status \/ Open(row),
         NEW then \in Job, then.phase = "judging", then.daemon = j.daemon,
         then.plan = j.plan, then.got = j.got
  PROVE  Sound(new, then, Append(as, Len(j.got) + 1), n)
<1> DEFINE k == Len(j.got) + 1
           more == Append(as, k)
<1>1. /\ j \in Job /\ JobSound(j, as, n) /\ as \in Seq(Nat) /\ IsInjective(as)
      /\ row \in Experiment \cup {None} /\ (row # None => RowSound(row, j, as, n))
  BY DEF Sound
<1>2. j.plan \in Seq(Rules) /\ j.got \in Seq(Verdicts) /\ Len(j.got) \in Nat /\ k \in Nat
  BY <1>1 DEF Job
<1>3. ToSet(as) \subseteq 1 .. Len(j.got) /\ k \notin 1 .. Len(j.got) /\ 1 .. Len(j.got) \cup {k} = 1 .. k
  <2>1. ToSet(as) \subseteq 1 .. Len(j.got)
    BY <1>1 DEF JobSound
  <2>2. \A m \in Nat : m + 1 \notin 1 .. m /\ 1 .. m \cup {m + 1} = 1 .. m + 1
    OBVIOUS
  <2>3. k \notin 1 .. Len(j.got) /\ 1 .. Len(j.got) \cup {k} = 1 .. k
    BY ONLY <1>2, <2>2
  <2>4. QED BY ONLY <2>1, <2>3
<1> HIDE DEF k
<1>4. more \in Seq(Nat) /\ ToSet(more) = ToSet(as) \cup {k}
  <2>1. as \in Seq(Nat) /\ k \in Nat
    BY <1>1, <1>2
  <2>2. Append(as, k) \in Seq(Nat) /\ ToSet(Append(as, k)) = ToSet(as) \cup {k}
    BY ONLY <2>1, AppendToSet
  <2>3. QED BY <2>2
<1>5. IsInjective(more)
  <2>1. k \notin ToSet(as)
    BY <1>3
  <2>2. QED BY <1>1, <1>2, <2>1, AppendOnce
<1> HIDE DEF more
<1>6. JobSound(then, more, n)
  <2>1. ToSet(more) \subseteq 1 .. k
    BY <1>3, <1>4
  <2>2. then.daemon \in 1 .. n
    BY <1>1 DEF JobSound
  <2>3. \A i \in 1 .. Len(then.got) : then.plan[i] = "rubric" => i \in ToSet(more)
    BY <1>1, <1>4 DEF JobSound
  <2>4. Len(then.got) < Len(then.plan) /\ Len(then.got) + 1 \in ToSet(more)
    BY <1>4 DEF k
  <2>5. ToSet(more) \subseteq 1 .. Len(then.got) + 1
    BY <2>1 DEF k
  <2>6. QED BY <1>2, <2>2, <2>3, <2>4, <2>5 DEF JobSound
<1>7. CASE row = None
  <2>1. new = None
    BY <1>7 DEF Open
  <2>2. QED BY <1>4, <1>5, <1>6, <1>7, <2>1, JobNotNone DEF Sound, k, more
<1>8. CASE row # None
  <2>1. row \in Experiment /\ RowSound(row, j, as, n)
    BY <1>1, <1>8
  <2>2. new \in Experiment /\ new # None
    BY <1>8
  <2>3. RowSound(new, then, more, n)
    BY <1>4, <1>8, <2>1, <2>2 DEF RowSound
  <2>4. QED BY <1>4, <1>5, <1>6, <2>2, <2>3, JobNotNone DEF Sound, k, more
<1>9. QED BY <1>7, <1>8

(***************************************************************************)
(* The steps of experiments.                                               *)
(***************************************************************************)

\* A job that will decide its row.
Owns(j) ==
  /\ j.phase # "over"
  /\ ~daemons[j.daemon].closed /\ ~j.aborted /\ j.held
  /\ j.generation = daemons[j.daemon].generation
  /\ daemons[j.daemon].up

Owned(e) ==
  Open(experiment[e]) /\ e \notin stranded => Owns(job[e]) \/ ~daemons[Serving].up

JobsTypeOK ==
  /\ experiment \in [Experiments -> Experiment \cup {None}]
  /\ job \in [Experiments -> Job \cup {None}]
  /\ asked \in [Experiments -> Seq(Nat)]
  /\ daemons \in Seq([up : BOOLEAN, closed : BOOLEAN, generation : Nat]) /\ Serving # 0

JobsInv ==
  /\ JobsTypeOK
  /\ \A e \in Experiments : Sound(experiment[e], job[e], asked[e], Serving) /\ Owned(e)

\* An experiment that was decided stays as it is, or goes.
Final(e) ==
  experiment[e] # None /\ ~Open(experiment[e]) => experiment'[e] \in {experiment[e], None}

Advanced == JobsInv' /\ \A e \in Experiments : Final(e)

LEMMA ServingType == JobsInv => Serving \in Nat \ {0} /\ Serving \in DOMAIN daemons
BY DEF JobsInv, JobsTypeOK, Serving

LEMMA DaemonType ==
  ASSUME JobsInv, NEW n \in DOMAIN daemons
  PROVE  /\ daemons[n] \in [up : BOOLEAN, closed : BOOLEAN, generation : Nat]
         /\ DOMAIN daemons = 1 .. Serving
<1>1. \A S : \A q \in Seq(S) : \A i \in DOMAIN q : q[i] \in S /\ DOMAIN q = 1 .. Len(q)
  OBVIOUS
<1>2. daemons \in Seq([up : BOOLEAN, closed : BOOLEAN, generation : Nat])
  BY DEF JobsInv, JobsTypeOK
<1>3. QED BY ONLY <1>1, <1>2, n \in DOMAIN daemons DEF Serving

LEMMA JobsInitially == Init => JobsInv
<1> SUFFICES ASSUME Init PROVE JobsInv
  OBVIOUS
<1>1. /\ experiment = [e \in Experiments |-> None] /\ job = [e \in Experiments |-> None]
      /\ daemons = <<NewDaemon>> /\ asked = [e \in Experiments |-> <<>>] /\ stranded = {}
  BY DEF Init, JobsInit
<1>2. NewDaemon \in [up : BOOLEAN, closed : BOOLEAN, generation : Nat]
  BY DEF NewDaemon
<1>3. JobsTypeOK
  <2>1. daemons \in Seq([up : BOOLEAN, closed : BOOLEAN, generation : Nat]) /\ Serving = 1
    BY <1>1, <1>2 DEF Serving
  <2>2. QED BY <1>1, <2>1 DEF JobsTypeOK
<1>4. ToSet(<<>>) = {} /\ IsInjective(<<>>) /\ <<>> \in Seq(Nat)
  BY DEF ToSet, IsInjective
<1>5. ASSUME NEW e \in Experiments
      PROVE  Sound(experiment[e], job[e], asked[e], Serving) /\ Owned(e)
  BY <1>1, <1>4 DEF Sound, Owned, Open
<1>6. QED BY <1>3, <1>5 DEF JobsInv

LEMMA Untouched ==
  ASSUME JobsInv, NEW e \in Experiments, experiment'[e] \in {experiment[e], None},
         job'[e] = job[e], asked'[e] = asked[e], daemons' = daemons,
         e \in stranded => e \in stranded'
  PROVE  Sound(experiment[e], job[e], asked[e], Serving)' /\ Owned(e)' /\ Final(e)
<1>1. Sound(experiment[e], job[e], asked[e], Serving) /\ Owned(e) /\ Serving' = Serving
  BY DEF JobsInv, Serving
<1>2. Sound(experiment'[e], job'[e], asked'[e], Serving')
  BY <1>1, RemovedSound
<1>3. Owned(e)'
  BY <1>1 DEF Owned, Owns, Open
<1>4. QED BY <1>2, <1>3 DEF Final

\* A step of one experiment.
LEMMA OneStep ==
  ASSUME JobsInv, NEW e \in Experiments, NEW r, NEW j, NEW as,
         experiment' = [experiment EXCEPT ![e] = r], job' = [job EXCEPT ![e] = j],
         asked' = [asked EXCEPT ![e] = as], daemons' = daemons,
         \A x \in stranded : x = e \/ x \in stranded',
         Sound(r, j, as, Serving),
         Open(r) /\ e \notin stranded' => Owns(j) \/ ~daemons[Serving].up,
         experiment[e] # None /\ ~Open(experiment[e]) => r \in {experiment[e], None}
  PROVE  Advanced
<1>1. r \in Experiment \cup {None} /\ j \in Job \cup {None} /\ as \in Seq(Nat)
  BY DEF Sound
<1>2. JobsTypeOK' /\ Serving' = Serving
  BY <1>1 DEF JobsInv, JobsTypeOK, Serving
<1>3. experiment'[e] = r /\ job'[e] = j /\ asked'[e] = as
  BY DEF JobsInv, JobsTypeOK
<1>4. ASSUME NEW x \in Experiments
      PROVE  Sound(experiment[x], job[x], asked[x], Serving)' /\ Owned(x)' /\ Final(x)
  <2>1. CASE x = e
    <3>1. Sound(experiment'[e], job'[e], asked'[e], Serving')
      BY <1>2, <1>3
    <3>2. Owned(e)'
      BY <1>2, <1>3 DEF Owned, Owns
    <3>3. Final(e)
      BY <1>3 DEF Final
    <3>4. QED BY <2>1, <3>1, <3>2, <3>3
  <2>2. CASE x # e
    <3>1. experiment'[x] = experiment[x] /\ job'[x] = job[x] /\ asked'[x] = asked[x]
      BY <2>2 DEF JobsInv, JobsTypeOK
    <3>2. QED BY <2>2, <3>1, Untouched
  <2>3. QED BY <2>1, <2>2
<1>5. QED BY <1>2, <1>4 DEF Advanced, JobsInv

\* What is known of an experiment whose job is there.
LEMMA JobFacts ==
  ASSUME JobsInv, NEW e \in Experiments, job[e] # None
  PROVE  /\ job[e] \in Job /\ experiment[e] \in Experiment \cup {None} /\ asked[e] \in Seq(Nat)
         /\ Sound(experiment[e], job[e], asked[e], Serving)
         /\ JobSound(job[e], asked[e], Serving)
         /\ Owned(e)
         /\ (Accepted(e) <=> Open(experiment[e]))
         /\ asked = [asked EXCEPT ![e] = asked[e]]
         /\ experiment = [experiment EXCEPT ![e] = experiment[e]]
BY DEF JobsInv, JobsTypeOK, Sound, Accepted, Active, Kept, Open

LEMMA OverStep ==
  ASSUME JobsInv, NEW e \in Experiments, job[e] # None, Over(e), NEW r,
         experiment' = [experiment EXCEPT ![e] = r], UNCHANGED <<asked, daemons>>,
         stranded \subseteq stranded',
         \/ r = experiment[e] /\ (Open(r) => ~Valid(e) \/ e \in stranded')
         \/ Open(experiment[e]) /\ r = Finished(experiment[e], "completed")
         \/ /\ Open(experiment[e]) /\ Len(job[e].got) >= Len(job[e].plan)
            /\ r = Row("completed", job[e].plan, job[e].got, None)
  PROVE  Advanced
<1> DEFINE left == [job[e] EXCEPT !.phase = "over", !.held = FALSE]
<1>1. /\ job[e] \in Job /\ Sound(experiment[e], job[e], asked[e], Serving)
      /\ Owned(e) /\ asked = [asked EXCEPT ![e] = asked[e]]
  BY JobFacts
<1>2. job' = [job EXCEPT ![e] = left]
  BY DEF Over, JobsInv, JobsTypeOK
<1>3. /\ left \in Job /\ left.phase = "over" /\ left.daemon = job[e].daemon
      /\ left.plan = job[e].plan /\ left.got = job[e].got
  BY <1>1 DEF Job
<1>4. asked' = [asked EXCEPT ![e] = asked[e]]
  BY <1>1
<1> HIDE DEF left
<1>5. CASE r = experiment[e] /\ (Open(r) => ~Valid(e) \/ e \in stranded')
  <2>1. Sound(r, left, asked[e], Serving)
    BY <1>1, <1>3, <1>5, LeftSound
  <2>2. Open(r) /\ e \notin stranded' => ~daemons[Serving].up
    BY <1>1, <1>5 DEF Owned, Owns, Valid
  <2>3. QED BY <1>2, <1>4, <1>5, <2>1, <2>2, OneStep
<1>6. CASE Open(experiment[e]) /\ r = Finished(experiment[e], "completed")
  <2>1. Sound(r, job[e], asked[e], Serving) /\ ~Open(r)
    BY <1>1, <1>6, FinishedSound DEF Open
  <2>2. Sound(r, left, asked[e], Serving)
    BY <1>3, <2>1, LeftSound
  <2>3. QED BY <1>2, <1>4, <1>6, <2>1, <2>2, OneStep
<1>7. CASE /\ Open(experiment[e]) /\ Len(job[e].got) >= Len(job[e].plan)
           /\ r = Row("completed", job[e].plan, job[e].got, None)
  <2>1. Sound(r, left, asked[e], Serving) /\ ~Open(r)
    BY <1>1, <1>3, <1>7, CompletedSound DEF Open
  <2>2. QED BY <1>2, <1>4, <1>7, <2>1, OneStep
<1>8. QED BY <1>5, <1>6, <1>7

LEMMA StopStep ==
  ASSUME JobsInv, NEW e \in Experiments, job[e] # None, Stop(e)
  PROVE  Advanced
<1>1. experiment' = [experiment EXCEPT ![e] = experiment[e]]
  BY JobFacts DEF Stop
<1>2. QED BY <1>1, OverStep DEF Stop

\* A result counts only while the row is open.
LEMMA RecordStep ==
  ASSUME JobsInv, NEW e \in Experiments, job[e] # None, Valid(e),
         job[e].phase \in {"timer", "yielded"} \/ job[e].phase = "judging",
         Len(job[e].got) < Len(job[e].plan),
         job[e].plan[Len(job[e].got) + 1] = "rubric" => job[e].phase = "judging",
         NEW v \in Verdicts, Record(e, Append(job[e].got, v))
  PROVE  Advanced
<1> DEFINE got  == Append(job[e].got, v)
           then == [job[e] EXCEPT !.phase = "yielded", !.got = got]
           new  == Row("running", job[e].plan, got, None)
<1>1. /\ job[e] \in Job /\ Sound(experiment[e], job[e], asked[e], Serving)
      /\ Owned(e) /\ (Accepted(e) <=> Open(experiment[e]))
      /\ asked = [asked EXCEPT ![e] = asked[e]]
      /\ experiment = [experiment EXCEPT ![e] = experiment[e]]
  BY JobFacts
<1>2. CASE ~Accepted(e)
  <2>1. Over(e) /\ UNCHANGED <<experiment, daemons, asked, stranded>>
    BY <1>2 DEF Record
  <2>2. QED BY <1>1, <1>2, <2>1, OverStep
<1>3. CASE Accepted(e)
  <2>1. /\ experiment' = [experiment EXCEPT ![e] = new] /\ UNCHANGED <<daemons, asked, stranded>>
        /\ job' = [job EXCEPT ![e].phase = "yielded", ![e].got = got]
    BY <1>3 DEF Record
  <2>2. job[e].got \in Seq(Verdicts)
    BY <1>1 DEF Job
  <2>3. got \in Seq(Verdicts) /\ Len(got) = Len(job[e].got) + 1
    BY <2>2
  <2> HIDE DEF got
  <2>4. job' = [job EXCEPT ![e] = then]
    BY <2>1 DEF JobsInv, JobsTypeOK
  <2>5. /\ then \in Job /\ then.phase = "yielded" /\ then.daemon = job[e].daemon
        /\ then.plan = job[e].plan /\ then.got = got /\ then.held = job[e].held
        /\ then.aborted = job[e].aborted /\ then.generation = job[e].generation
    BY <1>1, <2>3 DEF Job
  <2> HIDE DEF then
  <2>6. Sound(new, then, asked[e], Serving)
    BY <1>1, <1>3, <2>3, <2>5, RecordedSound
  <2>7. e \notin stranded' => Owns(then) \/ ~daemons[Serving].up
    BY <1>1, <1>3, <2>1, <2>5 DEF Owned, Owns
  <2>8. asked' = [asked EXCEPT ![e] = asked[e]]
    BY <1>1, <2>1
  <2> HIDE DEF new
  <2>9. QED BY <1>1, <1>3, <2>1, <2>4, <2>6, <2>7, <2>8, OneStep
<1>4. QED BY <1>2, <1>3

LEMMA ProceedStep ==
  ASSUME JobsInv, NEW e \in Experiments, job[e] # None, Valid(e),
         job[e].phase \in {"timer", "yielded"}, Proceed(e)
  PROVE  Advanced
<1> DEFINE j == job[e]
           k == Len(j.got) + 1
<1>1. /\ j \in Job /\ Sound(experiment[e], j, asked[e], Serving) /\ asked[e] \in Seq(Nat)
      /\ Owned(e) /\ (Accepted(e) <=> Open(experiment[e]))
      /\ asked = [asked EXCEPT ![e] = asked[e]]
      /\ experiment = [experiment EXCEPT ![e] = experiment[e]]
      /\ experiment[e] \in Experiment \cup {None}
  BY JobFacts
<1>2. /\ j.plan \in Seq(Rules) /\ j.got \in Seq(Verdicts)
      /\ Len(j.got) \in Nat /\ Len(j.plan) \in Nat
  BY <1>1 DEF Job
<1>3. CASE k > Len(j.plan)
  <2>1. /\ Over(e) /\ UNCHANGED <<daemons, asked, stranded>>
        /\ experiment' = IF Accepted(e)
             THEN [experiment EXCEPT ![e] = Row("completed", j.plan, j.got, None)] ELSE experiment
    BY <1>3 DEF Proceed
  <2>2. Len(j.got) >= Len(j.plan)
    BY <1>2, <1>3
  <2>3. CASE Accepted(e)
    BY <1>1, <2>1, <2>2, <2>3, OverStep
  <2>4. CASE ~Accepted(e)
    BY <1>1, <2>1, <2>4, OverStep
  <2>5. QED BY <2>3, <2>4
<1>4. CASE k <= Len(j.plan)
  <2>1. ~(k > Len(j.plan)) /\ Len(j.got) < Len(j.plan)
    BY <1>2, <1>4
  <2>2. CASE j.plan[k] = "rubric"
    <3> DEFINE then == [j EXCEPT !.phase = "judging"]
               new  == IF Accepted(e) THEN [experiment[e] EXCEPT !.status = "running"] ELSE experiment[e]
    <3>1. /\ job' = [job EXCEPT ![e].phase = "judging"]
          /\ asked' = [asked EXCEPT ![e] = Append(@, k)]
          /\ experiment' = IF Accepted(e)
               THEN [experiment EXCEPT ![e].status = "running"] ELSE experiment
          /\ UNCHANGED <<daemons, stranded>>
      BY <2>1, <2>2 DEF Proceed
    <3>2. /\ job' = [job EXCEPT ![e] = then] /\ asked' = [asked EXCEPT ![e] = Append(asked[e], k)]
          /\ experiment' = [experiment EXCEPT ![e] = new]
      BY <1>1, <3>1 DEF JobsInv, JobsTypeOK
    <3>3. /\ then \in Job /\ then.phase = "judging" /\ then.daemon = j.daemon
          /\ then.plan = j.plan /\ then.got = j.got /\ then.held = j.held
          /\ then.aborted = j.aborted /\ then.generation = j.generation
      BY <1>1 DEF Job
    <3>4. /\ new \in Experiment \cup {None} /\ (new = None <=> experiment[e] = None)
          /\ (Open(new) <=> Open(experiment[e])) /\ (~Open(experiment[e]) => new = experiment[e])
          /\ experiment[e] # None =>
               /\ new.plan = experiment[e].plan /\ new.done = experiment[e].done
               /\ new.checks = experiment[e].checks /\ new.error = experiment[e].error
               /\ new.status = experiment[e].status \/ Open(experiment[e])
      BY <1>1, RowNotNone DEF Experiment, Open
    <3> HIDE DEF then, new
    <3>5. Sound(new, then, Append(asked[e], k), Serving)
      BY <1>1, <2>1, <3>3, <3>4, AskedSound
    <3>6. Open(new) /\ e \notin stranded' => Owns(then) \/ ~daemons[Serving].up
      BY <1>1, <3>1, <3>3, <3>4 DEF Owned, Owns
    <3> HIDE DEF j, k
    <3>7. QED BY <3>1, <3>2, <3>4, <3>5, <3>6, OneStep
  <2>3. CASE j.plan[k] # "rubric"
    <3>1. PICK v \in Verdicts : Record(e, Append(j.got, v))
      BY <2>1, <2>3 DEF Proceed, Verdicts
    <3>2. QED BY <2>1, <2>3, <3>1, RecordStep
  <2>4. QED BY <2>2, <2>3
<1>5. QED BY <1>2, <1>3, <1>4

LEMMA WorkStep ==
  ASSUME JobsInv, NEW e \in Experiments, Begin(e) \/ JudgeEnds(e) \/ Continue(e)
  PROVE  Advanced
<1>1. job[e] # None
  BY DEF Begin, JudgeEnds, Continue, Running
<1>2. CASE Stop(e)
  BY <1>1, <1>2, StopStep
<1>3. CASE Begin(e) /\ ~Stop(e)
  <2>1. CASE Valid(e) /\ Accepted(e) /\ Proceed(e)
    BY <1>1, <1>3, <2>1, ProceedStep DEF Begin, Running
  <2>2. CASE ~Accepted(e) /\ Over(e) /\ UNCHANGED <<experiment, daemons, asked, stranded>>
    <3>1. ~Open(experiment[e]) /\ experiment' = [experiment EXCEPT ![e] = experiment[e]]
      BY <1>1, <2>2, JobFacts
    <3>2. QED BY <1>1, <2>2, <3>1, OverStep
  <2>3. QED BY <1>3, <2>1, <2>2 DEF Begin
<1>4. CASE JudgeEnds(e) /\ ~Stop(e)
  <2>1. PICK v \in Verdicts : Record(e, Append(job[e].got, v))
    BY <1>4 DEF JudgeEnds
  <2>2. job[e].phase = "judging" /\ Valid(e)
    BY <1>4 DEF JudgeEnds, Running
  <2>3. Len(job[e].got) < Len(job[e].plan)
    BY <1>1, <2>2, JobFacts DEF JobSound
  <2>4. QED BY <1>1, <2>1, <2>2, <2>3, RecordStep
<1>5. CASE Continue(e) /\ ~Stop(e)
  BY <1>1, <1>5, ProceedStep DEF Continue, Running
<1>6. QED BY <1>2, <1>3, <1>4, <1>5

LEMMA BreakStep ==
  ASSUME JobsInv, NEW e \in Experiments, Break(e)
  PROVE  Advanced
<1>1. job[e] # None /\ Over(e) /\ UNCHANGED <<asked, daemons>>
  BY DEF Break, Running
<1>2. /\ (Accepted(e) <=> Open(experiment[e]))
      /\ experiment = [experiment EXCEPT ![e] = experiment[e]]
  BY <1>1, JobFacts
<1>3. CASE stranded' = stranded \cup ({e} \cap Active) /\ UNCHANGED experiment
  <2>1. Open(experiment[e]) => e \in stranded'
    BY <1>2, <1>3 DEF Accepted
  <2>2. QED BY <1>1, <1>2, <1>3, <2>1, OverStep
<1>4. CASE Accepted(e) /\ UNCHANGED stranded
           /\ experiment' = [experiment EXCEPT ![e] = Finished(@, "completed")]
  <2>1. experiment' = [experiment EXCEPT ![e] = Finished(experiment[e], "completed")]
    BY <1>4 DEF JobsInv, JobsTypeOK
  <2>2. QED BY <1>1, <1>2, <1>4, <2>1, OverStep
<1>5. CASE ~Accepted(e) /\ UNCHANGED <<experiment, stranded>>
  BY <1>1, <1>2, <1>5, OverStep
<1>6. QED BY <1>3, <1>4, <1>5 DEF Break

LEMMA StartStep ==
  ASSUME JobsInv, NEW e \in Experiments, NEW d, NEW version, NEW plan, NEW held,
         Start(e, d, version, plan, held)
  PROVE  Advanced
<1> DEFINE s   == daemons[Serving]
           j   == [phase |-> "timer", daemon |-> Serving, generation |-> s.generation,
                   aborted |-> FALSE, held |-> TRUE, plan |-> plan, got |-> <<>>]
           row == Row("queued", plan, <<>>, None)
<1>1. /\ s.up /\ ~s.closed /\ plan \in Seq(Rules)
      /\ job' = [job EXCEPT ![e] = j] /\ UNCHANGED <<daemons, asked, stranded>>
  BY DEF Start
<1>2. job[e] = None
  BY DEF Start, Experiments
<1>3. experiment[e] = None /\ asked[e] = <<>>
  BY <1>2 DEF JobsInv, Sound
<1>4. PICK victim : experiment' = [Evicted(victim) EXCEPT ![e] = row]
  BY DEF Start, InsertExperiment
<1>5. Serving \in Nat \ {0} /\ s.generation \in Nat
  BY ServingType, DaemonType
<1>6. <<>> \in Seq(Verdicts) /\ Len(<<>>) = 0
  OBVIOUS
<1>7. j \in Job
  BY <1>1, <1>5, <1>6 DEF Job
<1>8. Sound(row, j, <<>>, Serving)
  <2>1. /\ j.plan = plan /\ j.phase = "timer" /\ j.daemon = Serving /\ j.got = <<>>
        /\ Len(j.got) = 0
    BY <1>6
  <2> HIDE DEF j
  <2>2. Sound(Row("queued", plan, j.got, None), j, <<>>, Serving)
    BY <1>1, <1>5, <1>7, <2>1, StartedSound
  <2>3. QED BY <2>1, <2>2
<1>9. Owns(j)
  BY <1>1, <1>5 DEF Owns
<1> HIDE DEF j, row
<1>10. row \in Experiment \cup {None}
  BY <1>8 DEF Sound
<1>11. /\ experiment' \in [Experiments -> Experiment \cup {None}] /\ experiment'[e] = row
       /\ \A x \in Experiments \ {e} : experiment'[x] \in {experiment[x], None}
  BY <1>4, <1>10 DEF Evicted, JobsInv, JobsTypeOK
<1>12. JobsTypeOK' /\ Serving' = Serving
  BY <1>1, <1>7, <1>11 DEF JobsInv, JobsTypeOK, Serving
<1>13. /\ job'[e] = j /\ asked'[e] = <<>>
       /\ \A x \in Experiments \ {e} : job'[x] = job[x] /\ asked'[x] = asked[x]
  BY <1>1, <1>3 DEF JobsInv, JobsTypeOK
<1>14. ASSUME NEW x \in Experiments
       PROVE  Sound(experiment[x], job[x], asked[x], Serving)' /\ Owned(x)' /\ Final(x)
  <2>1. CASE x = e
    <3>1. Sound(experiment'[e], job'[e], asked'[e], Serving')
      BY <1>8, <1>11, <1>12, <1>13
    <3>2. Owned(e)'
      BY <1>1, <1>9, <1>13 DEF Owned, Owns
    <3>3. Final(e)
      BY <1>3 DEF Final
    <3>4. QED BY <2>1, <3>1, <3>2, <3>3
  <2>2. CASE x # e
    BY <1>1, <1>11, <1>13, <2>2, Untouched
  <2>3. QED BY <2>1, <2>2
<1>15. QED BY <1>12, <1>14 DEF Advanced, JobsInv

\* Jobs that are told to stop.
LEMMA DroppedJob ==
  ASSUME JobsInv, NEW es, \A x \in es : job[x] # None, job' = Dropped(es)
  PROVE  /\ job' \in [Experiments -> Job \cup {None}]
         /\ \A e \in Experiments : \A as, n, row :
              Sound(row, job[e], as, n) => Sound(row, job'[e], as, n)
         /\ \A e \in Experiments \ es : job'[e] = job[e]
<1>1. job' = [e \in Experiments |-> IF e \in es
                THEN [job[e] EXCEPT !.aborted = TRUE, !.held = FALSE,
                                    !.phase = IF @ = "timer" THEN "over" ELSE @]
                ELSE job[e]]
  BY DEF Dropped
<1>2. \A e \in Experiments : job[e] \in Job \cup {None}
  BY DEF JobsInv, JobsTypeOK
<1>3. ASSUME NEW e \in Experiments, e \in es
      PROVE  /\ job'[e] \in Job /\ job'[e].phase \in {job[e].phase, "over"}
             /\ job'[e].daemon = job[e].daemon /\ job'[e].plan = job[e].plan
             /\ job'[e].got = job[e].got
  <2> DEFINE j     == job[e]
             phase == IF j.phase = "timer" THEN "over" ELSE j.phase
  <2>1. j \in Job
    BY <1>2, <1>3 DEF Experiments
  <2>2. job'[e] = [j EXCEPT !.aborted = TRUE, !.held = FALSE, !.phase = phase]
    BY <1>1, <1>3
  <2>3. phase \in {j.phase, "over"}
    OBVIOUS
  <2> HIDE DEF j, phase
  <2>4. /\ job'[e] \in Job /\ job'[e].phase = phase
        /\ job'[e].daemon = j.daemon /\ job'[e].plan = j.plan /\ job'[e].got = j.got
    BY <2>1, <2>2, <2>3 DEF Job
  <2>5. QED BY <2>3, <2>4 DEF j
<1>4. \A e \in Experiments : e \notin es => job'[e] = job[e]
  BY <1>1
<1>5. job' \in [Experiments -> Job \cup {None}]
  BY <1>1, <1>2, <1>3, <1>4
<1>6. ASSUME NEW e \in Experiments, NEW as, NEW n, NEW row, Sound(row, job[e], as, n)
      PROVE  Sound(row, job'[e], as, n)
  <2>1. CASE e \in es
    BY <1>3, <1>6, <2>1, LeftSound
  <2>2. QED BY <1>4, <1>6, <2>1
<1>7. QED BY <1>4, <1>5, <1>6

LEMMA CancelStep ==
  ASSUME JobsInv, NEW e \in Experiments, Cancel(e)
  PROVE  Advanced
<1> DEFINE es == {e} \cap HeldBy(Serving)
<1>1. /\ job' = Dropped(es) /\ UNCHANGED <<daemons, asked>> /\ stranded' = stranded \ {e}
      /\ Open(experiment[e])
      /\ experiment' = [experiment EXCEPT ![e] = Finished(@, "cancelled")]
  BY DEF Cancel, Active, Kept, Open
<1>2. /\ job' \in [Experiments -> Job \cup {None}]
      /\ \A x \in Experiments : \A as, n, row : Sound(row, job[x], as, n) => Sound(row, job'[x], as, n)
      /\ \A x \in Experiments \ es : job'[x] = job[x]
  BY <1>1, DroppedJob DEF HeldBy
<1>3. experiment'[e] = Finished(experiment[e], "cancelled")
      /\ \A x \in Experiments \ {e} : experiment'[x] = experiment[x] /\ job'[x] = job[x]
  BY <1>1, <1>2 DEF JobsInv, JobsTypeOK
<1>4. Sound(experiment'[e], job[e], asked[e], Serving) /\ ~Open(experiment'[e])
  BY <1>1, <1>3, FinishedSound DEF JobsInv, Open
<1>5. JobsTypeOK' /\ Serving' = Serving
  <2>1. experiment'[e] \in Experiment \cup {None}
    BY <1>4 DEF Sound
  <2>2. experiment' \in [Experiments -> Experiment \cup {None}]
    BY <1>1, <2>1 DEF JobsInv, JobsTypeOK
  <2>3. QED BY <1>1, <1>2, <2>2 DEF JobsInv, JobsTypeOK, Serving
<1>6. ASSUME NEW x \in Experiments
      PROVE  Sound(experiment[x], job[x], asked[x], Serving)' /\ Owned(x)' /\ Final(x)
  <2>1. CASE x = e
    <3>1. Sound(experiment'[e], job'[e], asked'[e], Serving')
      BY <1>1, <1>2, <1>4, <1>5
    <3>2. QED BY <1>1, <1>4, <2>1, <3>1 DEF Owned, Final
  <2>2. CASE x # e
    BY <1>1, <1>3, <2>2, Untouched
  <2>3. QED BY <2>1, <2>2
<1>7. QED BY <1>5, <1>6 DEF Advanced, JobsInv

\* A daemon whose flags change is still the same daemon.
LEMMA DaemonsKept ==
  ASSUME JobsInv, NEW n \in DOMAIN daemons, NEW d \in [up : BOOLEAN, closed : BOOLEAN, generation : Nat],
         daemons' = [daemons EXCEPT ![n] = d]
  PROVE  /\ daemons' \in Seq([up : BOOLEAN, closed : BOOLEAN, generation : Nat])
         /\ Serving' = Serving /\ Serving # 0
         /\ daemons'[n] = d /\ \A m \in DOMAIN daemons \ {n} : daemons'[m] = daemons[m]
BY DEF JobsInv, JobsTypeOK, Serving

LEMMA CloseStep ==
  ASSUME JobsInv, NEW n \in DOMAIN daemons, Close(n)
  PROVE  Advanced
<1> DEFINE es == HeldBy(n)
           g  == daemons[n].generation + 1
           d  == [daemons[n] EXCEPT !.closed = TRUE, !.generation = g]
<1>1. /\ job' = Dropped(es) /\ UNCHANGED <<asked, stranded>>
      /\ daemons' = [daemons EXCEPT ![n].closed = TRUE, ![n].generation = @ + 1]
      /\ experiment' = [e \in Experiments |->
           IF e \in es \cap Active THEN Finished(experiment[e], "cancelled") ELSE experiment[e]]
  BY DEF Close
<1>2. /\ job' \in [Experiments -> Job \cup {None}]
      /\ \A x \in Experiments : \A as, m, row : Sound(row, job[x], as, m) => Sound(row, job'[x], as, m)
      /\ \A x \in Experiments \ es : job'[x] = job[x]
  BY <1>1, DroppedJob DEF HeldBy
<1>3. d \in [up : BOOLEAN, closed : BOOLEAN, generation : Nat] /\ d.up = daemons[n].up
  <2>1. daemons[n] \in [up : BOOLEAN, closed : BOOLEAN, generation : Nat]
    BY DaemonType
  <2>2. g \in Nat
    BY <2>1
  <2> HIDE DEF g
  <2>3. QED BY <2>1, <2>2
<1>4. daemons' = [daemons EXCEPT ![n] = d]
  BY <1>1 DEF JobsInv, JobsTypeOK
<1> HIDE DEF d
<1>5. /\ daemons' \in Seq([up : BOOLEAN, closed : BOOLEAN, generation : Nat])
      /\ Serving' = Serving /\ Serving # 0
      /\ daemons'[n] = d /\ \A m \in DOMAIN daemons \ {n} : daemons'[m] = daemons[m]
  BY <1>3, <1>4, DaemonsKept
<1>6. ASSUME NEW x \in Experiments
      PROVE  Sound(experiment'[x], job'[x], asked'[x], Serving') /\ Owned(x)' /\ Final(x)
  <2>1. Sound(experiment[x], job[x], asked[x], Serving) /\ Owned(x)
    BY DEF JobsInv
  <2>2. x \in Active <=> Open(experiment[x])
    BY DEF Active, Kept, Open
  <2>3. CASE x \in es /\ x \in Active
    <3>1. experiment'[x] = Finished(experiment[x], "cancelled")
      BY <1>1, <2>3
    <3>2. Sound(experiment'[x], job[x], asked[x], Serving) /\ ~Open(experiment'[x])
      BY <2>1, <2>2, <2>3, <3>1, FinishedSound DEF Open
    <3>3. Sound(experiment'[x], job'[x], asked'[x], Serving')
      BY <1>1, <1>2, <1>5, <3>2
    <3>4. QED BY <2>2, <2>3, <3>2, <3>3 DEF Owned, Final
  <2>4. CASE ~(x \in es /\ x \in Active)
    <3>1. experiment'[x] = experiment[x]
      BY <1>1, <2>4
    <3>2. Sound(experiment'[x], job'[x], asked'[x], Serving')
      BY <1>1, <1>2, <1>5, <2>1, <3>1
    <3>3. Owned(x)'
      <4> SUFFICES ASSUME Open(experiment[x]), x \notin stranded
                   PROVE  Owns(job[x])' \/ ~daemons'[Serving].up
        BY <1>1, <1>5, <3>1 DEF Owned
      <4>1. x \notin es /\ job'[x] = job[x] /\ job[x] # None /\ job[x] \in Job
        BY <1>2, <2>1, <2>2, <2>4 DEF Sound, Open
      <4>2. CASE Owns(job[x])
        <5>1. job[x].daemon # n
          BY <4>1, <4>2 DEF HeldBy, Owns
        <5>2. job[x].daemon \in DOMAIN daemons
          BY <2>1, <4>1, DaemonType DEF Sound, JobSound
        <5>3. QED BY <1>5, <4>1, <4>2, <5>1, <5>2 DEF Owns
      <4>3. CASE ~daemons[Serving].up
        BY <1>3, <1>5, <4>3, ServingType
      <4>4. QED BY <2>1, <4>2, <4>3 DEF Owned
    <3>4. QED BY <3>1, <3>2, <3>3 DEF Final
  <2>5. QED BY <2>3, <2>4
<1>7. experiment' \in [Experiments -> Experiment \cup {None}]
  BY <1>1, <1>6 DEF Sound
<1>8. JobsTypeOK'
  BY <1>1, <1>2, <1>5, <1>7 DEF JobsInv, JobsTypeOK
<1>9. QED BY <1>6, <1>8 DEF Advanced, JobsInv

LEMMA ExitStep ==
  ASSUME JobsInv, NEW n \in DOMAIN daemons, Exit(n)
  PROVE  Advanced
<1> DEFINE d == [daemons[n] EXCEPT !.up = FALSE]
           over(x) == [job[x] EXCEPT !.phase = "over", !.held = FALSE]
<1>1. /\ UNCHANGED <<experiment, asked, stranded>>
      /\ daemons' = [daemons EXCEPT ![n].up = FALSE]
      /\ job' = [x \in Experiments |-> IF job[x] # None /\ job[x].daemon = n THEN over(x) ELSE job[x]]
  BY DEF Exit
<1>2. d \in [up : BOOLEAN, closed : BOOLEAN, generation : Nat] /\ d.up = FALSE
  <2>1. daemons[n] \in [up : BOOLEAN, closed : BOOLEAN, generation : Nat]
    BY DaemonType
  <2>2. QED BY <2>1
<1>3. daemons' = [daemons EXCEPT ![n] = d]
  BY <1>1 DEF JobsInv, JobsTypeOK
<1> HIDE DEF d
<1>4. /\ daemons' \in Seq([up : BOOLEAN, closed : BOOLEAN, generation : Nat])
      /\ Serving' = Serving /\ Serving # 0
      /\ daemons'[n] = d /\ \A m \in DOMAIN daemons \ {n} : daemons'[m] = daemons[m]
  BY <1>2, <1>3, DaemonsKept
<1>5. ASSUME NEW x \in Experiments
      PROVE  /\ Sound(experiment'[x], job'[x], asked'[x], Serving') /\ Owned(x)' /\ Final(x)
             /\ job'[x] \in Job \cup {None}
  <2>1. Sound(experiment[x], job[x], asked[x], Serving) /\ Owned(x)
    BY DEF JobsInv
  <2>2. CASE job[x] # None /\ job[x].daemon = n
    <3>1. job[x] \in Job /\ job'[x] = over(x)
      BY <1>1, <2>1, <2>2 DEF Sound
    <3>2. /\ job'[x] \in Job /\ job'[x].phase = "over" /\ job'[x].daemon = job[x].daemon
          /\ job'[x].plan = job[x].plan /\ job'[x].got = job[x].got
      BY <3>1 DEF Job
    <3>3. Sound(experiment[x], job'[x], asked[x], Serving)
      BY <2>1, <2>2, <3>2, LeftSound
    <3>4. Open(experiment[x]) => n = Serving
      BY <2>1, <2>2 DEF Sound, RowSound, Open
    <3>5. Owned(x)'
      BY <1>1, <1>2, <1>4, <3>4 DEF Owned
    <3>6. QED BY <1>1, <1>4, <3>2, <3>3, <3>5 DEF Final
  <2>3. CASE ~(job[x] # None /\ job[x].daemon = n)
    <3>1. job'[x] = job[x]
      BY <1>1, <2>3
    <3>2. Sound(experiment'[x], job'[x], asked'[x], Serving')
      BY <1>1, <1>4, <2>1, <3>1
    <3>3. Owned(x)'
      <4> SUFFICES ASSUME Open(experiment[x]), x \notin stranded
                   PROVE  Owns(job[x])' \/ ~daemons'[Serving].up
        BY <1>1, <1>4 DEF Owned
      <4>1. job[x] # None /\ job[x].daemon \in DOMAIN daemons \ {n}
        BY <2>1, <2>3, DaemonType DEF Sound, JobSound, Open
      <4>2. CASE Owns(job[x])
        BY <1>4, <3>1, <4>1, <4>2 DEF Owns
      <4>3. CASE ~daemons[Serving].up
        BY <1>2, <1>4, <4>3, ServingType
      <4>4. QED BY <2>1, <4>2, <4>3 DEF Owned
    <3>4. QED BY <1>1, <2>1, <3>1, <3>2, <3>3 DEF Final, Sound
  <2>4. QED BY <2>2, <2>3
<1>6. job' \in [Experiments -> Job \cup {None}]
  BY <1>1, <1>5
<1>7. JobsTypeOK'
  BY <1>1, <1>4, <1>6 DEF JobsInv, JobsTypeOK
<1>8. QED BY <1>5, <1>7 DEF Advanced, JobsInv

\* Nothing is open when a daemon has started.
LEMMA BootStep ==
  ASSUME JobsInv, Boot
  PROVE  Advanced
<1>1. /\ daemons' = Append(daemons, NewDaemon) /\ UNCHANGED <<job, asked>>
      /\ experiment' = [e \in Experiments |->
           IF e \in Active THEN Finished(experiment[e], "completed") ELSE experiment[e]]
  BY DEF Boot, Recovered
<1>2. Serving \in Nat \ {0}
  BY ServingType
<1>3. /\ daemons' \in Seq([up : BOOLEAN, closed : BOOLEAN, generation : Nat])
      /\ Serving' = Serving + 1
  <2>1. NewDaemon \in [up : BOOLEAN, closed : BOOLEAN, generation : Nat]
    BY DEF NewDaemon
  <2>2. daemons \in Seq([up : BOOLEAN, closed : BOOLEAN, generation : Nat])
    BY DEF JobsInv, JobsTypeOK
  <2>3. \A S : \A q \in Seq(S) : \A x \in S : Append(q, x) \in Seq(S) /\ Len(Append(q, x)) = Len(q) + 1
    OBVIOUS
  <2>4. QED BY ONLY <1>1, <2>1, <2>2, <2>3 DEF Serving
<1>4. ASSUME NEW x \in Experiments
      PROVE  Sound(experiment'[x], job'[x], asked'[x], Serving') /\ Owned(x)' /\ Final(x)
  <2>1. Sound(experiment[x], job[x], asked[x], Serving)
    BY DEF JobsInv
  <2>2. x \in Active <=> Open(experiment[x])
    BY DEF Active, Kept, Open
  <2>3. Sound(experiment'[x], job[x], asked[x], Serving) /\ ~Open(experiment'[x])
    <3>1. CASE x \in Active
      BY <1>1, <2>1, <2>2, <3>1, FinishedSound DEF Open
    <3>2. CASE x \notin Active
      BY <1>1, <2>1, <2>2, <3>2
    <3>3. QED BY <3>1, <3>2
  <2>4. Sound(experiment'[x], job[x], asked[x], Serving')
    BY <1>2, <1>3, <2>3, DecidedSound
  <2>5. Final(x)
    BY <1>1, <2>2 DEF Final
  <2>6. QED BY <1>1, <2>3, <2>4, <2>5 DEF Owned
<1>5. experiment' \in [Experiments -> Experiment \cup {None}]
  BY <1>1, <1>4 DEF Sound
<1>6. JobsTypeOK'
  BY <1>1, <1>2, <1>3, <1>5 DEF JobsInv, JobsTypeOK
<1>7. QED BY <1>4, <1>6 DEF Advanced, JobsInv

LEMMA ClearStep ==
  ASSUME JobsInv, Clear
  PROVE  Advanced
<1> DEFINE n == Serving
           g == daemons[n].generation + 1
           d == [daemons[n] EXCEPT !.generation = g]
<1>1. /\ job' = Dropped(HeldBy(n)) /\ UNCHANGED asked
      /\ daemons' = [daemons EXCEPT ![n].generation = @ + 1]
      /\ \/ experiment' = [e \in Experiments |-> None]
         \/ UNCHANGED experiment /\ stranded' = stranded \cup Active
  BY DEF Clear
<1>2. /\ job' \in [Experiments -> Job \cup {None}]
      /\ \A x \in Experiments : \A as, m, row : Sound(row, job[x], as, m) => Sound(row, job'[x], as, m)
  <2>1. \A x \in HeldBy(n) : job[x] # None
    BY DEF HeldBy
  <2>2. QED BY <1>1, <2>1, DroppedJob
<1>3. d \in [up : BOOLEAN, closed : BOOLEAN, generation : Nat]
  <2>1. daemons[n] \in [up : BOOLEAN, closed : BOOLEAN, generation : Nat]
    BY ServingType, DaemonType
  <2>2. g \in Nat
    BY <2>1
  <2> HIDE DEF g
  <2>3. QED BY <2>1, <2>2
<1>4. daemons' = [daemons EXCEPT ![n] = d]
  BY <1>1 DEF JobsInv, JobsTypeOK
<1> HIDE DEF d
<1>5. /\ daemons' \in Seq([up : BOOLEAN, closed : BOOLEAN, generation : Nat])
      /\ Serving' = Serving /\ Serving # 0
  BY <1>3, <1>4, DaemonsKept, ServingType
<1>6. ASSUME NEW x \in Experiments
      PROVE  Sound(experiment'[x], job'[x], asked'[x], Serving') /\ Owned(x)' /\ Final(x)
  <2>1. Sound(experiment[x], job'[x], asked[x], Serving)
    BY <1>2 DEF JobsInv
  <2>2. x \in Active <=> Open(experiment[x])
    BY DEF Active, Kept, Open
  <2>3. CASE experiment'[x] = None
    <3>1. Sound(experiment'[x], job'[x], asked'[x], Serving')
      BY <1>1, <1>5, <2>1, <2>3, RemovedSound
    <3>2. QED BY <2>3, <3>1 DEF Owned, Open, Final
  <2>4. CASE UNCHANGED experiment /\ stranded' = stranded \cup Active
    <3>1. Sound(experiment'[x], job'[x], asked'[x], Serving')
      BY <1>1, <1>5, <2>1, <2>4
    <3>2. QED BY <2>2, <2>4, <3>1 DEF Owned, Final
  <2>5. QED BY <1>1, <2>3, <2>4
<1>7. experiment' \in [Experiments -> Experiment \cup {None}]
  BY <1>1 DEF JobsInv, JobsTypeOK
<1>8. JobsTypeOK'
  BY <1>1, <1>2, <1>5, <1>7 DEF JobsInv, JobsTypeOK
<1>9. QED BY <1>6, <1>8 DEF Advanced, JobsInv

LEMMA JobsStep ==
  ASSUME JobsInv, [Next]_vars
  PROVE  Advanced
<1>1. CASE UNCHANGED jobVars
  BY <1>1 DEF jobVars, Advanced, JobsInv, JobsTypeOK, Owned, Owns, Final, Serving
<1>2. CASE Request
  <2>1. PICK e \in Experiments :
          \/ \E d, version, plan, held : Start(e, d, version, plan, held)
          \/ Cancel(e)
    BY <1>2 DEF Request
  <2>2. QED BY <2>1, StartStep, CancelStep
<1>3. CASE Work
  BY <1>3, WorkStep DEF Work
<1>4. CASE Broken
  BY <1>4, BreakStep DEF Broken
<1>5. CASE Process
  <2>1. (\E n \in DOMAIN daemons : Close(n) \/ Exit(n)) \/ Boot
    BY <1>5 DEF Process
  <2>2. QED BY <2>1, CloseStep, ExitStep, BootStep
<1>6. CASE Clear
  BY <1>6, ClearStep
<1>7. CASE Curate \/ Review \/ Drop \/ UNCHANGED vars
  BY <1>1, <1>7 DEF Curate, Review, Drop, vars
<1>8. QED BY <1>2, <1>3, <1>4, <1>5, <1>6, <1>7 DEF Next

LEMMA JobsInvariant == Spec => []JobsInv
<1>1. JobsInv /\ [Next]_vars => JobsInv'
  BY JobsStep DEF Advanced
<1>2. QED BY <1>1, JobsInitially, PTL DEF Spec

\* Rows say what was done (updateExperiment, finishUnstarted, fold): a check is
\* pending exactly when it is past the last recorded one, a pass or a clean end
\* has every check, no judge is asked twice, whatever crashes or is cancelled.
THEOREM RowsAreHonest == Spec => []ExperimentsHonest
<1>1. JobsInv => ExperimentsHonest
  <2> SUFFICES ASSUME JobsInv, NEW e \in Kept
               PROVE  LET row == experiment[e] IN
                      /\ \A i \in DOMAIN row.plan : row.checks[i] = "pending" <=> i > row.done
                      /\ e \notin Active /\ (row.error = None \/ Verdict(row) = "pass") => row.done = Len(row.plan)
                      /\ e \notin Active /\ row.error = None => row.status = "completed"
                      /\ IsInjective(asked[e])
                      /\ \A i \in 1 .. row.done : row.plan[i] = "rubric" => i \in ToSet(asked[e])
    BY DEF ExperimentsHonest
  <2> DEFINE row == experiment[e]
  <2>1. e \in Experiments /\ row # None /\ (e \in Active <=> Open(row))
    BY DEF Kept, Active, Open
  <2>2. Sound(row, job[e], asked[e], Serving)
    BY <2>1 DEF JobsInv
  <2>3. row \in Experiment /\ RowSound(row, job[e], asked[e], Serving) /\ IsInjective(asked[e])
    BY <2>1, <2>2 DEF Sound
  <2> HIDE DEF row
  <2>4. /\ row.plan \in Seq(Rules) /\ row.checks \in Seq(Verdicts \cup {"pending"})
        /\ row.done \in Nat /\ row.done <= Len(row.plan) /\ Len(row.checks) = Len(row.plan)
    BY <2>3 DEF Experiment, RowSound
  <2>5. DOMAIN row.plan = 1 .. Len(row.plan) /\ DOMAIN row.checks = 1 .. Len(row.plan)
        /\ Len(row.plan) \in Nat
    BY <2>4
  <2>6. ASSUME Verdict(row) = "pass"
        PROVE  row.done = Len(row.plan)
    <3>1. ToSet(row.checks) = {"pass"}
      BY <2>6 DEF Verdict
    <3>2. \A i \in 1 .. Len(row.plan) : row.checks[i] # "pending"
      BY <2>5, <3>1 DEF ToSet
    <3>3. \A i \in 1 .. Len(row.plan) : ~(i > row.done)
      BY <2>3, <3>2 DEF RowSound
    <3>4. row.done < Len(row.plan) => row.done + 1 \in 1 .. Len(row.plan) /\ row.done + 1 > row.done
      BY <2>4, <2>5
    <3>5. ~(row.done < Len(row.plan))
      BY <3>3, <3>4
    <3>6. QED BY <2>4, <2>5, <3>5
  <2>7. QED BY <2>1, <2>3, <2>5, <2>6 DEF RowSound, row
<1>2. QED BY <1>1, JobsInvariant, PTL

\* Every active row has a job that will decide it, in a daemon that is up, unless
\* the store failed or no daemon came after a crash (start, close, run, the
\* constructor's interruptActiveExperiments).
THEOREM ActiveRowsAreOwned == Spec => []ActiveIsOwned
<1>1. JobsInv => ActiveIsOwned
  <2> SUFFICES ASSUME JobsInv, NEW e \in Active \ stranded
               PROVE  \/ job[e].phase # "over" /\ Valid(e) /\ daemons[job[e].daemon].up
                      \/ ~daemons[Serving].up
    BY DEF ActiveIsOwned
  <2>1. e \in Experiments /\ Open(experiment[e]) /\ Owned(e)
    BY DEF Active, Kept, Open, JobsInv
  <2>2. QED BY <2>1 DEF Owned, Owns, Valid
<1>2. QED BY <1>1, JobsInvariant, PTL

\* A late answer, a daemon left behind or a second cancellation never changes an
\* experiment that was decided (the status fence of updateExperiment).
THEOREM DecidedIsFinal == Spec => TerminalIsFinal
<1> DEFINE Body == \A e \in Kept \ Active : experiment'[e] \in {experiment[e], None}
<1>1. JobsInv /\ [Next]_vars => [Body]_experiment
  <2> SUFFICES ASSUME JobsInv, [Next]_vars, NEW e \in Kept \ Active
               PROVE  experiment'[e] \in {experiment[e], None}
    OBVIOUS
  <2>1. e \in Experiments /\ experiment[e] # None /\ ~Open(experiment[e])
    BY DEF Kept, Active, Open
  <2>2. QED BY <2>1, JobsStep DEF Advanced, Final
<1>2. QED BY <1>1, JobsInvariant, PTL DEF Spec, TerminalIsFinal

-----------------------------------------------------------------------------
(* Reviews. *)

Item == [revision : Nat, state : {"draft", "approved", "promoted"}, draft : Drafts,
         approved : Drafts \cup {None}, mutation : Mutations \cup {None},
         destination : [dataset : DatasetIds, version : Nat] \cup {None}]

ReviewTypeOK ==
  /\ scenario \in Scenarios
  /\ next \in [QueueIds -> Nat]
  /\ item \in [QueueIds \X Sources -> Item \cup {None}]

\* Revisions of a queue are below its next number, those of a source not above
\* the one its item is at, and no queue comes back.
RevisionsInv ==
  /\ ReviewTypeOK
  /\ \A q \in QueueIds : next[q] # 0 => q \in issued
  /\ \A q \in QueueIds, s \in Sources : Present(q, s) => next[q] # 0
  /\ \A q \in QueueIds, s \in Sources, r \in Nat : <<q, s, r>> \in taken =>
       /\ q \in issued
       /\ next[q] # 0 => r < next[q]
       /\ Present(q, s) => r <= item[<<q, s>>].revision

Fresh(q, s) ==
  item'[<<q, s>>] # item[<<q, s>>] /\ item'[<<q, s>>] # None =>
    item'[<<q, s>>].revision \in Nat /\ <<q, s, item'[<<q, s>>].revision>> \notin taken

Renumbered == RevisionsInv' /\ \A q \in QueueIds, s \in Sources : Fresh(q, s)

LEMMA MaxOfBounded ==
  ASSUME NEW S \in SUBSET Nat, S # {}, NEW b \in Nat, \A x \in S : x <= b
  PROVE  Max(S) \in S /\ \A y \in S : y <= Max(S)
<1> DEFINE T == {b - x : x \in S}
<1>1. T \in SUBSET Nat /\ T # {}
  <2>1. ASSUME NEW x \in S
        PROVE  b - x \in Nat
    <3>1. x \in Nat /\ x <= b
      OBVIOUS
    <3>2. QED BY <3>1
  <2>2. QED BY <2>1
<1>2. PICK t \in T : \A u \in T : ~(<<u, t>> \in OpToRel(<, Nat))
  BY <1>1, NatLessThanWellFounded, WFMin
<1>3. PICK m \in S : t = b - m
  BY <1>2
<1>4. ASSUME NEW y \in S
      PROVE  m >= y
  <2>1. b - y \in T /\ b - y \in Nat /\ t \in Nat /\ m \in Nat /\ y \in Nat
    BY <1>1, <1>2
  <2>2. ~(b - y < t)
    BY <1>2, <2>1 DEF OpToRel
  <2>3. QED BY <1>3, <2>1, <2>2
<1>5. Max(S) \in S /\ \A y \in S : Max(S) >= y
  BY <1>3, <1>4 DEF Max
<1>6. QED BY <1>5

LEMMA ReviewInitially == Init => RevisionsInv
BY DEF Init, ReviewInit, DatasetsInit, RevisionsInv, ReviewTypeOK, Present

\* Items that go, with or without their queue.
LEMMA RemovedStep ==
  ASSUME RevisionsInv, NEW gone, NEW queues,
         item' = [p \in DOMAIN item |-> IF p \in gone THEN None ELSE item[p]],
         next' = [q \in QueueIds |-> IF q \in queues THEN 0 ELSE next[q]],
         \A q \in queues : \A s \in Sources : <<q, s>> \in gone,
         taken' = taken, issued \subseteq issued', scenario' = scenario
  PROVE  Renumbered
<1>1. DOMAIN item = QueueIds \X Sources
  BY DEF RevisionsInv, ReviewTypeOK
<1>2. \A q \in QueueIds, s \in Sources : item'[<<q, s>>] \in {item[<<q, s>>], None}
  BY <1>1
<1>3. \A q \in QueueIds, s \in Sources : q \in queues => item'[<<q, s>>] = None
  BY <1>1
<1>4. ReviewTypeOK'
  BY <1>1 DEF RevisionsInv, ReviewTypeOK
<1>5. \A q \in QueueIds : next'[q] \in {0, next[q]} /\ (q \notin queues => next'[q] = next[q])
  BY DEF RevisionsInv, ReviewTypeOK
<1>6. \A q \in QueueIds : next'[q] # 0 => q \in issued'
  BY <1>5 DEF RevisionsInv
<1>7. \A q \in QueueIds, s \in Sources : Present(q, s)' => next'[q] # 0
  BY <1>2, <1>3, <1>5 DEF RevisionsInv, Present
<1>8. \A q \in QueueIds, s \in Sources, r \in Nat : <<q, s, r>> \in taken' =>
        /\ q \in issued'
        /\ next'[q] # 0 => r < next'[q]
        /\ Present(q, s)' => r <= item'[<<q, s>>].revision
  BY <1>2, <1>5 DEF RevisionsInv, Present
<1>9. \A q \in QueueIds, s \in Sources : Fresh(q, s)
  BY <1>2 DEF Fresh
<1>10. QED BY <1>4, <1>6, <1>7, <1>8, <1>9 DEF Renumbered, RevisionsInv

LEMMA CreateStep ==
  ASSUME RevisionsInv, NEW q \in QueueIds, CreateReviewQueue(q), scenario' = scenario
  PROVE  Renumbered
<1>1. q \notin issued /\ issued' = issued \cup {q} /\ next' = [next EXCEPT ![q] = 1]
      /\ UNCHANGED <<item, taken>>
  BY DEF CreateReviewQueue
<1>2. \A x \in QueueIds : next'[x] = IF x = q THEN 1 ELSE next[x]
  BY <1>1 DEF RevisionsInv, ReviewTypeOK
<1>3. ReviewTypeOK'
  BY <1>1 DEF RevisionsInv, ReviewTypeOK
<1>4. \A x \in QueueIds, s \in Sources : Fresh(x, s)
  BY <1>1 DEF Fresh
<1>5. RevisionsInv'
  BY <1>1, <1>2, <1>3 DEF RevisionsInv, Present
<1>6. QED BY <1>4, <1>5 DEF Renumbered

LEMMA InsertStep ==
  ASSUME RevisionsInv, NEW q \in QueueIds, NEW s \in Sources, InsertReviewItem(q, s),
         scenario' = scenario
  PROVE  Renumbered
<1> DEFINE n   == next[q]
           new == Intake(n)
<1>1. /\ n \in 1 .. MaxOrdinal /\ ~Present(q, s)
      /\ item' = [item EXCEPT ![<<q, s>>] = new] /\ taken' = taken \cup {<<q, s, new.revision>>}
      /\ next' = [next EXCEPT ![q] = @ + 1] /\ issued' = issued
  BY DEF InsertReviewItem
<1>2. n \in Nat /\ n # 0
  BY <1>1 DEF RevisionsInv, ReviewTypeOK
<1>3. new \in Item /\ new.revision = n
  BY <1>2, DraftsAssumption DEF Intake, Item
<1>4. /\ \A x \in QueueIds : next'[x] = IF x = q THEN n + 1 ELSE next[x]
      /\ next' \in [QueueIds -> Nat]
  BY <1>1, <1>2 DEF RevisionsInv, ReviewTypeOK
<1> HIDE DEF n, new
<1>5. /\ \A x \in QueueIds, y \in Sources :
           item'[<<x, y>>] = IF x = q /\ y = s THEN new ELSE item[<<x, y>>]
      /\ item' \in [QueueIds \X Sources -> Item \cup {None}]
  BY <1>1, <1>3 DEF RevisionsInv, ReviewTypeOK
<1>6. \A r \in Nat : \A y \in Sources : <<q, y, r>> \in taken => r < n
  BY <1>2 DEF RevisionsInv, n
<1>7. \A x \in QueueIds, y \in Sources : Fresh(x, y)
  <2> SUFFICES ASSUME NEW x \in QueueIds, NEW y \in Sources, item'[<<x, y>>] # item[<<x, y>>]
               PROVE  item'[<<x, y>>].revision \in Nat /\ <<x, y, item'[<<x, y>>].revision>> \notin taken
    BY DEF Fresh
  <2>1. x = q /\ y = s /\ item'[<<x, y>>] = new
    BY <1>5
  <2>2. <<q, s, n>> \notin taken
    BY <1>2, <1>6
  <2>3. QED BY <1>2, <1>3, <2>1, <2>2
<1>8. \A x \in QueueIds : next'[x] # 0 => x \in issued'
  BY <1>1, <1>2, <1>4 DEF RevisionsInv, n
<1>9. \A x \in QueueIds, y \in Sources : Present(x, y)' => next'[x] # 0
  BY <1>2, <1>4, <1>5 DEF RevisionsInv, Present
<1>10. ASSUME NEW x \in QueueIds, NEW y \in Sources, NEW r \in Nat, <<x, y, r>> \in taken'
       PROVE  /\ x \in issued'
              /\ next'[x] # 0 => r < next'[x]
              /\ Present(x, y)' => r <= item'[<<x, y>>].revision
  <2>1. CASE <<x, y, r>> \in taken
    <3>1. x = q => r < n
      BY <1>6, <2>1
    <3>2. next'[x] # 0 => r < next'[x]
      <4>1. x # q => (next[x] # 0 => r < next[x])
        BY <2>1 DEF RevisionsInv
      <4>2. QED BY <1>2, <1>4, <3>1, <4>1
    <3>3. Present(x, y)' => r <= item'[<<x, y>>].revision
      BY <1>2, <1>3, <1>5, <2>1, <3>1 DEF RevisionsInv, Present
    <3>4. QED BY <1>1, <2>1, <3>2, <3>3 DEF RevisionsInv
  <2>2. CASE <<x, y, r>> = <<q, s, n>>
    <3>1. x = q /\ y = s /\ r = n
      BY <2>2
    <3>2. r < next'[x] /\ x \in issued'
      BY <1>1, <1>2, <1>4, <3>1 DEF RevisionsInv, n
    <3>3. item'[<<x, y>>] = new
      BY <1>5, <3>1
    <3>4. QED BY <1>2, <1>3, <3>1, <3>2, <3>3
  <2>3. QED BY <1>1, <1>3, <1>10, <2>1, <2>2
<1>11. ReviewTypeOK'
  BY <1>4, <1>5 DEF RevisionsInv, ReviewTypeOK
<1>12. QED BY <1>7, <1>8, <1>9, <1>10, <1>11 DEF Renumbered, RevisionsInv

\* Items of one queue that take their next revision (persistReviewMutation).
LEMMA PersistStep ==
  ASSUME RevisionsInv, NEW q \in QueueIds, NEW changed, DOMAIN changed \in SUBSET Sources,
         DOMAIN changed # {}, Persist(q, changed),
         \A s \in DOMAIN changed :
           /\ Present(q, s) /\ changed[s] \in Item
           /\ changed[s].revision = item[<<q, s>>].revision + 1,
         issued' = issued, scenario' = scenario
  PROVE  Renumbered
<1> DEFINE revisions == {changed[s].revision : s \in DOMAIN changed}
           numbers   == {next[q]} \cup {r + 1 : r \in revisions}
           n         == Max(numbers)
<1>1. /\ \A r \in revisions : r <= MaxOrdinal
      /\ item' = [p \in DOMAIN item |->
           IF p[1] = q /\ p[2] \in DOMAIN changed THEN changed[p[2]] ELSE item[p]]
      /\ taken' = taken \cup {<<q, s, changed[s].revision>> : s \in DOMAIN changed}
      /\ next' = [next EXCEPT ![q] = Max({@} \cup {r + 1 : r \in revisions})]
  BY DEF Persist
<1>2. DOMAIN item = QueueIds \X Sources /\ next[q] \in Nat /\ MaxOrdinal \in Nat
  BY DraftsAssumption DEF RevisionsInv, ReviewTypeOK
<1>3. \A s \in DOMAIN changed : changed[s].revision \in Nat
  BY DEF Item
<1>4. revisions \in SUBSET Nat
  BY <1>3
<1>5. numbers \in SUBSET Nat /\ numbers # {} /\ \A x \in numbers : x <= next[q] + MaxOrdinal + 1
  <2>1. ASSUME NEW r \in revisions
        PROVE  r + 1 \in Nat /\ r + 1 <= next[q] + MaxOrdinal + 1
    <3>1. r \in Nat /\ r <= MaxOrdinal
      BY <1>1, <1>4
    <3>2. QED BY <1>2, <3>1
  <2> HIDE DEF revisions
  <2>2. next[q] <= next[q] + MaxOrdinal + 1
    BY <1>2
  <2>3. QED BY <1>2, <2>1, <2>2
<1>6. n \in Nat /\ next[q] <= n /\ \A s \in DOMAIN changed : changed[s].revision < n
  <2>1. next[q] + MaxOrdinal + 1 \in Nat
    BY <1>2
  <2> HIDE DEF numbers
  <2>2. n \in numbers /\ \A y \in numbers : y <= n
    BY <1>5, <2>1, MaxOfBounded
  <2>3. n \in Nat
    BY <1>5, <2>2
  <2>4. next[q] \in numbers
    BY DEF numbers
  <2>5. \A s \in DOMAIN changed : changed[s].revision + 1 \in numbers
    BY DEF numbers
  <2> HIDE DEF n
  <2>6. ASSUME NEW s \in DOMAIN changed
        PROVE  changed[s].revision < n
    <3>1. changed[s].revision + 1 <= n /\ changed[s].revision \in Nat
      BY <1>3, <2>2, <2>5
    <3>2. QED BY <2>3, <3>1
  <2>7. QED BY <2>2, <2>3, <2>4, <2>6
<1>7. /\ next' \in [QueueIds -> Nat]
      /\ next'[q] = n /\ \A x \in QueueIds : x # q => next'[x] = next[x]
  <2>1. next' = [next EXCEPT ![q] = n]
    BY <1>1 DEF RevisionsInv, ReviewTypeOK
  <2> HIDE DEF n
  <2>2. QED BY <1>6, <2>1 DEF RevisionsInv, ReviewTypeOK
<1>8. next[q] # 0 /\ n # 0
  <2>1. next[q] # 0
    BY DEF RevisionsInv
  <2> HIDE DEF n
  <2>2. QED BY <1>2, <1>6, <2>1
<1> HIDE DEF revisions, numbers, n
<1>9. /\ item' \in [QueueIds \X Sources -> Item \cup {None}]
      /\ \A s \in DOMAIN changed : item'[<<q, s>>] = changed[s]
      /\ \A x \in QueueIds, y \in Sources :
           ~(x = q /\ y \in DOMAIN changed) => item'[<<x, y>>] = item[<<x, y>>]
  BY <1>1, <1>2 DEF RevisionsInv, ReviewTypeOK
<1>10. \A s \in DOMAIN changed : item[<<q, s>>].revision \in Nat
  BY DEF RevisionsInv, ReviewTypeOK, Present, Item
<1>11. ASSUME NEW s \in DOMAIN changed
       PROVE  <<q, s, changed[s].revision>> \notin taken
  <2>1. Present(q, s) /\ s \in Sources
    OBVIOUS
  <2>2. \A r \in Nat : <<q, s, r>> \in taken => r <= item[<<q, s>>].revision
    BY <2>1 DEF RevisionsInv
  <2>3. ~(changed[s].revision <= item[<<q, s>>].revision)
    BY <1>10
  <2>4. QED BY <1>3, <2>2, <2>3
<1>12. ASSUME NEW x \in QueueIds, NEW y \in Sources
       PROVE  Fresh(x, y)
  <2>1. CASE x = q /\ y \in DOMAIN changed
    BY <1>3, <1>9, <1>11, <2>1 DEF Fresh
  <2>2. CASE ~(x = q /\ y \in DOMAIN changed)
    BY <1>9, <2>2 DEF Fresh
  <2>3. QED BY <2>1, <2>2
<1>13. ReviewTypeOK'
  BY <1>7, <1>9 DEF RevisionsInv, ReviewTypeOK
<1>14. \A x \in QueueIds : next'[x] # 0 => x \in issued'
  BY <1>7, <1>8 DEF RevisionsInv
<1>15. \A x \in QueueIds, y \in Sources : Present(x, y)' => next'[x] # 0
  BY <1>7, <1>8, <1>9 DEF RevisionsInv, Present
<1>16. ASSUME NEW x \in QueueIds, NEW y \in Sources, NEW r \in Nat, <<x, y, r>> \in taken'
       PROVE  /\ x \in issued'
              /\ next'[x] # 0 => r < next'[x]
              /\ Present(x, y)' => r <= item'[<<x, y>>].revision
  <2>1. CASE <<x, y, r>> \in taken
    <3>1. /\ x \in issued /\ (next[x] # 0 => r < next[x])
          /\ (Present(x, y) => r <= item[<<x, y>>].revision)
      BY <2>1 DEF RevisionsInv
    <3>2. next'[x] # 0 => r < next'[x]
      BY <1>2, <1>6, <1>7, <1>8, <3>1
    <3>3. Present(x, y)' => r <= item'[<<x, y>>].revision
      <4>1. CASE x = q /\ y \in DOMAIN changed
        <5>1. r <= item[<<q, y>>].revision /\ item'[<<x, y>>] = changed[y]
          BY <1>9, <3>1, <4>1
        <5>2. QED BY <1>10, <4>1, <5>1
      <4>2. CASE ~(x = q /\ y \in DOMAIN changed)
        BY <1>9, <3>1, <4>2 DEF Present
      <4>3. QED BY <4>1, <4>2
    <3>4. QED BY <3>1, <3>2, <3>3
  <2>2. CASE <<x, y, r>> \in {<<q, s, changed[s].revision>> : s \in DOMAIN changed}
    <3>1. x = q /\ y \in DOMAIN changed /\ r = changed[y].revision
      BY <2>2
    <3>2. x \in issued'
      BY <1>8, <3>1 DEF RevisionsInv
    <3>3. r < next'[x]
      BY <1>6, <1>7, <3>1
    <3>4. item'[<<x, y>>] = changed[y]
      BY <1>9, <3>1
    <3>5. QED BY <1>3, <3>1, <3>2, <3>3, <3>4
  <2>3. QED BY <1>1, <1>16, <2>1, <2>2
<1>17. QED BY <1>12, <1>13, <1>14, <1>15, <1>16 DEF Renumbered, RevisionsInv

LEMMA PresentItem ==
  ASSUME RevisionsInv, NEW q \in QueueIds, NEW s \in Sources, Present(q, s)
  PROVE  item[<<q, s>>] \in Item /\ item[<<q, s>>].revision \in Nat
BY DEF RevisionsInv, ReviewTypeOK, Present, Item

LEMMA MutateStep ==
  ASSUME RevisionsInv, NEW q \in QueueIds, NEW s \in Sources, NEW kind \in Kinds,
         NEW expected, NEW mutation \in Mutations, NEW draft \in Drafts,
         MutateReviewItem(q, s, kind, expected, mutation, draft), scenario' = scenario
  PROVE  Renumbered
<1> DEFINE i   == item[<<q, s>>]
           new == Mutated(i, kind, draft, mutation)
<1>1. Present(q, s) /\ Persist(q, [x \in {s} |-> new]) /\ issued' = issued
  BY DEF MutateReviewItem
<1>2. i \in Item /\ i.revision \in Nat
  BY <1>1, PresentItem
<1>3. new \in Item /\ new.revision = i.revision + 1
  <2> DEFINE r == i.revision + 1
  <2>1. new = [i EXCEPT !.revision = r, !.draft = draft, !.mutation = mutation,
                 !.state    = IF kind = "approve" THEN "approved" ELSE "draft",
                 !.approved = IF kind = "approve" THEN draft ELSE None]
    BY <1>2 DEF Mutated, Item
  <2>2. r \in Nat
    BY <1>2
  <2> HIDE DEF r
  <2>3. new \in Item /\ new.revision = r
    BY <1>2, <2>1, <2>2 DEF Item
  <2>4. QED BY <2>3 DEF r
<1> HIDE DEF new
<1> DEFINE changed == [x \in {s} |-> new]
<1>4. DOMAIN changed = {s} /\ changed[s] = new
  OBVIOUS
<1> HIDE DEF changed
<1>5. /\ DOMAIN changed \in SUBSET Sources /\ DOMAIN changed # {} /\ Persist(q, changed)
      /\ \A x \in DOMAIN changed :
           /\ Present(q, x) /\ changed[x] \in Item
           /\ changed[x].revision = item[<<q, x>>].revision + 1
  BY <1>1, <1>3, <1>4 DEF changed
<1>6. QED BY <1>1, <1>5, PersistStep

LEMMA PromoteStep ==
  ASSUME RevisionsInv, NEW q \in QueueIds, NEW d \in DatasetIds, NEW expected \in Nat, NEW key,
         NEW some \in (SUBSET Sources) \ {{}}, NEW chosen \in [some -> Nat],
         Promote(q, d, expected, key, chosen), scenario' = scenario
  PROVE  Renumbered
<1> DEFINE changed == [s \in DOMAIN chosen |-> Promoted(item[<<q, s>>], d, expected + 1)]
<1>1. Promotable(q, chosen) /\ Persist(q, changed) /\ issued' = issued
  BY DEF Promote
<1>2. DOMAIN chosen = some /\ DOMAIN changed = some
  OBVIOUS
<1>3. ASSUME NEW s \in some
      PROVE  /\ Present(q, s) /\ changed[s] \in Item
             /\ changed[s].revision = item[<<q, s>>].revision + 1
  <2> DEFINE i  == item[<<q, s>>]
             r  == i.revision + 1
             to == [dataset |-> d, version |-> expected + 1]
  <2>1. Present(q, s)
    BY <1>1, <1>2 DEF Promotable
  <2>2. i \in Item /\ i.revision \in Nat
    BY <2>1, PresentItem
  <2>3. changed[s] = [i EXCEPT !.revision = r, !.state = "promoted", !.mutation = None,
                               !.destination = to]
    BY <1>2, <2>2 DEF Promoted, Item
  <2>4. r \in Nat /\ to \in [dataset : DatasetIds, version : Nat]
    BY <2>2
  <2> HIDE DEF r, to
  <2>5. changed[s] \in Item /\ changed[s].revision = r
    BY <2>2, <2>3, <2>4 DEF Item
  <2>6. QED BY <2>1, <2>5 DEF r
<1> HIDE DEF changed
<1>4. /\ DOMAIN changed \in SUBSET Sources /\ DOMAIN changed # {}
      /\ \A s \in DOMAIN changed :
           /\ Present(q, s) /\ changed[s] \in Item
           /\ changed[s].revision = item[<<q, s>>].revision + 1
  BY <1>2, <1>3
<1>5. QED BY <1>1, <1>4, PersistStep

LEMMA ReviewStep ==
  ASSUME RevisionsInv, Review
  PROVE  Renumbered
<1>1. scenario' = scenario /\ scenario.sources \subseteq Sources
  BY ScenariosAssumption DEF Review, Counted, RevisionsInv, ReviewTypeOK
<1>2. DOMAIN item = QueueIds \X Sources /\ next = [q \in QueueIds |-> next[q]]
  BY DEF RevisionsInv, ReviewTypeOK
<1>3. PICK q \in QueueIds :
       \/ CreateReviewQueue(q)
       \/ DeleteReviewQueue(q)
       \/ \E s \in scenario.sources :
            \/ InsertReviewItem(q, s)
            \/ \E expected \in 1 .. MaxOrdinal :
                 \/ DeleteReviewItem(q, s, expected)
                 \/ \E kind \in Kinds, mutation \in Mutations, draft \in Drafts :
                      MutateReviewItem(q, s, kind, expected, mutation, draft)
       \/ \E d \in DatasetIds, expected \in 1 .. MaxRevisions, key \in Keys :
            \E some \in (SUBSET scenario.sources) \ {{}} : \E chosen \in [some -> 1 .. MaxOrdinal] :
              Promote(q, d, expected, key, chosen)
  BY DEF Review
<1>4. CASE CreateReviewQueue(q)
  BY <1>1, <1>4, CreateStep
<1>5. CASE DeleteReviewQueue(q)
  <2> DEFINE gone == {p \in DOMAIN item : p[1] = q}
             queues == {q}
  <2>1. /\ item' = [p \in DOMAIN item |-> IF p \in gone THEN None ELSE item[p]]
        /\ next' = [x \in QueueIds |-> IF x \in queues THEN 0 ELSE next[x]]
        /\ taken' = taken /\ issued \subseteq issued'
    BY <1>2, <1>5 DEF DeleteReviewQueue
  <2>2. \A x \in queues : \A s \in Sources : <<x, s>> \in gone
    BY <1>2
  <2>3. scenario' = scenario
    BY <1>1
  <2> HIDE DEF gone, queues
  <2>4. QED BY <2>1, <2>2, <2>3, RemovedStep
<1>6. ASSUME NEW s \in scenario.sources, InsertReviewItem(q, s)
      PROVE  Renumbered
  BY <1>1, <1>6, InsertStep
<1>7. ASSUME NEW s \in scenario.sources, NEW expected, DeleteReviewItem(q, s, expected)
      PROVE  Renumbered
  <2> DEFINE gone == {<<q, s>>}
             none == {}
  <2>1. /\ item' = [p \in DOMAIN item |-> IF p \in gone THEN None ELSE item[p]]
        /\ next' = [x \in QueueIds |-> IF x \in none THEN 0 ELSE next[x]]
        /\ taken' = taken /\ issued \subseteq issued'
    BY <1>2, <1>7 DEF DeleteReviewItem
  <2>2. \A x \in none : \A y \in Sources : <<x, y>> \in gone
    OBVIOUS
  <2>3. scenario' = scenario
    BY <1>1
  <2> HIDE DEF gone, none
  <2>4. QED BY <2>1, <2>2, <2>3, RemovedStep
<1>8. ASSUME NEW s \in scenario.sources, NEW expected, NEW kind \in Kinds,
             NEW mutation \in Mutations, NEW draft \in Drafts,
             MutateReviewItem(q, s, kind, expected, mutation, draft)
      PROVE  Renumbered
  BY <1>1, <1>8, MutateStep
<1>9. ASSUME NEW d \in DatasetIds, NEW expected \in 1 .. MaxRevisions, NEW key \in Keys,
             NEW some \in (SUBSET scenario.sources) \ {{}}, NEW chosen \in [some -> 1 .. MaxOrdinal],
             Promote(q, d, expected, key, chosen)
      PROVE  Renumbered
  <2>1. expected \in Nat /\ some \in (SUBSET Sources) \ {{}}
    BY <1>1, DatasetBounds
  <2>2. chosen \in [some -> Nat]
    BY DraftsAssumption
  <2>3. QED BY <1>1, <1>9, <2>1, <2>2, PromoteStep
<1>10. QED BY <1>3, <1>4, <1>5, <1>6, <1>7, <1>8, <1>9

LEMMA RevisionsStep ==
  ASSUME RevisionsInv, [Next]_vars
  PROVE  Renumbered
<1> DEFINE none == {}
<1>1. DOMAIN item = QueueIds \X Sources /\ next = [q \in QueueIds |-> next[q]]
      /\ item = [p \in QueueIds \X Sources |-> item[p]]
  BY DEF RevisionsInv, ReviewTypeOK
<1>2. \A x \in none : \A y \in Sources : <<x, y>> \in none
  OBVIOUS
<1>3. CASE UNCHANGED <<next, item, taken, scenario>> /\ issued \subseteq issued'
  <2>1. /\ item' = [p \in DOMAIN item |-> IF p \in none THEN None ELSE item[p]]
        /\ next' = [x \in QueueIds |-> IF x \in none THEN 0 ELSE next[x]]
    BY <1>1, <1>3
  <2> HIDE DEF none
  <2>2. QED BY <1>2, <1>3, <2>1, RemovedStep
<1>4. CASE Curate
  BY <1>3, <1>4 DEF Curate, Counted, reviewVars, CreateDataset, UpdateDataset
<1>5. CASE Review
  BY <1>5, ReviewStep
<1>6. CASE Drop
  <2>1. scenario' = scenario
    BY <1>6 DEF Drop, Counted
  <2>2. CASE \E d \in DatasetIds : DropDataset(d)
    BY <1>3, <2>1, <2>2 DEF DropDataset, DeleteDataset
  <2>3. CASE \E s \in Sources : DeleteSource(s)
    <3>1. PICK s \in Sources : DeleteSource(s)
      BY <2>3
    <3> DEFINE gone == {p \in DOMAIN item : p[2] = s}
    <3>2. /\ item' = [p \in DOMAIN item |-> IF p \in gone THEN None ELSE item[p]]
          /\ next' = [x \in QueueIds |-> IF x \in none THEN 0 ELSE next[x]]
          /\ taken' = taken /\ issued' = issued
      BY <1>1, <3>1 DEF DeleteSource
    <3>3. \A x \in none : \A y \in Sources : <<x, y>> \in gone
      OBVIOUS
    <3> HIDE DEF gone, none
    <3>4. QED BY <2>1, <3>2, <3>3, RemovedStep
  <2>4. QED BY <1>6, <2>2, <2>3 DEF Drop
<1>7. CASE Request \/ Work \/ Broken \/ Process \/ UNCHANGED vars
  BY <1>3, <1>7 DEF Request, Work, Broken, Process, vars, reviewVars, Counted
<1>8. CASE Clear
  <2>1. UNCHANGED <<issued, taken, scenario>>
    BY <1>8 DEF Clear
  <2>2. CASE UNCHANGED <<next, item>>
    BY <1>3, <2>1, <2>2
  <2>3. CASE next' = [q \in QueueIds |-> 0] /\ item' = [p \in DOMAIN item |-> None]
    <3> DEFINE gone == DOMAIN item
    <3>1. /\ item' = [p \in DOMAIN item |-> IF p \in gone THEN None ELSE item[p]]
          /\ next' = [x \in QueueIds |-> IF x \in QueueIds THEN 0 ELSE next[x]]
      BY <2>3
    <3>2. \A x \in QueueIds : \A y \in Sources : <<x, y>> \in gone
      BY <1>1
    <3> HIDE DEF gone
    <3>3. QED BY <2>1, <3>1, <3>2, RemovedStep
  <2>4. QED BY <1>8, <2>2, <2>3 DEF Clear
<1>9. QED BY <1>4, <1>5, <1>6, <1>7, <1>8 DEF Next

\* A delayed request cannot address a new item with an old revision
\* (insertReviewItem's next_ordinal, persistReviewMutation): an item never comes
\* to a revision its source once had in its queue.
THEOREM RevisionsAreNeverReused == Spec => RevisionsNeverReused
<1> DEFINE Body == \A p \in DOMAIN item :
       item'[p] # item[p] /\ item'[p] # None => <<p[1], p[2], item'[p].revision>> \notin taken
<1>1. RevisionsInv /\ [Next]_vars => RevisionsInv'
  BY RevisionsStep DEF Renumbered
<1>2. RevisionsInv /\ [Next]_vars => [Body]_<<item, taken>>
  <2> SUFFICES ASSUME RevisionsInv, [Next]_vars, NEW p \in DOMAIN item,
                      item'[p] # item[p], item'[p] # None
               PROVE  <<p[1], p[2], item'[p].revision>> \notin taken
    OBVIOUS
  <2>1. DOMAIN item = QueueIds \X Sources
    BY DEF RevisionsInv, ReviewTypeOK
  <2>2. PICK q \in QueueIds, s \in Sources : p = <<q, s>>
    BY <2>1
  <2>3. Fresh(q, s)
    BY RevisionsStep DEF Renumbered
  <2>4. QED BY <2>2, <2>3 DEF Fresh
<1>3. QED BY <1>1, <1>2, ReviewInitially, PTL DEF Spec, RevisionsNeverReused

(***************************************************************************)
(* What promotions say.  Lists of cases are lists of whatever they hold.   *)
(***************************************************************************)

IsList(s) == s \in Seq(ToSet(s))

LEMMA ListLength ==
  ASSUME NEW s, IsList(s)
  PROVE  /\ Len(s) \in Nat /\ DOMAIN s = 1 .. Len(s) /\ (s # <<>> => Len(s) # 0)
         /\ ToSet(s) = {s[i] : i \in 1 .. Len(s)}
BY DEF IsList, ToSet

LEMMA ListOf ==
  ASSUME NEW S, NEW s \in Seq(S)
  PROVE  IsList(s)
<1>1. Len(s) \in Nat /\ s \in [1 .. Len(s) -> S]
  BY LenProperties
<1>2. s \in [1 .. Len(s) -> ToSet(s)]
  BY <1>1 DEF ToSet
<1>3. QED BY <1>1, <1>2 DEF IsList

LEMMA AppendList ==
  ASSUME NEW s, IsList(s), NEW x
  PROVE  /\ IsList(Append(s, x)) /\ Len(Append(s, x)) = Len(s) + 1 /\ Append(s, x) # <<>>
         /\ \A i \in 1 .. Len(s) : Append(s, x)[i] = s[i]
         /\ Append(s, x)[Len(s) + 1] = x
<1> DEFINE S == ToSet(s) \cup {x}
<1>1. s \in Seq(S) /\ x \in S
  <2>1. s \in Seq(ToSet(s)) /\ ToSet(s) \subseteq S
    BY DEF IsList
  <2>2. QED BY <2>1, SeqMonotonic
<1> HIDE DEF S
<1>2. /\ Append(s, x) \in Seq(S) /\ Append(s, x) # <<>> /\ Len(Append(s, x)) = Len(s) + 1
      /\ \A i \in 1 .. Len(s) : Append(s, x)[i] = s[i]
      /\ Append(s, x)[Len(s) + 1] = x
  BY <1>1, AppendProperties
<1>3. QED BY <1>2, ListOf

LEMMA ConcatList ==
  ASSUME NEW s, IsList(s), NEW t, IsList(t)
  PROVE  /\ IsList(s \o t) /\ Len(s \o t) = Len(s) + Len(t)
         /\ ToSet(s \o t) = ToSet(s) \cup ToSet(t) /\ IsPrefix(s, s \o t)
<1> DEFINE S == ToSet(s) \cup ToSet(t)
           u == s \o t
<1>1. s \in Seq(S) /\ t \in Seq(S)
  <2>1. s \in Seq(ToSet(s)) /\ t \in Seq(ToSet(t)) /\ ToSet(s) \subseteq S /\ ToSet(t) \subseteq S
    BY DEF IsList
  <2> HIDE DEF S
  <2>2. QED BY <2>1, SeqMonotonic
<1>2. /\ Len(s) \in Nat /\ Len(t) \in Nat /\ DOMAIN s = 1 .. Len(s) /\ DOMAIN t = 1 .. Len(t)
  BY ListLength
<1> HIDE DEF S
<1>3. /\ u \in Seq(S) /\ Len(u) = Len(s) + Len(t) /\ DOMAIN u = 1 .. Len(s) + Len(t)
      /\ \A i \in 1 .. Len(s) : u[i] = s[i]
      /\ \A i \in 1 .. Len(t) : u[Len(s) + i] = t[i]
  BY <1>1, <1>2
<1> HIDE DEF u
<1>4. ToSet(u) = ToSet(s) \cup ToSet(t)
  <2>1. ASSUME NEW i \in DOMAIN u
        PROVE  u[i] \in ToSet(s) \cup ToSet(t)
    <3>1. CASE i <= Len(s)
      <4>1. i \in 1 .. Len(s)
        BY <1>2, <1>3, <3>1
      <4>2. u[i] = s[i] /\ i \in DOMAIN s
        BY <1>2, <1>3, <4>1
      <4>3. QED BY <4>2 DEF ToSet
    <3>2. CASE ~(i <= Len(s))
      <4>1. i - Len(s) \in 1 .. Len(t) /\ Len(s) + (i - Len(s)) = i
        BY <1>2, <1>3, <3>2
      <4>2. u[i] = t[i - Len(s)] /\ i - Len(s) \in DOMAIN t
        BY <1>2, <1>3, <4>1
      <4>3. QED BY <4>2 DEF ToSet
    <3>3. QED BY <3>1, <3>2
  <2>2. ASSUME NEW i \in DOMAIN s
        PROVE  s[i] \in ToSet(u)
    <3>1. i \in DOMAIN u /\ u[i] = s[i]
      BY <1>2, <1>3
    <3>2. QED BY <3>1 DEF ToSet
  <2>3. ASSUME NEW i \in DOMAIN t
        PROVE  t[i] \in ToSet(u)
    <3>1. Len(s) + i \in DOMAIN u /\ u[Len(s) + i] = t[i]
      BY <1>2, <1>3
    <3>2. QED BY <3>1 DEF ToSet
  <2>4. QED BY <2>1, <2>2, <2>3 DEF ToSet
<1>5. IsPrefix(s, u)
  <2>1. Len(s) <= Len(u)
    BY <1>2, <1>3
  <2>2. SubSeq(s, 1, Len(s)) = SubSeq(u, 1, Len(s))
    <3>1. CASE Len(s) = 0
      BY <3>1, SubSeqEmpty
    <3>2. CASE Len(s) # 0
      <4>1. Len(s) \in 1 .. Len(s) /\ 1 \in 1 .. Len(s)
        BY <1>2, <3>2
      <4>2. QED BY <1>1, <4>1, SubSeqOfConcat1 DEF u
    <3>3. QED BY <3>1, <3>2
  <2>3. QED BY <2>1, <2>2 DEF IsPrefix
<1>6. QED BY <1>3, <1>4, <1>5, ListOf DEF u

\* A finite set in some order.
LEMMA SetToSeqList ==
  ASSUME NEW S, IsFiniteSet(S)
  PROVE  IsList(SetToSeq(S)) /\ Len(SetToSeq(S)) = Cardinality(S) /\ ToSet(SetToSeq(S)) = S
<1> DEFINE n == Cardinality(S)
           s == SetToSeq(S)
<1>1. n \in Nat /\ ExistsBijection(1 .. n, S)
  BY FS_CardinalityType
<1>2. \E f \in [1 .. n -> S] : IsInjective(f)
  BY <1>1 DEF ExistsBijection, Bijection, Injection
<1>3. s \in [1 .. n -> S] /\ IsInjective(s)
  BY <1>2 DEF SetToSeq
<1>4. Cardinality(1 .. n) = n
  BY <1>1, FS_Interval
<1> HIDE DEF n, s
<1>5. s \in Surjection(1 .. n, S)
  <2>1. s \in Injection(1 .. n, S)
    BY <1>3 DEF Injection
  <2>2. Cardinality(1 .. n) = Cardinality(S)
    BY <1>4 DEF n
  <2>3. QED BY <2>1, <2>2, FS_Injection
<1>6. ToSet(s) = S
  BY <1>3, <1>5 DEF Surjection, ToSet
<1>7. s \in Seq(S) /\ Len(s) = n
  BY <1>1, <1>3
<1>8. QED BY <1>6, <1>7, ListOf DEF n, s

-----------------------------------------------------------------------------
(* The invariant. *)

\* A dataset has been issued and is a list of lists.
LineSound(d) ==
  /\ IsList(dataset[d])
  /\ \A v \in 1 .. Latest(d) : IsList(dataset[d][v])
  /\ Exists(d) => d \in issued

Adds(before, after, q, items) ==
  /\ Len(after) = Len(before) + Cardinality(items)
  /\ IsPrefix(before, after)
  /\ CaseIds(after) \ CaseIds(before) = {<<q, s>> : s \in items}

ReceiptSound(r) ==
  /\ r.dataset \in DatasetIds /\ HasRevision(r.dataset, r.version) /\ r.version > 1
  /\ Adds(dataset[r.dataset][r.version - 1], dataset[r.dataset][r.version], r.queue, r.items)

\* The dataset a promoted item names may be gone, and is then never back.
ItemSound(p) ==
  LET to == item[p].destination
  IN  /\ item[p].state = "approved" => item[p].approved = item[p].draft
      /\ item[p].state = "promoted" =>
           /\ to \in [dataset : DatasetIds, version : Nat] /\ to.dataset \in issued
           /\ Exists(to.dataset) =>
                /\ HasRevision(to.dataset, to.version)
                /\ CaseOf(p[1], p[2], item[p].approved) \in ToSet(dataset[to.dataset][to.version])
                /\ \E r \in receipts : /\ r.queue = p[1] /\ p[2] \in r.items
                                       /\ r.dataset = to.dataset /\ r.version = to.version

UnderReview == {p \in DOMAIN item : item[p] # None}

PromotionInv ==
  /\ RevisionsInv
  /\ dataset = [d \in DatasetIds |-> dataset[d]]
  /\ \A d \in DatasetIds : LineSound(d)
  /\ \A r \in receipts : ReceiptSound(r)
  /\ \A r, o \in receipts : o.dataset = r.dataset /\ o.version = r.version => o = r
  /\ \A p \in QueueIds \X Sources : item[p] # None => ItemSound(p)
  /\ IsFiniteSet(UnderReview)

LEMMA PromotionInitially == Init => PromotionInv
<1> SUFFICES ASSUME Init
             PROVE  PromotionInv
  OBVIOUS
<1>1. RevisionsInv
  BY ReviewInitially
<1>2. /\ dataset = [d \in DatasetIds |-> <<>>] /\ receipts = {}
      /\ item = [p \in QueueIds \X Sources |-> None]
  BY DEF Init, ReviewInit, DatasetsInit
<1>3. \A d \in DatasetIds : dataset[d] = <<>>
  BY <1>2
<1>4. IsList(<<>>) /\ Len(<<>>) = 0
  BY EmptySeq DEF IsList
<1>5. \A d \in DatasetIds : LineSound(d)
  BY <1>3, <1>4 DEF LineSound, Exists, Latest
<1>6. UnderReview = {}
  BY <1>2 DEF UnderReview
<1>7. dataset = [d \in DatasetIds |-> dataset[d]]
  BY <1>2
<1>8. QED BY <1>1, <1>2, <1>5, <1>6, <1>7, FS_EmptySet DEF PromotionInv

LEMMA PromotionImplied == PromotionInv => PromotionExact
<1> SUFFICES ASSUME PromotionInv
             PROVE  PromotionExact
  OBVIOUS
<1>1. ASSUME NEW r \in receipts
      PROVE  /\ HasRevision(r.dataset, r.version) /\ r.version > 1
             /\ LET before == dataset[r.dataset][r.version - 1]
                    after  == dataset[r.dataset][r.version]
                IN  /\ Len(after) = Len(before) + Cardinality(r.items)
                    /\ IsPrefix(before, after)
                    /\ CaseIds(after) \ CaseIds(before) = {<<r.queue, s>> : s \in r.items}
             /\ \A o \in receipts : <<o.dataset, o.version>> = <<r.dataset, r.version>> => o = r
  <2>1. ReceiptSound(r)
    BY DEF PromotionInv
  <2>2. \A o \in receipts : <<o.dataset, o.version>> = <<r.dataset, r.version>> => o = r
    BY DEF PromotionInv
  <2>3. QED BY <2>1, <2>2 DEF ReceiptSound, Adds
<1>2. ASSUME NEW p \in DOMAIN item, item[p] # None, item[p].state = "promoted",
             Exists(item[p].destination.dataset)
      PROVE  LET to == item[p].destination
             IN  /\ CaseOf(p[1], p[2], item[p].approved) \in ToSet(dataset[to.dataset][to.version])
                 /\ \E r \in receipts : /\ r.queue = p[1] /\ p[2] \in r.items
                                        /\ r.dataset = to.dataset /\ r.version = to.version
  <2>1. p \in QueueIds \X Sources
    BY DEF PromotionInv, RevisionsInv, ReviewTypeOK
  <2>2. ItemSound(p)
    BY <1>2, <2>1 DEF PromotionInv
  <2>3. QED BY <1>2, <2>2 DEF ItemSound
<1>3. QED BY <1>1, <1>2 DEF PromotionExact

\* A dataset goes, comes as a new one, or its revisions stay what they were.
Follows(d) ==
  \/ dataset'[d] = <<>>
  \/ d \notin issued
  \/ /\ Exists(d) /\ Latest(d) <= Latest(d)'
     /\ \A v \in 1 .. Latest(d) : dataset'[d][v] = dataset[d][v]

\* Receipts go with their dataset or with every item of their queue, and items
\* change one by one.
LEMMA PromotionKept ==
  ASSUME PromotionInv, RevisionsInv', issued \subseteq issued',
         dataset' = [d \in DatasetIds |-> dataset'[d]],
         \A d \in DatasetIds : Follows(d) /\ LineSound(d)',
         \A r \in receipts' : r \in receipts => dataset'[r.dataset] # <<>>,
         \A r \in receipts' : r \notin receipts =>
           /\ ReceiptSound(r)'
           /\ \A o \in receipts' : o.dataset = r.dataset /\ o.version = r.version => o = r,
         \A r \in receipts, p \in QueueIds \X Sources :
           dataset'[r.dataset] # <<>> /\ r.queue = p[1] /\ item'[p] # None => r \in receipts',
         \A p \in QueueIds \X Sources : item'[p] # None => item'[p] = item[p] \/ ItemSound(p)',
         IsFiniteSet(UnderReview')
  PROVE  PromotionInv'
<1>1. ASSUME NEW r \in receipts, dataset'[r.dataset] # <<>>
      PROVE  ReceiptSound(r)'
  <2> DEFINE d == r.dataset
             v == r.version
  <2>1. /\ d \in DatasetIds /\ v \in 1 .. Latest(d) /\ v > 1
        /\ Adds(dataset[d][v - 1], dataset[d][v], r.queue, r.items)
    BY DEF PromotionInv, ReceiptSound, HasRevision
  <2>2. IsList(dataset[d]) /\ (Exists(d) => d \in issued) /\ IsList(dataset'[d])
    BY <2>1 DEF PromotionInv, LineSound
  <2>3. Latest(d) \in Nat /\ Latest(d)' \in Nat
    BY <2>2, ListLength DEF Latest
  <2>4. Exists(d)
    <3>1. Latest(d) # 0
      BY <2>1, <2>3
    <3>2. Len(<<>>) = 0
      BY EmptySeq
    <3>3. QED BY <3>1, <3>2 DEF Latest, Exists
  <2>5. /\ Latest(d) <= Latest(d)'
        /\ \A w \in 1 .. Latest(d) : dataset'[d][w] = dataset[d][w]
    BY <1>1, <2>1, <2>2, <2>4 DEF Follows
  <2>6. v - 1 \in 1 .. Latest(d) /\ v \in 1 .. Latest(d)'
    BY <2>1, <2>3, <2>5
  <2>7. dataset'[d][v - 1] = dataset[d][v - 1] /\ dataset'[d][v] = dataset[d][v]
    BY <2>1, <2>5, <2>6
  <2>8. Adds(dataset'[d][v - 1], dataset'[d][v], r.queue, r.items)
    BY <2>1, <2>7
  <2>9. QED BY <2>1, <2>6, <2>8 DEF ReceiptSound, HasRevision
<1>2. ASSUME NEW p \in QueueIds \X Sources, item'[p] # None, item'[p] = item[p]
      PROVE  ItemSound(p)'
  <2> DEFINE to == item[p].destination
             d  == to.dataset
             v  == to.version
  <2>1. ItemSound(p)
    BY <1>2 DEF PromotionInv
  <2>2. item[p].state = "approved" => item[p].approved = item[p].draft
    BY <2>1 DEF ItemSound
  <2>3. ASSUME item[p].state = "promoted"
        PROVE  /\ to \in [dataset : DatasetIds, version : Nat] /\ d \in issued'
               /\ dataset'[d] # <<>> =>
                    /\ v \in 1 .. Latest(d)'
                    /\ CaseOf(p[1], p[2], item[p].approved) \in ToSet(dataset'[d][v])
                    /\ \E r \in receipts' : /\ r.queue = p[1] /\ p[2] \in r.items
                                            /\ r.dataset = d /\ r.version = v
    <3>1. to \in [dataset : DatasetIds, version : Nat] /\ d \in issued
      BY <2>1, <2>3 DEF ItemSound
    <3>2. d \in DatasetIds
      BY <3>1
    <3>3. IsList(dataset[d]) /\ IsList(dataset'[d])
      BY <3>2 DEF PromotionInv, LineSound
    <3>4. ASSUME dataset'[d] # <<>>
          PROVE  /\ v \in 1 .. Latest(d)'
                 /\ CaseOf(p[1], p[2], item[p].approved) \in ToSet(dataset'[d][v])
                 /\ \E r \in receipts' : /\ r.queue = p[1] /\ p[2] \in r.items
                                         /\ r.dataset = d /\ r.version = v
      <4>1. /\ Exists(d) /\ Latest(d) <= Latest(d)'
            /\ \A w \in 1 .. Latest(d) : dataset'[d][w] = dataset[d][w]
        <5>1. Follows(d)
          BY <3>2
        <5>2. QED BY <3>1, <3>4, <5>1 DEF Follows
      <4>2. Latest(d) \in Nat /\ Latest(d)' \in Nat
        BY <3>3, ListLength DEF Latest
      <4>3. /\ v \in 1 .. Latest(d)
            /\ CaseOf(p[1], p[2], item[p].approved) \in ToSet(dataset[d][v])
        BY <2>1, <2>3, <4>1 DEF ItemSound, HasRevision
      <4>4. PICK r \in receipts : /\ r.queue = p[1] /\ p[2] \in r.items
                                  /\ r.dataset = d /\ r.version = v
        BY <2>1, <2>3, <4>1 DEF ItemSound
      <4>5. r \in receipts'
        BY <1>2, <3>4, <4>4
      <4>6. v \in 1 .. Latest(d)' /\ dataset'[d][v] = dataset[d][v]
        BY <4>1, <4>2, <4>3
      <4>7. QED BY <4>3, <4>4, <4>5, <4>6
    <3>5. QED BY <3>1, <3>4
  <2>4. QED BY <1>2, <2>2, <2>3 DEF ItemSound, HasRevision, Exists, CaseOf
<1>3. \A p \in QueueIds \X Sources : item'[p] # None => ItemSound(p)'
  BY <1>2
<1>4. \A r \in receipts' : ReceiptSound(r)'
  BY <1>1
<1>5. ASSUME NEW r \in receipts', NEW o \in receipts', o.dataset = r.dataset, o.version = r.version
      PROVE  o = r
  <2>1. CASE r \notin receipts
    BY <1>5, <2>1
  <2>2. CASE o \notin receipts
    BY <1>5, <2>2
  <2>3. CASE r \in receipts /\ o \in receipts
    BY <1>5, <2>3 DEF PromotionInv
  <2>4. QED BY <2>1, <2>2, <2>3
<1>6. QED BY <1>3, <1>4, <1>5 DEF PromotionInv

LEMMA ReceiptExists ==
  ASSUME PromotionInv, NEW r \in receipts
  PROVE  r.dataset \in DatasetIds /\ dataset[r.dataset] # <<>>
<1>1. /\ r.dataset \in DatasetIds /\ r.version \in 1 .. Latest(r.dataset)
  BY DEF PromotionInv, ReceiptSound, HasRevision
<1>2. Latest(r.dataset) \in Nat
  BY <1>1, ListLength DEF PromotionInv, LineSound, Latest
<1>3. Latest(r.dataset) # 0
  BY <1>1, <1>2
<1>4. Len(<<>>) = 0
  BY EmptySeq
<1>5. QED BY <1>1, <1>3, <1>4 DEF Latest

LEMMA LinesKept ==
  ASSUME PromotionInv, dataset' = dataset, issued \subseteq issued'
  PROVE  /\ dataset' = [d \in DatasetIds |-> dataset'[d]]
         /\ \A d \in DatasetIds : Follows(d) /\ LineSound(d)'
<1>1. dataset' = [d \in DatasetIds |-> dataset'[d]]
  BY DEF PromotionInv
<1>2. ASSUME NEW d \in DatasetIds
      PROVE  Follows(d) /\ LineSound(d)'
  <2>1. LineSound(d)
    BY DEF PromotionInv
  <2>2. Latest(d) \in Nat
    BY <2>1, ListLength DEF LineSound, Latest
  <2>3. Latest(d)' = Latest(d)
    BY DEF Latest
  <2>4. Follows(d)
    BY <2>2, <2>3 DEF Follows, Exists
  <2>5. QED BY <2>1, <2>3, <2>4 DEF LineSound, Exists
<1>3. QED BY <1>1, <1>2

\* Reviews without their promotion.
LEMMA ItemsStep ==
  ASSUME PromotionInv, RevisionsInv', dataset' = dataset, issued \subseteq issued',
         receipts' \subseteq receipts,
         \A r \in receipts, p \in QueueIds \X Sources :
           r.queue = p[1] /\ item'[p] # None => r \in receipts',
         \A p \in QueueIds \X Sources : item'[p] # None =>
           \/ item'[p] = item[p]
           \/ /\ item'[p].state # "promoted"
              /\ item'[p].state = "approved" => item'[p].approved = item'[p].draft,
         NEW new, UnderReview' \subseteq UnderReview \cup {new}
  PROVE  PromotionInv'
<1>1. /\ dataset' = [d \in DatasetIds |-> dataset'[d]]
      /\ \A d \in DatasetIds : Follows(d) /\ LineSound(d)'
  BY LinesKept
<1>2. \A r \in receipts' : r \in receipts => dataset'[r.dataset] # <<>>
  BY ReceiptExists
<1>3. ASSUME NEW p \in QueueIds \X Sources, item'[p] # None
      PROVE  item'[p] = item[p] \/ ItemSound(p)'
  BY <1>3 DEF ItemSound
<1>4. IsFiniteSet(UnderReview')
  <2>1. IsFiniteSet(UnderReview \cup {new})
    BY FS_AddElement DEF PromotionInv
  <2>2. QED BY <2>1, FS_Subset
<1>5. QED BY <1>1, <1>2, <1>3, <1>4, PromotionKept

\* Datasets, with the receipts of one that goes.
LEMMA DatasetsStep ==
  ASSUME PromotionInv, RevisionsInv', item' = item, issued \subseteq issued',
         dataset' = [d \in DatasetIds |-> dataset'[d]],
         \A d \in DatasetIds : Follows(d) /\ LineSound(d)',
         receipts' = {r \in receipts : dataset'[r.dataset] # <<>>}
  PROVE  PromotionInv'
<1>1. IsFiniteSet(UnderReview')
  BY DEF PromotionInv, UnderReview
<1>2. QED BY <1>1, PromotionKept

\* A new revision after those a dataset has, or the first of a new one.
LEMMA RevisionAdded ==
  ASSUME PromotionInv, NEW d \in DatasetIds, NEW cases, IsList(cases),
         \/ Exists(d) /\ issued' = issued
         \/ d \notin issued /\ issued' = issued \cup {d},
         dataset' = [dataset EXCEPT ![d] = Append(@, cases)]
  PROVE  /\ dataset' = [e \in DatasetIds |-> dataset'[e]]
         /\ \A e \in DatasetIds : Follows(e) /\ LineSound(e)' /\ (dataset[e] # <<>> => dataset'[e] # <<>>)
<1>1. /\ dataset' = [e \in DatasetIds |-> dataset'[e]]
      /\ dataset'[d] = Append(dataset[d], cases)
      /\ \A e \in DatasetIds : e # d => dataset'[e] = dataset[e]
  BY DEF PromotionInv
<1>2. \A e \in DatasetIds : LineSound(e) /\ IsList(dataset[e]) /\ Latest(e) \in Nat
  BY ListLength DEF PromotionInv, LineSound, Latest
<1>3. /\ IsList(dataset'[d]) /\ dataset'[d] # <<>> /\ Latest(d)' = Latest(d) + 1
      /\ \A v \in 1 .. Latest(d) : dataset'[d][v] = dataset[d][v]
      /\ dataset'[d][Latest(d) + 1] = cases
  <2>1. IsList(dataset[d])
    BY <1>2
  <2>2. Latest(d) = Len(dataset[d]) /\ Latest(d)' = Len(dataset'[d])
    BY DEF Latest
  <2>3. QED BY <1>1, <2>1, <2>2, AppendList
<1>4. Follows(d)
  <2>1. Latest(d) <= Latest(d)'
    BY <1>2, <1>3
  <2>2. QED BY <1>3, <2>1 DEF Follows
<1>5. LineSound(d)'
  <2>1. ASSUME NEW v \in 1 .. Latest(d) + 1
        PROVE  IsList(dataset'[d][v])
    <3>1. v \in 1 .. Latest(d) \/ v = Latest(d) + 1
      BY <1>2
    <3>2. QED BY <1>2, <1>3, <3>1 DEF LineSound
  <2>2. d \in issued'
    BY <1>2 DEF LineSound
  <2>3. QED BY <1>3, <2>1, <2>2 DEF LineSound
<1>6. ASSUME NEW e \in DatasetIds, e # d
      PROVE  Follows(e) /\ LineSound(e)'
  <2>1. dataset'[e] = dataset[e] /\ Latest(e)' = Latest(e)
    BY <1>1, <1>6 DEF Latest
  <2>2. Follows(e)
    <3>1. Latest(e) <= Latest(e)'
      BY <1>2, <2>1
    <3>2. QED BY <2>1, <3>1 DEF Follows, Exists
  <2>3. issued \subseteq issued'
    OBVIOUS
  <2>4. LineSound(e)'
    BY <1>2, <2>1, <2>3 DEF LineSound, Exists
  <2>5. QED BY <2>2, <2>4
<1>7. QED BY <1>1, <1>3, <1>4, <1>5, <1>6

\* Items that go, with or without their queue.
LEMMA RemovedReviews ==
  ASSUME PromotionInv, RevisionsInv', dataset' = dataset, issued \subseteq issued',
         receipts' \subseteq receipts,
         \A p \in QueueIds \X Sources : item'[p] \in {item[p], None},
         \A r \in receipts, p \in QueueIds \X Sources :
           r.queue = p[1] /\ item'[p] # None => r \in receipts'
  PROVE  PromotionInv'
<1>1. DOMAIN item = QueueIds \X Sources /\ DOMAIN item' = QueueIds \X Sources
  BY DEF PromotionInv, RevisionsInv, ReviewTypeOK
<1>2. UnderReview' \subseteq UnderReview \cup {None}
  BY <1>1 DEF UnderReview
<1>3. \A p \in QueueIds \X Sources : item'[p] # None => item'[p] = item[p]
  OBVIOUS
<1>4. QED BY <1>2, <1>3, ItemsStep

\* One item that comes or changes, and is not promoted.
LEMMA ChangedReview ==
  ASSUME PromotionInv, RevisionsInv', dataset' = dataset, issued' = issued, receipts' = receipts,
         NEW x \in QueueIds \X Sources,
         \A p \in QueueIds \X Sources : p # x => item'[p] = item[p],
         item'[x].state # "promoted",
         item'[x].state = "approved" => item'[x].approved = item'[x].draft
  PROVE  PromotionInv'
<1>1. DOMAIN item = QueueIds \X Sources /\ DOMAIN item' = QueueIds \X Sources
  BY DEF PromotionInv, RevisionsInv, ReviewTypeOK
<1>2. UnderReview' \subseteq UnderReview \cup {x}
  BY <1>1 DEF UnderReview
<1>3. QED BY <1>2, ItemsStep

LEMMA MutatedReview ==
  ASSUME PromotionInv, RevisionsInv', NEW q \in QueueIds, NEW s \in Sources, NEW kind \in Kinds,
         NEW expected, NEW mutation, NEW draft,
         MutateReviewItem(q, s, kind, expected, mutation, draft)
  PROVE  PromotionInv'
<1> DEFINE i       == item[<<q, s>>]
           new     == Mutated(i, kind, draft, mutation)
           changed == [x \in {s} |-> new]
<1>1. /\ Present(q, s) /\ Persist(q, changed) /\ UNCHANGED <<dataset, issued, receipts>>
  BY DEF MutateReviewItem
<1>2. RevisionsInv
  BY DEF PromotionInv
<1>3. i \in Item
  BY <1>1, <1>2, PresentItem
<1>4. /\ new.state # "promoted"
      /\ new.state = "approved" => new.approved = new.draft
  BY <1>3 DEF Mutated, Item, Kinds
<1>5. DOMAIN changed = {s} /\ changed[s] = new
  OBVIOUS
<1>6. DOMAIN item = QueueIds \X Sources
  BY <1>2 DEF RevisionsInv, ReviewTypeOK
<1> HIDE DEF changed, new
<1>7. item' = [p \in DOMAIN item |->
           IF p[1] = q /\ p[2] \in DOMAIN changed THEN changed[p[2]] ELSE item[p]]
  BY <1>1 DEF Persist
<1>8. /\ item'[<<q, s>>] = new
      /\ \A p \in QueueIds \X Sources : p # <<q, s>> => item'[p] = item[p]
  BY <1>5, <1>6, <1>7
<1>9. <<q, s>> \in QueueIds \X Sources
  OBVIOUS
<1>10. QED BY <1>1, <1>4, <1>8, <1>9, ChangedReview

\* A promotion adds one case for each item, and says so.
LEMMA PromotedReviews ==
  ASSUME PromotionInv, RevisionsInv', NEW q \in QueueIds, NEW d \in DatasetIds,
         NEW expected \in Nat, NEW key, NEW some \in SUBSET Sources, NEW chosen \in [some -> Nat],
         Promote(q, d, expected, key, chosen)
  PROVE  PromotionInv'
<1> DEFINE last      == Last(dataset[d])
           case(s)   == CaseOf(q, s, item[<<q, s>>].draft)
           cases     == {case(s) : s \in some}
           additions == SetToSeq(cases)
           after     == last \o additions
           promoted  == [s \in some |-> Promoted(item[<<q, s>>], d, expected + 1)]
           receipt   == [queue |-> q, key |-> key, dataset |-> d, version |-> expected + 1,
                         items |-> some]
<1>1. DOMAIN chosen = some
  OBVIOUS
<1>2. /\ Exists(d) /\ Latest(d) = expected
      /\ \A s \in some : Present(q, s) /\ item[<<q, s>>].state = "approved"
      /\ \A s \in some : <<q, s>> \notin CaseIds(last)
      /\ dataset' = [dataset EXCEPT ![d] = Append(@, after)]
      /\ Persist(q, promoted)
      /\ receipts' = receipts \cup {receipt}
      /\ issued' = issued
  BY <1>1 DEF Promote, Promotable, Appendable, AppendRevision
<1>3. DOMAIN item = QueueIds \X Sources /\ DOMAIN item' = QueueIds \X Sources
  BY DEF PromotionInv, RevisionsInv, ReviewTypeOK
<1>4. IsFiniteSet(some)
  <2> DEFINE f == [s \in some |-> <<q, s>>]
  <2>1. f \in [some -> UnderReview]
    BY <1>2, <1>3 DEF UnderReview, Present
  <2>2. IsInjective(f)
    BY DEF IsInjective
  <2>3. f \in Injection(some, UnderReview)
    BY <2>1, <2>2 DEF Injection
  <2>4. IsFiniteSet(UnderReview)
    BY DEF PromotionInv
  <2>5. QED BY <2>3, <2>4, FS_Injection
<1>5. IsFiniteSet(cases) /\ Cardinality(cases) = Cardinality(some)
  <2> DEFINE g == [s \in some |-> case(s)]
  <2>1. g \in [some -> cases] /\ \A c \in cases : \E s \in some : g[s] = c
    OBVIOUS
  <2>2. IsInjective(g)
    BY DEF IsInjective, CaseOf
  <2>3. ExistsBijection(some, cases)
    BY <2>1, <2>2 DEF ExistsBijection, Bijection, Injection, Surjection
  <2>4. QED BY <1>4, <2>3, FS_Bijection
<1>6. /\ IsList(additions) /\ Len(additions) = Cardinality(some) /\ ToSet(additions) = cases
  BY <1>5, SetToSeqList
<1>7. LineSound(d) /\ Latest(d) \in Nat /\ Latest(d) # 0
  BY <1>2, ListLength DEF PromotionInv, LineSound, Latest, Exists
<1>8. IsList(last) /\ last = dataset[d][expected]
  BY <1>2, <1>7 DEF LineSound, Last, Latest
<1> HIDE DEF last, additions
<1>9. /\ IsList(after) /\ Len(after) = Len(last) + Cardinality(some)
      /\ ToSet(after) = ToSet(last) \cup cases /\ IsPrefix(last, after)
  BY <1>6, <1>8, ConcatList
<1> HIDE DEF after
<1>10. Adds(last, after, q, some)
  <2>1. CaseIds(after) = CaseIds(last) \cup {c.id : c \in cases}
    BY <1>9 DEF CaseIds
  <2>2. {c.id : c \in cases} = {<<q, s>> : s \in some}
    <3>1. \A s \in some : case(s).id = <<q, s>> /\ case(s) \in cases
      BY DEF CaseOf
    <3>2. \A c \in cases : \E s \in some : c = case(s)
      OBVIOUS
    <3> HIDE DEF case, cases
    <3>3. ASSUME NEW s \in some
          PROVE  <<q, s>> \in {c.id : c \in cases}
      <4>1. case(s).id = <<q, s>> /\ case(s) \in cases
        BY <3>1
      <4>2. QED BY <4>1
    <3>4. ASSUME NEW c \in cases
          PROVE  c.id \in {<<q, s>> : s \in some}
      <4>1. PICK s \in some : c = case(s)
        BY <3>2
      <4>2. c.id = <<q, s>>
        BY <3>1, <4>1
      <4>3. QED BY <4>2
    <3>5. QED BY <3>3, <3>4
  <2> HIDE DEF cases
  <2>3. CaseIds(after) \ CaseIds(last) = {<<q, s>> : s \in some}
    BY <1>2, <2>1, <2>2
  <2>4. QED BY <1>9, <2>3 DEF Adds
<1>11. /\ dataset' = [e \in DatasetIds |-> dataset'[e]]
       /\ \A e \in DatasetIds :
            Follows(e) /\ LineSound(e)' /\ (dataset[e] # <<>> => dataset'[e] # <<>>)
  BY <1>2, <1>9, RevisionAdded
<1>12. /\ Latest(d)' = expected + 1 /\ dataset'[d][expected] = last
       /\ dataset'[d][expected + 1] = after
  <2>1. dataset'[d] = Append(dataset[d], after)
    BY <1>2 DEF PromotionInv
  <2>2. IsList(dataset[d]) /\ Len(dataset[d]) = expected /\ expected \in 1 .. expected
    BY <1>2, <1>7 DEF LineSound, Latest
  <2>3. QED BY <1>8, <2>1, <2>2, AppendList DEF Latest
<1> HIDE DEF promoted, receipt
<1>13. ReceiptSound(receipt)'
  <2>1. /\ receipt.dataset = d /\ receipt.version = expected + 1 /\ receipt.queue = q
        /\ receipt.items = some
    BY DEF receipt
  <2>2. expected + 1 > 1 /\ expected + 1 \in 1 .. Latest(d)' /\ (expected + 1) - 1 = expected
    BY <1>2, <1>7, <1>12
  <2>3. QED BY <1>10, <1>12, <2>1, <2>2 DEF ReceiptSound, HasRevision
<1>14. ASSUME NEW o \in receipts', o.dataset = receipt.dataset, o.version = receipt.version
       PROVE  o = receipt
  <2>1. CASE o \in receipts
    <3>1. o.version \in 1 .. Latest(o.dataset)
      BY <2>1 DEF PromotionInv, ReceiptSound, HasRevision
    <3>2. o.dataset = d /\ o.version = expected + 1
      BY <1>14 DEF receipt
    <3>3. QED BY <1>2, <3>1, <3>2
  <2>2. QED BY <1>2, <2>1
<1>15. /\ \A s \in some : item'[<<q, s>>] = Promoted(item[<<q, s>>], d, expected + 1)
       /\ \A p \in QueueIds \X Sources : ~(p[1] = q /\ p[2] \in some) => item'[p] = item[p]
  <2>1. item' = [p \in DOMAIN item |->
           IF p[1] = q /\ p[2] \in DOMAIN promoted THEN promoted[p[2]] ELSE item[p]]
    BY <1>2 DEF Persist
  <2>2. DOMAIN promoted = some
    BY DEF promoted
  <2>3. \A s \in some : promoted[s] = Promoted(item[<<q, s>>], d, expected + 1)
    BY DEF promoted
  <2>4. QED BY <1>3, <2>1, <2>2, <2>3
<1>16. ASSUME NEW s \in some
       PROVE  ItemSound(<<q, s>>)'
  <2> DEFINE i  == item[<<q, s>>]
             j  == item'[<<q, s>>]
             to == [dataset |-> d, version |-> expected + 1]
  <2>1. i \in Item /\ i.state = "approved" /\ Present(q, s)
    BY <1>2, PresentItem DEF PromotionInv
  <2>2. i.approved = i.draft
    BY <2>1 DEF PromotionInv, ItemSound, Present
  <2>3. j.state = "promoted" /\ j.approved = i.approved /\ j.destination = to
    BY <1>15, <2>1 DEF Promoted, Item
  <2>4. d \in issued'
    BY <1>2, <1>7 DEF LineSound
  <2>5. CaseOf(q, s, j.approved) \in ToSet(dataset'[d][expected + 1])
    BY <1>9, <1>12, <2>2, <2>3
  <2>6. /\ receipt \in receipts' /\ receipt.queue = q /\ s \in receipt.items
        /\ receipt.dataset = d /\ receipt.version = expected + 1
    BY <1>2 DEF receipt
  <2>7. expected + 1 \in 1 .. Latest(d)' /\ to \in [dataset : DatasetIds, version : Nat]
    BY <1>12
  <2>8. QED BY <2>3, <2>4, <2>5, <2>6, <2>7 DEF ItemSound, HasRevision, CaseOf
<1>17. \A p \in QueueIds \X Sources : item'[p] # None => item'[p] = item[p] \/ ItemSound(p)'
  BY <1>15, <1>16
<1>18. IsFiniteSet(UnderReview')
  <2>1. UnderReview' \subseteq UnderReview
    BY <1>2, <1>3, <1>15 DEF UnderReview, Present
  <2>2. IsFiniteSet(UnderReview)
    BY DEF PromotionInv
  <2>3. QED BY <2>1, <2>2, FS_Subset
<1>19. \A r \in receipts : dataset'[r.dataset] # <<>> /\ r \in receipts'
  BY <1>2, <1>11, ReceiptExists
<1>20. \A r \in receipts' : r \notin receipts => r = receipt
  BY <1>2
<1>21. QED BY <1>2, <1>11, <1>13, <1>14, <1>17, <1>18, <1>19, <1>20, PromotionKept

-----------------------------------------------------------------------------
(* Every step. *)

LEMMA CuratedStep ==
  ASSUME PromotionInv, RevisionsInv', Curate
  PROVE  PromotionInv'
<1>1. scenario \in Scenarios /\ item' = item /\ receipts' = receipts
  BY DEF Curate, PromotionInv, RevisionsInv, ReviewTypeOK, reviewVars
<1>2. PICK d \in DatasetIds :
       \/ \E cases \in scenario.imports : CreateDataset(d, cases)
       \/ /\ Exists(d)
          /\ \E listed \in SUBSET CaseIds(Last(dataset[d])), rules \in scenario.added :
               \E ids \in SetToSeqs(listed) : UpdateDataset(d, Latest(d), ids, rules)
  BY DEF Curate
<1>3. LineSound(d) /\ DOMAIN dataset = DatasetIds
  BY DEF PromotionInv
<1>4. ASSUME NEW cases, IsList(cases), dataset' = [dataset EXCEPT ![d] = Append(@, cases)],
             \/ Exists(d) /\ issued' = issued
             \/ d \notin issued /\ issued' = issued \cup {d}
      PROVE  PromotionInv'
  <2>1. /\ dataset' = [e \in DatasetIds |-> dataset'[e]]
        /\ \A e \in DatasetIds :
             Follows(e) /\ LineSound(e)' /\ (dataset[e] # <<>> => dataset'[e] # <<>>)
    BY <1>4, RevisionAdded
  <2>2. receipts' = {r \in receipts : dataset'[r.dataset] # <<>>}
    BY <1>1, <2>1, ReceiptExists
  <2>3. issued \subseteq issued'
    BY <1>4
  <2>4. QED BY <1>1, <2>1, <2>2, <2>3, DatasetsStep
<1>5. ASSUME NEW cases \in scenario.imports, CreateDataset(d, cases)
      PROVE  PromotionInv'
  <2>1. IsList(cases)
    BY <1>1, ScenariosAssumption DEF IsList
  <2>2. d \notin issued /\ dataset' = [dataset EXCEPT ![d] = <<cases>>] /\ issued' = issued \cup {d}
    BY <1>5 DEF CreateDataset
  <2>3. dataset[d] = <<>>
    BY <1>3, <2>2 DEF LineSound, Exists
  <2>4. <<cases>> = Append(dataset[d], cases)
    BY <2>3
  <2>5. dataset' = [dataset EXCEPT ![d] = Append(@, cases)]
    BY <2>2, <2>4
  <2>6. QED BY <1>4, <2>1, <2>2, <2>5
<1>6. ASSUME Exists(d), NEW listed \in SUBSET CaseIds(Last(dataset[d])), NEW rules,
             NEW ids \in SetToSeqs(listed), UpdateDataset(d, Latest(d), ids, rules)
      PROVE  PromotionInv'
  <2> DEFINE last  == Last(dataset[d])
             kept  == Frozen(last, ids)
             added == IF rules = <<>> THEN <<>>
                      ELSE <<[id |-> <<d, Latest(d) + 1>>, rules |-> rules]>>
  <2>1. dataset' = [dataset EXCEPT ![d] = Append(@, kept \o added)] /\ issued' = issued
    BY <1>6 DEF UpdateDataset, AppendRevision
  <2>2. IsList(added)
    <3>1. IsList(<<>>)
      BY EmptySeq DEF IsList
    <3>2. \A x : <<x>> \in Seq({x})
      OBVIOUS
    <3>3. \A x : IsList(<<x>>)
      BY <3>2, ListOf
    <3>4. QED BY <3>1, <3>3
  <2>3. Latest(d) \in Nat /\ Latest(d) # 0
    BY <1>3, <1>6, ListLength DEF LineSound, Latest, Exists
  <2>4. IsList(last)
    <3>1. Latest(d) \in 1 .. Latest(d) /\ last = dataset[d][Latest(d)]
      BY <2>3 DEF Last, Latest
    <3>2. QED BY <1>3, <3>1 DEF LineSound
  <2>5. IsFiniteSet(listed)
    <3> DEFINE n == Len(last)
               f == [i \in 1 .. n |-> last[i].id]
    <3>1. n \in Nat /\ ToSet(last) = {last[i] : i \in 1 .. n}
      BY <2>4, ListLength
    <3>2. f \in Surjection(1 .. n, CaseIds(last))
      <4>1. ASSUME NEW i \in 1 .. n
            PROVE  f[i] = last[i].id /\ f[i] \in CaseIds(last)
        <5>1. last[i] \in ToSet(last)
          BY <3>1
        <5>2. QED BY <5>1 DEF CaseIds
      <4>2. ASSUME NEW t \in CaseIds(last)
            PROVE  \E i \in 1 .. n : f[i] = t
        <5>1. PICK c \in ToSet(last) : t = c.id
          BY DEF CaseIds
        <5>2. PICK i \in 1 .. n : c = last[i]
          BY <3>1
        <5>3. QED BY <4>1, <5>1, <5>2
      <4>3. f \in [1 .. n -> CaseIds(last)]
        BY <4>1
      <4>4. QED BY <4>2, <4>3 DEF Surjection
    <3> HIDE DEF f, n
    <3>3. IsFiniteSet(1 .. n)
      <4>1. 1 \in Int /\ n \in Int
        BY <3>1
      <4>2. QED BY <4>1, FS_Interval
    <3>4. IsFiniteSet(CaseIds(last))
      BY <3>2, <3>3, FS_Surjection
    <3>5. QED BY <3>4, FS_Subset
  <2>6. IsList(kept)
    <3> DEFINE n == Cardinality(listed)
    <3>1. n \in Nat /\ DOMAIN ids = 1 .. n
      BY <2>5, FS_CardinalityType DEF SetToSeqs
    <3> HIDE DEF n
    <3>2. DOMAIN kept = 1 .. n /\ kept = [i \in 1 .. n |-> kept[i]]
      BY <3>1 DEF Frozen
    <3> HIDE DEF kept
    <3>3. kept \in [1 .. n -> ToSet(kept)]
      BY <3>2 DEF ToSet
    <3>4. QED BY <3>1, <3>3 DEF IsList
  <2> HIDE DEF kept, added
  <2>7. IsList(kept \o added)
    BY <2>2, <2>6, ConcatList
  <2>8. QED BY <1>4, <1>6, <2>1, <2>7
<1>7. QED BY <1>2, <1>5, <1>6

LEMMA DroppedStep ==
  ASSUME PromotionInv, RevisionsInv', Drop
  PROVE  PromotionInv'
<1>1. CASE \E s \in Sources : DeleteSource(s)
  <2>1. PICK s \in Sources : DeleteSource(s)
    BY <1>1
  <2>2. \A p \in QueueIds \X Sources : item'[p] \in {item[p], None}
    BY <2>1 DEF DeleteSource, PromotionInv, RevisionsInv, ReviewTypeOK
  <2>3. UNCHANGED <<dataset, issued, receipts>>
    BY <2>1 DEF DeleteSource
  <2>4. QED BY <2>2, <2>3, RemovedReviews
<1>2. ASSUME NEW d \in DatasetIds, DropDataset(d)
      PROVE  PromotionInv'
  <2>1. /\ dataset' = [dataset EXCEPT ![d] = <<>>] /\ item' = item /\ issued' = issued
        /\ receipts' = {r \in receipts : r.dataset # d}
    BY <1>2 DEF DropDataset, DeleteDataset
  <2>2. /\ dataset' = [e \in DatasetIds |-> dataset'[e]] /\ dataset'[d] = <<>>
        /\ \A e \in DatasetIds : e # d => dataset'[e] = dataset[e]
    BY <2>1 DEF PromotionInv
  <2>3. \A r \in receipts : r.dataset # d <=> dataset'[r.dataset] # <<>>
    BY <2>2, ReceiptExists
  <2>4. receipts' = {r \in receipts : dataset'[r.dataset] # <<>>}
    BY <2>1, <2>3
  <2>5. ASSUME NEW e \in DatasetIds
        PROVE  Follows(e) /\ LineSound(e)'
    <3>1. LineSound(e) /\ Latest(e) \in Nat
      BY ListLength DEF PromotionInv, LineSound, Latest
    <3>2. CASE e = d
      <4>1. IsList(<<>>) /\ Len(<<>>) = 0
        BY EmptySeq DEF IsList
      <4>2. QED BY <2>2, <3>2, <4>1 DEF Follows, LineSound, Latest, Exists
    <3>3. CASE e # d
      <4>1. dataset'[e] = dataset[e] /\ Latest(e)' = Latest(e)
        BY <2>2, <3>3 DEF Latest
      <4>2. Latest(e) <= Latest(e)'
        BY <3>1, <4>1
      <4>3. Follows(e)
        BY <4>1, <4>2 DEF Follows, Exists
      <4>4. LineSound(e)'
        BY <2>1, <3>1, <4>1 DEF LineSound, Exists
      <4>5. QED BY <4>3, <4>4
    <3>4. QED BY <3>2, <3>3
  <2>6. QED BY <2>1, <2>2, <2>4, <2>5, DatasetsStep
<1>3. QED BY <1>1, <1>2 DEF Drop

LEMMA ClearedStep ==
  ASSUME PromotionInv, RevisionsInv', Clear
  PROVE  PromotionInv'
<1>1. issued' = issued
  BY DEF Clear
<1>2. CASE UNCHANGED <<dataset, item, receipts>>
  BY <1>1, <1>2, RemovedReviews
<1>3. CASE /\ dataset' = [d \in DatasetIds |-> <<>>]
           /\ item' = [p \in DOMAIN item |-> None]
           /\ receipts' = {}
  <2>1. /\ \A d \in DatasetIds : dataset'[d] = <<>>
        /\ dataset' = [d \in DatasetIds |-> dataset'[d]]
    BY <1>3
  <2>2. IsList(<<>>) /\ Len(<<>>) = 0
    BY EmptySeq DEF IsList
  <2>3. \A d \in DatasetIds : Follows(d) /\ LineSound(d)'
    BY <2>1, <2>2 DEF Follows, LineSound, Latest, Exists
  <2>4. \A p \in QueueIds \X Sources : item'[p] = None
    BY <1>3 DEF PromotionInv, RevisionsInv, ReviewTypeOK
  <2>5. UnderReview' = {}
    BY <1>3 DEF UnderReview
  <2>6. IsFiniteSet(UnderReview')
    BY <2>5, FS_EmptySet
  <2>7. QED BY <1>1, <1>3, <2>1, <2>3, <2>4, <2>6, PromotionKept
<1>4. QED BY <1>2, <1>3 DEF Clear

LEMMA ReviewedStep ==
  ASSUME PromotionInv, RevisionsInv', Review
  PROVE  PromotionInv'
<1>1. scenario.sources \subseteq Sources
  BY ScenariosAssumption DEF PromotionInv, RevisionsInv, ReviewTypeOK
<1>2. item = [p \in QueueIds \X Sources |-> item[p]]
  BY DEF PromotionInv, RevisionsInv, ReviewTypeOK
<1>3. PICK q \in QueueIds :
       \/ CreateReviewQueue(q)
       \/ DeleteReviewQueue(q)
       \/ \E s \in scenario.sources :
            \/ InsertReviewItem(q, s)
            \/ \E expected \in 1 .. MaxOrdinal :
                 \/ DeleteReviewItem(q, s, expected)
                 \/ \E kind \in Kinds, mutation \in Mutations, draft \in Drafts :
                      MutateReviewItem(q, s, kind, expected, mutation, draft)
       \/ \E d \in DatasetIds, expected \in 1 .. MaxRevisions, key \in Keys :
            \E some \in (SUBSET scenario.sources) \ {{}} : \E chosen \in [some -> 1 .. MaxOrdinal] :
              Promote(q, d, expected, key, chosen)
  BY DEF Review
<1>4. CASE CreateReviewQueue(q)
  <2>1. UNCHANGED <<dataset, item, receipts>> /\ issued \subseteq issued'
    BY <1>4 DEF CreateReviewQueue
  <2>2. QED BY <2>1, RemovedReviews
<1>5. CASE DeleteReviewQueue(q)
  <2>1. /\ UNCHANGED <<dataset, issued>> /\ receipts' = {r \in receipts : r.queue # q}
        /\ item' = [p \in DOMAIN item |-> IF p[1] = q THEN None ELSE item[p]]
    BY <1>5 DEF DeleteReviewQueue
  <2>2. \A p \in QueueIds \X Sources : item'[p] = IF p[1] = q THEN None ELSE item[p]
    BY <1>2, <2>1
  <2>3. QED BY <2>1, <2>2, RemovedReviews
<1>6. ASSUME NEW s \in scenario.sources, InsertReviewItem(q, s)
      PROVE  PromotionInv'
  <2>1. /\ UNCHANGED <<dataset, issued, receipts>>
        /\ item' = [item EXCEPT ![<<q, s>>] = Intake(next[q])]
    BY <1>6 DEF InsertReviewItem
  <2>2. <<q, s>> \in QueueIds \X Sources
    BY <1>1
  <2>3. /\ item'[<<q, s>>] = Intake(next[q])
        /\ \A p \in QueueIds \X Sources : p # <<q, s>> => item'[p] = item[p]
    BY <1>2, <2>1, <2>2
  <2>4. Intake(next[q]).state = "draft"
    BY DEF Intake
  <2>5. QED BY <2>1, <2>2, <2>3, <2>4, ChangedReview
<1>7. ASSUME NEW s \in scenario.sources, NEW expected, DeleteReviewItem(q, s, expected)
      PROVE  PromotionInv'
  <2>1. /\ UNCHANGED <<dataset, issued, receipts>> /\ item' = [item EXCEPT ![<<q, s>>] = None]
    BY <1>7 DEF DeleteReviewItem
  <2>2. \A p \in QueueIds \X Sources : item'[p] \in {item[p], None}
    BY <1>2, <2>1
  <2>3. QED BY <2>1, <2>2, RemovedReviews
<1>8. ASSUME NEW s \in scenario.sources, NEW expected, NEW kind \in Kinds,
             NEW mutation \in Mutations, NEW draft \in Drafts,
             MutateReviewItem(q, s, kind, expected, mutation, draft)
      PROVE  PromotionInv'
  BY <1>1, <1>8, MutatedReview
<1>9. ASSUME NEW d \in DatasetIds, NEW expected \in 1 .. MaxRevisions, NEW key \in Keys,
             NEW some \in (SUBSET scenario.sources) \ {{}}, NEW chosen \in [some -> 1 .. MaxOrdinal],
             Promote(q, d, expected, key, chosen)
      PROVE  PromotionInv'
  <2>1. expected \in Nat /\ some \in SUBSET Sources
    BY <1>1, DatasetBounds
  <2>2. chosen \in [some -> Nat]
    BY DraftsAssumption
  <2>3. QED BY <1>9, <2>1, <2>2, PromotedReviews
<1>10. QED BY <1>3, <1>4, <1>5, <1>6, <1>7, <1>8, <1>9

LEMMA PromotionStep ==
  ASSUME PromotionInv, [Next]_vars
  PROVE  PromotionInv'
<1>1. RevisionsInv'
  BY RevisionsStep DEF PromotionInv, Renumbered
<1>2. CASE Request \/ Work \/ Broken \/ Process \/ UNCHANGED vars
  <2>1. UNCHANGED <<dataset, issued, item, receipts>>
    BY <1>2 DEF Request, Work, Broken, Process, vars, reviewVars
  <2>2. QED BY <1>1, <2>1, RemovedReviews
<1>3. QED BY <1>1, <1>2, CuratedStep, ReviewedStep, DroppedStep, ClearedStep DEF Next

\* A receipt says what its revision added, no two claim one revision, and what
\* was promoted is there as it was approved (promoteApprovedReviewItems), however
\* late the requests come and whatever is edited, dropped or cleared meanwhile.
THEOREM PromotionsAreExact == Spec => []PromotionExact
BY PromotionInitially, PromotionStep, PromotionImplied, PTL DEF Spec
=============================================================================
