-------------------------- MODULE Recording_proofs --------------------------
(***************************************************************************)
(* Theorems about recording: the recorder of one camera (Recorder), for    *)
(* any number of processes, commands and faults, and the recordings with   *)
(* their retention (RecordingRetention), for any number of segments, any   *)
(* batch size and any troubles.                                            *)
(***************************************************************************)
EXTENDS Recorder, RecordingRetention, WellFoundedInduction, TLAPS

-----------------------------------------------------------------------------
(***************************************************************************)
(* Recorder: plans.                                                        *)
(***************************************************************************)
Step == {"claim", "directory", "launch", "register", "release", "sweep", "pop", "kill",
         "enable", "disable", "look", "compare", "missing", "rolled", "settings",
         "join", "clear", "close"}
Plan == Seq(Step)

\* What the steps of a plan rely on of those that follow: a launch is
\* registered, a registration is followed by a sweep and what pops by a kill.
Coherent(s) ==
  \A i \in 1 .. Len(s) :
    /\ s[i] = "launch" => i + 1 <= Len(s) /\ s[i + 1] = "register"
    /\ s[i] = "register" => /\ i + 2 <= Len(s)
                            /\ s[i + 1] = "release" /\ s[i + 2] = "sweep"
    /\ s[i] \in {"pop", "clear"} => i + 1 <= Len(s) /\ s[i + 1] = "kill"

Coherents == {s \in Plan : Coherent(s)}

Planned == plan \in [Thread -> Coherents] /\ undo \in Coherents

\* The rest of a coherent plan is coherent, because steps rely on later ones.
LEMMA RestCoherent ==
  ASSUME NEW s \in Coherents, NEW n \in Nat
  PROVE  /\ SubSeq(s, n + 1, Len(s)) \in Coherents
         /\ Len(SubSeq(s, n + 1, Len(s))) = IF n < Len(s) THEN Len(s) - n ELSE 0
         /\ \A i \in 1 .. Len(SubSeq(s, n + 1, Len(s))) :
              SubSeq(s, n + 1, Len(s))[i] = s[n + i]
  <1> DEFINE r == SubSeq(s, n + 1, Len(s))
  <1>1. s \in Seq(Step) /\ Coherent(s) /\ Len(s) \in Nat
    BY DEF Coherents, Plan
  <1>2. /\ r \in Seq(Step) /\ Len(r) = IF n < Len(s) THEN Len(s) - n ELSE 0
        /\ \A i \in 1 .. Len(r) : r[i] = s[n + i]
    BY <1>1
  <1> HIDE DEF r
  <1>3. ASSUME NEW i \in 1 .. Len(r), NEW k \in Nat, i + k <= Len(r)
        PROVE  n + i \in 1 .. Len(s) /\ r[i + k] = s[n + i + k] /\ n + i + k <= Len(s)
    BY <1>1, <1>2, <1>3
  <1>4. ASSUME NEW i \in 1 .. Len(r), NEW k \in Nat, n + i + k <= Len(s)
        PROVE  i + k <= Len(r)
    BY <1>1, <1>2, <1>4
  <1>5. ASSUME NEW i \in 1 .. Len(r)
        PROVE  /\ r[i] = "launch" => i + 1 <= Len(r) /\ r[i + 1] = "register"
               /\ r[i] = "register" => /\ i + 2 <= Len(r)
                                       /\ r[i + 1] = "release" /\ r[i + 2] = "sweep"
               /\ r[i] \in {"pop", "clear"} => i + 1 <= Len(r) /\ r[i + 1] = "kill"
    <2>1. n + i \in 1 .. Len(s) /\ r[i] = s[n + i]
      BY <1>2, <1>1
    <2>2. /\ s[n + i] = "launch" => n + i + 1 <= Len(s) /\ s[n + i + 1] = "register"
          /\ s[n + i] = "register" => /\ n + i + 2 <= Len(s)
                                      /\ s[n + i + 1] = "release" /\ s[n + i + 2] = "sweep"
          /\ s[n + i] \in {"pop", "clear"} => n + i + 1 <= Len(s) /\ s[n + i + 1] = "kill"
      BY <1>1, <2>1 DEF Coherent
    <2>3. CASE r[i] = "launch"
      BY <1>3, <1>4, <2>1, <2>2, <2>3
    <2>4. CASE r[i] = "register"
      <3>1. i + 2 <= Len(r) /\ i + 1 <= Len(r)
        BY <1>2, <1>4, <2>1, <2>2, <2>4
      <3> QED BY <1>3, <2>1, <2>2, <2>4, <3>1
    <2>5. CASE r[i] \in {"pop", "clear"}
      BY <1>3, <1>4, <2>1, <2>2, <2>5
    <2> QED BY <2>3, <2>4, <2>5
  <1>6. r \in Coherents
    BY <1>2, <1>5 DEF Coherents, Plan, Coherent
  <1> QED BY <1>2, <1>6 DEF r

\* Two coherent plans, one after the other.
LEMMA JoinCoherent ==
  ASSUME NEW a \in Coherents, NEW b \in Coherents
  PROVE  a \o b \in Coherents
  <1> DEFINE r == a \o b
  <1>1. /\ a \in Seq(Step) /\ Coherent(a) /\ Len(a) \in Nat
        /\ b \in Seq(Step) /\ Coherent(b) /\ Len(b) \in Nat
    BY DEF Coherents, Plan
  <1>2. /\ r \in Seq(Step) /\ Len(r) = Len(a) + Len(b)
        /\ \A i \in 1 .. Len(r) : r[i] = IF i <= Len(a) THEN a[i] ELSE b[i - Len(a)]
    BY <1>1
  <1> HIDE DEF r
  <1>3. ASSUME NEW i \in 1 .. Len(r)
        PROVE  /\ r[i] = "launch" => i + 1 <= Len(r) /\ r[i + 1] = "register"
               /\ r[i] = "register" => /\ i + 2 <= Len(r)
                                       /\ r[i + 1] = "release" /\ r[i + 2] = "sweep"
               /\ r[i] \in {"pop", "clear"} => i + 1 <= Len(r) /\ r[i + 1] = "kill"
    <2>1. CASE i <= Len(a)
      <3>1. i \in 1 .. Len(a) /\ r[i] = a[i]
        BY <1>1, <1>2, <2>1
      <3>2. \A k \in {1, 2} : i + k <= Len(a) => i + k <= Len(r) /\ r[i + k] = a[i + k]
        BY <1>1, <1>2, <2>1
      <3>3. /\ a[i] = "launch" => i + 1 <= Len(a) /\ a[i + 1] = "register"
            /\ a[i] = "register" => /\ i + 2 <= Len(a) /\ i + 1 <= Len(a)
                                    /\ a[i + 1] = "release" /\ a[i + 2] = "sweep"
            /\ a[i] \in {"pop", "clear"} => i + 1 <= Len(a) /\ a[i + 1] = "kill"
        BY <1>1, <3>1 DEF Coherent
      <3> QED BY <3>1, <3>2, <3>3
    <2>2. CASE i > Len(a)
      <3> DEFINE j == i - Len(a)
      <3>1. j \in 1 .. Len(b) /\ r[i] = b[j]
        BY <1>1, <1>2, <2>2
      <3>2. \A k \in {1, 2} : j + k <= Len(b) => i + k <= Len(r) /\ r[i + k] = b[j + k]
        BY <1>1, <1>2, <2>2
      <3> HIDE DEF j
      <3>3. /\ b[j] = "launch" => j + 1 <= Len(b) /\ b[j + 1] = "register"
            /\ b[j] = "register" => /\ j + 2 <= Len(b) /\ j + 1 <= Len(b)
                                    /\ b[j + 1] = "release" /\ b[j + 2] = "sweep"
            /\ b[j] \in {"pop", "clear"} => j + 1 <= Len(b) /\ b[j + 1] = "kill"
        BY <1>1, <3>1 DEF Coherent
      <3> QED BY <3>1, <3>2, <3>3
    <2> QED BY <1>1, <1>2, <2>1, <2>2
  <1>4. r \in Coherents
    BY <1>2, <1>3 DEF Coherents, Plan, Coherent
  <1> QED BY <1>4 DEF r

\* The plans there are.
LEMMA PlansCoherent ==
  /\ <<>> \in Coherents /\ StartPlan \in Coherents /\ StopPlan \in Coherents
  /\ DisablePlan \in Coherents /\ ReconcilePlan \in Coherents /\ ClosePlan \in Coherents
  /\ \A s \in {"enable", "disable", "release", "rolled", "settings"} : <<s>> \in Coherents
  <1>1. <<>> \in Coherents
    BY DEF Coherents, Plan, Coherent
  <1>2. StartPlan \in Coherents
    <2>1. PICK s : s = StartPlan
      OBVIOUS
    <2>2. /\ s \in Plan /\ Len(s) = 6
          /\ s[1] = "claim" /\ s[2] = "directory" /\ s[3] = "launch"
          /\ s[4] = "register" /\ s[5] = "release" /\ s[6] = "sweep"
      BY <2>1 DEF StartPlan, Plan, Step
    <2>3. \A i \in 1 .. 6 : i = 1 \/ i = 2 \/ i = 3 \/ i = 4 \/ i = 5 \/ i = 6
      OBVIOUS
    <2>4. Coherent(s)
      BY <2>2, <2>3 DEF Coherent
    <2> QED BY <2>1, <2>2, <2>4 DEF Coherents
  <1>3. StopPlan \in Coherents
    <2>1. PICK s : s = StopPlan
      OBVIOUS
    <2>2. /\ s \in Plan /\ Len(s) = 2
          /\ s[1] = "pop" /\ s[2] = "kill"
      BY <2>1 DEF StopPlan, Plan, Step
    <2>3. \A i \in 1 .. 2 : i = 1 \/ i = 2
      OBVIOUS
    <2>4. Coherent(s)
      BY <2>2, <2>3 DEF Coherent
    <2> QED BY <2>1, <2>2, <2>4 DEF Coherents
  <1>4. ReconcilePlan \in Coherents
    <2>1. PICK s : s = ReconcilePlan
      OBVIOUS
    <2>2. /\ s \in Plan /\ Len(s) = 4
          /\ s[1] = "look" /\ s[2] = "compare" /\ s[3] = "missing"
          /\ s[4] = "sweep"
      BY <2>1 DEF ReconcilePlan, Plan, Step
    <2>3. \A i \in 1 .. 4 : i = 1 \/ i = 2 \/ i = 3 \/ i = 4
      OBVIOUS
    <2>4. Coherent(s)
      BY <2>2, <2>3 DEF Coherent
    <2> QED BY <2>1, <2>2, <2>4 DEF Coherents
  <1>5. ClosePlan \in Coherents
    <2>1. PICK s : s = ClosePlan
      OBVIOUS
    <2>2. /\ s \in Plan /\ Len(s) = 4
          /\ s[1] = "join" /\ s[2] = "clear" /\ s[3] = "kill"
          /\ s[4] = "close"
      BY <2>1 DEF ClosePlan, Plan, Step
    <2>3. \A i \in 1 .. 4 : i = 1 \/ i = 2 \/ i = 3 \/ i = 4
      OBVIOUS
    <2>4. Coherent(s)
      BY <2>2, <2>3 DEF Coherent
    <2> QED BY <2>1, <2>2, <2>4 DEF Coherents
  <1>6. ASSUME NEW s \in {"enable", "disable", "release", "rolled", "settings"}
        PROVE  <<s>> \in Coherents
    <2>1. PICK r : r = <<s>>
      OBVIOUS
    <2>2. r \in Plan /\ Len(r) = 1 /\ r[1] = s
      BY <2>1 DEF Plan, Step
    <2>3. \A i \in 1 .. 1 : i = 1
      OBVIOUS
    <2>4. Coherent(r)
      BY <2>2, <2>3 DEF Coherent
    <2> QED BY <2>1, <2>2, <2>4 DEF Coherents
  <1>7. DisablePlan \in Coherents
    BY <1>3, <1>6, JoinCoherent DEF DisablePlan
  <1> QED BY <1>1, <1>2, <1>3, <1>4, <1>5, <1>6, <1>7

-----------------------------------------------------------------------------
(***************************************************************************)
(* Recorder: what the steps make of the plans.                             *)
(***************************************************************************)
LEMMA Replaced ==
  ASSUME Planned, NEW t \in Thread, NEW n \in Nat, NEW steps \in Coherents,
         Replaces(t, n, steps)
  PROVE  /\ plan' \in [Thread -> Coherents]
         /\ \A u \in Thread : u # t => plan'[u] = plan[u]
         /\ plan'[t] = steps \o SubSeq(plan[t], n + 1, Len(plan[t]))
  <1>1. plan[t] \in Coherents /\ plan \in [Thread -> Coherents]
    BY DEF Planned
  <1> DEFINE r == steps \o SubSeq(plan[t], n + 1, Len(plan[t]))
  <1>2. r \in Coherents
    BY <1>1, RestCoherent, JoinCoherent
  <1>3. plan' = [plan EXCEPT ![t] = r]
    BY DEF Replaces
  <1> HIDE DEF r
  <1>4. /\ plan' \in [Thread -> Coherents] /\ plan'[t] = r
        /\ \A u \in Thread : u # t => plan'[u] = plan[u]
    BY <1>1, <1>2, <1>3
  <1> QED BY <1>4 DEF r

LEMMA Proceeded ==
  ASSUME Planned, NEW t \in Thread, plan[t] # <<>>, Proceeds(t)
  PROVE  /\ plan' \in [Thread -> Coherents]
         /\ \A u \in Thread : u # t => plan'[u] = plan[u]
         /\ Len(plan'[t]) = Len(plan[t]) - 1 /\ Len(plan[t]) > 0
         /\ \A i \in 1 .. Len(plan'[t]) : plan'[t][i] = plan[t][i + 1]
  <1>1. <<>> \in Coherents
    BY PlansCoherent
  <1>2. plan[t] \in Coherents /\ plan[t] \in Seq(Step)
    BY DEF Planned, Coherents, Plan
  <1>3. Len(plan[t]) \in Nat /\ Len(plan[t]) > 0
    BY <1>2
  <1>4. /\ plan' \in [Thread -> Coherents]
        /\ \A u \in Thread : u # t => plan'[u] = plan[u]
        /\ plan'[t] = <<>> \o SubSeq(plan[t], 1 + 1, Len(plan[t]))
    <2>1. Replaces(t, 1, <<>>) /\ 1 \in Nat
      BY DEF Proceeds
    <2> QED BY <1>1, <2>1, Replaced
  <1>5. PICK r : r = SubSeq(plan[t], 1 + 1, Len(plan[t]))
    OBVIOUS
  <1>6. r \in Coherents /\ Len(r) = Len(plan[t]) - 1 /\ \A i \in 1 .. Len(r) : r[i] = plan[t][i + 1]
    <2>1. /\ SubSeq(plan[t], 1 + 1, Len(plan[t])) \in Coherents
          /\ Len(SubSeq(plan[t], 1 + 1, Len(plan[t]))) =
               IF 1 < Len(plan[t]) THEN Len(plan[t]) - 1 ELSE 0
          /\ \A i \in 1 .. Len(SubSeq(plan[t], 1 + 1, Len(plan[t]))) :
               SubSeq(plan[t], 1 + 1, Len(plan[t]))[i] = plan[t][1 + i]
      BY <1>2, RestCoherent
    <2>2. SubSeq(plan[t], 1 + 1, Len(plan[t])) = r
      BY <1>5
    <2>3. r \in Coherents /\ Len(r) = (IF 1 < Len(plan[t]) THEN Len(plan[t]) - 1 ELSE 0)
          /\ \A i \in 1 .. Len(r) : r[i] = plan[t][1 + i]
      BY <2>1, <2>2
    <2>4. \A i \in 1 .. Len(r) : 1 + i = i + 1
      BY <1>3, <2>3
    <2> QED BY <1>3, <2>3, <2>4
  <1>7. <<>> \o r = r
    BY <1>6 DEF Coherents, Plan
  <1> QED BY <1>3, <1>4, <1>5, <1>6, <1>7

\* What is at the head of a coherent plan, and what follows it.
LEMMA HeadOfPlan ==
  ASSUME Planned, NEW t \in Thread, NEW step, At(t, step)
  PROVE  /\ plan[t] # <<>> /\ plan[t][1] = step /\ Len(plan[t]) \in Nat /\ Len(plan[t]) > 0
         /\ step = "launch" => Len(plan[t]) > 1 /\ plan[t][2] = "register"
         /\ step = "register" => Len(plan[t]) > 2 /\ plan[t][2] = "release"
                                 /\ plan[t][3] = "sweep"
         /\ step \in {"pop", "clear"} => Len(plan[t]) > 1 /\ plan[t][2] = "kill"
  <1>1. plan[t] \in Seq(Step) /\ Coherent(plan[t])
    BY DEF Planned, Coherents, Plan
  <1>2. plan[t] # <<>> /\ plan[t][1] = step /\ Len(plan[t]) \in Nat /\ Len(plan[t]) > 0
    BY <1>1 DEF At
  <1>3. 1 \in 1 .. Len(plan[t]) /\ 1 + 1 = 2 /\ 1 + 2 = 3
    BY <1>2
  <1>4. /\ plan[t][1] = "launch" => 2 <= Len(plan[t]) /\ plan[t][2] = "register"
        /\ plan[t][1] = "register" => /\ 3 <= Len(plan[t])
                                      /\ plan[t][2] = "release" /\ plan[t][3] = "sweep"
        /\ plan[t][1] \in {"pop", "clear"} => 2 <= Len(plan[t]) /\ plan[t][2] = "kill"
    BY <1>1, <1>3 DEF Coherent
  <1> QED BY <1>2, <1>4

\* The step a plan begins with, and whether it is any.
LEMMA BeginsWith ==
  ASSUME NEW s \in Coherents, NEW step
  PROVE  (s # <<>> /\ Head(s) = step) <=> (Len(s) > 0 /\ s[1] = step)
  <1>1. s \in Seq(Step)
    BY DEF Coherents, Plan
  <1> QED BY <1>1

LEMMA PlannedInit == Init => Planned
  BY PlansCoherent DEF Init, Planned

LEMMA StepsPlanned ==
  ASSUME Planned, NEW t \in Thread,
         Starting(t) \/ Pop(t) \/ Kill(t) \/ Switch(t) \/ Settings \/ Join \/ Clear \/ Closes
  PROVE  Planned'
  <1>1. /\ <<>> \in Coherents /\ <<"release">> \in Coherents /\ undo \in Coherents
        /\ "control" \in Thread
    BY PlansCoherent DEF Planned, Thread
  <1>2. \A u \in Thread : UndoNothing(u) \in Coherents
    BY <1>1 DEF UndoNothing
  <1>3. ASSUME NEW u \in Thread, NEW n \in Nat, NEW steps \in Coherents,
               Replaces(u, n, steps), undo' \in {undo, UndoNothing(u)}
        PROVE  Planned'
    BY <1>1, <1>2, <1>3, Replaced DEF Planned
  <1>4. ASSUME NEW u \in Thread, Proceeds(u), undo' \in {undo, UndoNothing(u)}
        PROVE  Planned'
    BY <1>1, <1>3, <1>4 DEF Proceeds
  <1>5. CASE Claim(t)
    <2>1. Len(StartPlan) \in Nat
      BY PlansCoherent DEF Coherents, Plan
    <2> QED BY <1>1, <1>3, <1>4, <1>5, <2>1 DEF Claim
  <1>6. CASE MakeDirectory(t)
    <2>1. CASE Proceeds(t)
      BY <1>4, <1>6, <2>1 DEF MakeDirectory
    <2>2. CASE plan' = [plan EXCEPT ![t] = IF t = "control" THEN undo ELSE <<>>]
      <3>1. undo' \in Coherents
        BY <1>2, <1>6 DEF MakeDirectory
      <3>2. plan' \in [Thread -> Coherents]
        BY <1>1, <2>2 DEF Planned
      <3> QED BY <3>1, <3>2 DEF Planned
    <2> QED BY <1>6, <2>1, <2>2 DEF MakeDirectory
  <1>7. CASE Launch(t)
    BY <1>1, <1>3, <1>4, <1>7 DEF Launch
  <1>8. CASE Register(t)
    BY <1>1, <1>3, <1>4, <1>8 DEF Register
  <1>9. CASE Release(t) \/ Sweep(t) \/ Pop(t) \/ Kill(t) \/ Switch(t)
    BY <1>4, <1>9 DEF Release, Sweep, Pop, Kill, Switch
  <1>10. CASE Settings \/ Join \/ Closes
    BY <1>1, <1>4, <1>10 DEF Settings, Join, Closes
  <1>11. CASE Clear
    <2>1. (IF tracked = 0 THEN 2 ELSE 1) \in Nat
      OBVIOUS
    <2> QED BY <1>1, <1>3, <1>11, <2>1 DEF Clear
  <1> QED BY <1>5, <1>6, <1>7, <1>8, <1>9, <1>10, <1>11 DEF Starting

LEMMA WatchdogPlanned ==
  ASSUME Planned, WatchdogWakes \/ Reconciling
  PROVE  Planned'
  <1>1. /\ "watchdog" \in Thread /\ <<>> \in Coherents /\ StartPlan \in Coherents
        /\ StopPlan \in Coherents /\ ReconcilePlan \in Coherents
        /\ <<"rolled">> \in Coherents
    BY PlansCoherent DEF Thread
  <1>2. StopPlan \o StartPlan \in Coherents
    BY <1>1, JoinCoherent
  <1>3. StopPlan \o StartPlan \o <<"rolled">> \in Coherents
    BY <1>1, <1>2, JoinCoherent
  <1>4. ASSUME NEW n \in Nat, NEW steps \in Coherents, Replaces("watchdog", n, steps),
               UNCHANGED undo
        PROVE  Planned'
    BY <1>1, <1>4, Replaced DEF Planned
  <1>5. CASE WatchdogWakes
    BY <1>1, <1>5 DEF WatchdogWakes, Planned
  <1>6. CASE Look
    BY <1>1, <1>3, <1>4, <1>6 DEF Look
  <1>7. CASE Rolled
    BY <1>1, <1>4, <1>7 DEF Rolled, Proceeds
  <1>8. CASE Compare
    BY <1>1, <1>2, <1>4, <1>8 DEF Compare
  <1>9. CASE Missing
    BY <1>1, <1>4, <1>9 DEF Missing
  <1> QED BY <1>5, <1>6, <1>7, <1>8, <1>9 DEF Reconciling

LEMMA CommandsPlanned ==
  ASSUME Planned,
         \/ Close \/ PowerOn \/ RecordingOn \/ Off
         \/ \E restart \in BOOLEAN : Reconfigure(restart)
  PROVE  Planned'
  <1>1. /\ "control" \in Thread /\ <<>> \in Coherents /\ StartPlan \in Coherents
        /\ DisablePlan \in Coherents /\ ClosePlan \in Coherents
        /\ <<"enable">> \in Coherents /\ <<"settings">> \in Coherents
    BY PlansCoherent DEF Thread
  <1>2. <<"enable">> \o StartPlan \in Coherents /\ DisablePlan \o <<"settings">> \in Coherents
    BY <1>1, JoinCoherent
  <1>3. \A on \in BOOLEAN : SwitchPlan(on) \in Coherents
    BY <1>1 DEF SwitchPlan
  <1>4. ASSUME NEW steps \in Coherents, NEW otherwise \in Coherents,
               Commands(steps, otherwise)
        PROVE  Planned'
    BY <1>1, <1>4 DEF Commands, Planned
  <1>5. CASE Close
    BY <1>1, <1>5 DEF Close, Planned
  <1>6. CASE PowerOn \/ RecordingOn \/ Off
    BY <1>1, <1>2, <1>4, <1>6, Zenon DEF PowerOn, RecordingOn, Off
  <1>7. ASSUME NEW restart \in BOOLEAN, Reconfigure(restart)
        PROVE  Planned'
    <2>1. SwitchPlan(~disabled) \in Coherents
      BY <1>1 DEF SwitchPlan
    <2>2. DisablePlan \o <<"settings">> \o SwitchPlan(~disabled) \in Coherents
      BY <1>2, <2>1, JoinCoherent
    <2>3. \A tail \in {StartPlan, <<>>} :
            DisablePlan \o <<"settings">> \o SwitchPlan(~disabled) \o tail \in Coherents
      BY <1>1, <2>2, JoinCoherent
    <2> QED BY <1>1, <1>4, <1>7, <2>3, Zenon DEF Reconfigure
  <1> QED BY <1>5, <1>6, <1>7

LEMMA PlannedNext ==
  ASSUME Planned, [Next]_vars
  PROVE  Planned'
  <1>1. CASE Next
    <2>1. CASE RetryExpires \/ Status \/ \E p \in Process : ProcessExits(p) \/ RolloverRequested(p)
      BY <2>1 DEF RetryExpires, Status, ProcessExits, RolloverRequested, Planned
    <2> QED BY <1>1, <2>1, StepsPlanned, WatchdogPlanned, CommandsPlanned DEF Next, Proceed
  <1>2. CASE UNCHANGED vars
    BY <1>2 DEF vars, Planned
  <1> QED BY <1>1, <1>2


-----------------------------------------------------------------------------
(***************************************************************************)
(* Recorder: no process is forgotten.                                      *)
(***************************************************************************)
Begins(t, step) == Len(plan[t]) > 0 /\ plan[t][1] = step

\* The thread sweeps or kills next, and nothing can turn it away from that.
Certain(t) ==
  \/ Begins(t, "sweep") \/ Begins(t, "kill")
  \/ Begins(t, "release") /\ Len(plan[t]) > 1 /\ plan[t][2] = "sweep"

LaunchedOnes ==
  /\ mine \in [Thread -> Process \cup {0}]
  /\ \A t \in Thread : mine[t] # 0 => Begins(t, "register")

\* A sweep in a plan is not enough: a start that is turned away drops its own.
\* What nobody has registered is cleaned up by a thread that is certain to.
Covered ==
  /\ alive \subseteq Process
  /\ \A p \in alive \ {tracked} : \E t \in Thread : mine[t] = p \/ Certain(t)

Tracking == Planned /\ LaunchedOnes /\ Covered

\* Other threads stay as certain as they were.
LEMMA CertainKept ==
  ASSUME NEW u \in Thread, plan'[u] = plan[u]
  PROVE  /\ Certain(u) <=> Certain(u)'
         /\ \A step : Begins(u, step) <=> Begins(u, step)'
  BY DEF Certain, Begins

\* A step of a thread that holds no process and was not about to clean up.
LEMMA IndifferentStep ==
  ASSUME Tracking, NEW t \in Thread, \A u \in Thread : u # t => plan'[u] = plan[u],
         UNCHANGED mine, mine[t] = 0, Certain(t) => Certain(t)',
         alive' \subseteq alive, alive' \ {tracked'} \subseteq alive \ {tracked}
  PROVE  LaunchedOnes' /\ Covered'
  <1>1. \A u \in Thread : u # t =>
          (Certain(u) <=> Certain(u)') /\ (Begins(u, "register") <=> Begins(u, "register")')
    BY CertainKept
  <1>2. LaunchedOnes'
    BY <1>1 DEF Tracking, LaunchedOnes
  <1>3. ASSUME NEW p \in alive' \ {tracked'}
        PROVE  \E u \in Thread : mine'[u] = p \/ Certain(u)'
    <2>1. PICK u \in Thread : mine[u] = p \/ Certain(u)
      BY <1>3 DEF Tracking, Covered
    <2> QED BY <1>1, <2>1
  <1> QED BY <1>2, <1>3 DEF Tracking, Covered

\* A step of no thread.
LEMMA NoPlanStep ==
  ASSUME Tracking, UNCHANGED <<plan, mine>>, alive' \subseteq alive,
         alive' \ {tracked'} \subseteq alive \ {tracked}
  PROVE  LaunchedOnes' /\ Covered'
  <1>1. \A u \in Thread :
          (Certain(u) <=> Certain(u)') /\ (Begins(u, "register") <=> Begins(u, "register")')
    BY CertainKept
  <1> QED BY <1>1 DEF Tracking, LaunchedOnes, Covered

\* A thread that is certain to clean up covers everything.
LEMMA CertainCovers ==
  ASSUME Tracking, NEW t \in Thread, \A u \in Thread : u # t => plan'[u] = plan[u],
         mine' = [mine EXCEPT ![t] = 0] \/ (UNCHANGED mine /\ mine[t] = 0),
         Certain(t)', alive' \subseteq alive
  PROVE  LaunchedOnes' /\ Covered'
  <1>1. \A u \in Thread : u # t => (Begins(u, "register") <=> Begins(u, "register")')
    BY CertainKept
  <1>2. mine' \in [Thread -> Process \cup {0}] /\ mine'[t] = 0
        /\ \A u \in Thread : u # t => mine'[u] = mine[u]
    BY DEF Tracking, LaunchedOnes
  <1>3. LaunchedOnes'
    BY <1>1, <1>2 DEF Tracking, LaunchedOnes
  <1> QED BY <1>3 DEF Tracking, Covered

\* Whoever is at neither of these steps holds no process and is not certain.
LEMMA Indifferent ==
  ASSUME Tracking, NEW t \in Thread, NEW step, At(t, step), step # "register"
  PROVE  mine[t] = 0 /\ (step \in {"sweep", "kill", "release"} \/ ~Certain(t))
  <1>1. plan[t][1] = step
    BY HeadOfPlan DEF Tracking
  <1> QED BY <1>1 DEF Tracking, LaunchedOnes, Certain, Begins

LEMMA TrackingInit == Init => Tracking
  <1> SUFFICES ASSUME Init PROVE Tracking
    OBVIOUS
  <1>1. LaunchedOnes /\ Covered
    BY DEF Init, LaunchedOnes, Covered
  <1> QED BY <1>1, PlannedInit DEF Tracking

\* A start: what is launched is registered or killed, with a sweep behind it.
LEMMA StartingTracks ==
  ASSUME Tracking, NEW t \in Thread, Starting(t)
  PROVE  LaunchedOnes' /\ Covered'
  <1> USE DEF processVars, switchVars, rolloverVars, endVars, countVars
  <1>1. /\ <<>> \in Coherents /\ <<"release">> \in Coherents /\ undo \in Coherents /\ Planned
        /\ alive \subseteq Process
    BY PlansCoherent DEF Tracking, Planned, Covered
  <1>2. CASE Claim(t)
    <2>1. At(t, "claim") /\ mine[t] = 0 /\ ~Certain(t)
      BY <1>2, Indifferent DEF Claim
    <2>2. \A u \in Thread : u # t => plan'[u] = plan[u]
      <3>1. plan[t] # <<>> /\ Len(StartPlan) \in Nat
        BY <2>1, PlansCoherent DEF At, Coherents, Plan
      <3> QED BY <1>1, <1>2, <3>1, Replaced, Proceeded DEF Claim
    <2>3. UNCHANGED <<mine, alive>> /\ alive' \ {tracked'} \subseteq alive \ {tracked}
      BY <1>2 DEF Claim, Recording
    <2> QED BY <2>1, <2>2, <2>3, IndifferentStep
  <1>3. CASE MakeDirectory(t)
    <2>1. At(t, "directory") /\ mine[t] = 0 /\ ~Certain(t)
      BY <1>3, Indifferent DEF MakeDirectory
    <2>2. \A u \in Thread : u # t => plan'[u] = plan[u]
      <3>1. CASE Proceeds(t)
        BY <1>1, <2>1, <3>1, Proceeded DEF At
      <3>2. CASE plan' = [plan EXCEPT ![t] = IF t = "control" THEN undo ELSE <<>>]
        BY <1>1, <3>2 DEF Planned
      <3> QED BY <1>3, <3>1, <3>2 DEF MakeDirectory
    <2>3. UNCHANGED <<mine, alive, tracked>>
      BY <1>3 DEF MakeDirectory
    <2> QED BY <2>1, <2>2, <2>3, IndifferentStep
  <1>4. CASE Launch(t)
    <2>1. At(t, "launch") /\ mine[t] = 0 /\ ~Certain(t) /\ tracked' = tracked
      BY <1>4, Indifferent DEF Launch
    <2>2. CASE Replaces(t, 4, <<"release">>) /\ UNCHANGED <<alive, mine>>
      BY <1>1, <2>1, <2>2, Replaced, IndifferentStep
    <2>3. ASSUME NEW p \in UnusedProcess, alive' = alive \cup {p},
                 mine' = [mine EXCEPT ![t] = p], Proceeds(t)
          PROVE  LaunchedOnes' /\ Covered'
      <3>1. /\ \A u \in Thread : u # t => plan'[u] = plan[u]
            /\ Len(plan'[t]) = Len(plan[t]) - 1 /\ Len(plan[t]) > 1 /\ Len(plan[t]) \in Nat
            /\ plan[t][2] = "register"
            /\ \A i \in 1 .. Len(plan'[t]) : plan'[t][i] = plan[t][i + 1]
        <4>1. plan[t] # <<>>
          BY <2>1 DEF At
        <4> QED BY <1>1, <2>1, <2>3, <4>1, Proceeded, HeadOfPlan
      <3>2. Begins(t, "register")'
        BY <3>1 DEF Begins
      <3>3. \A u \in Thread : u # t =>
              (Certain(u) <=> Certain(u)') /\ (Begins(u, "register") <=> Begins(u, "register")')
        BY <3>1, CertainKept
      <3>4. p \in Process /\ mine' \in [Thread -> Process \cup {0}] /\ mine'[t] = p
            /\ \A u \in Thread : u # t => mine'[u] = mine[u]
        BY <2>3 DEF UnusedProcess, Tracking, LaunchedOnes
      <3>5. LaunchedOnes'
        BY <3>2, <3>3, <3>4 DEF Tracking, LaunchedOnes
      <3>6. ASSUME NEW q \in alive' \ {tracked'}
            PROVE  \E u \in Thread : mine'[u] = q \/ Certain(u)'
        <4>1. CASE q = p
          BY <3>4, <4>1
        <4>2. CASE q # p
          <5>1. q \in alive \ {tracked}
            BY <2>1, <2>3, <3>6, <4>2
          <5>2. PICK u \in Thread : mine[u] = q \/ Certain(u)
            BY <5>1 DEF Tracking, Covered
          <5>3. u # t
            BY <1>1, <2>1, <5>1, <5>2 DEF Process
          <5> QED BY <3>3, <3>4, <5>2, <5>3
        <4> QED BY <4>1, <4>2
      <3> QED BY <1>1, <2>3, <3>4, <3>5, <3>6 DEF Covered
    <2> QED BY <1>4, <2>2, <2>3 DEF Launch
  <1>5. CASE Register(t)
    <2>1. /\ At(t, "register") /\ mine' = [mine EXCEPT ![t] = 0] /\ plan[t] # <<>>
          /\ plan[t][1] = "register" /\ Len(plan[t]) > 2 /\ Len(plan[t]) \in Nat
          /\ plan[t][2] = "release" /\ plan[t][3] = "sweep"
      BY <1>1, <1>5, HeadOfPlan DEF Register
    <2>2. CASE starting /\ ~disabled
      <3>1. Proceeds(t) /\ UNCHANGED alive
        BY <1>5, <2>2 DEF Register
      <3>2. /\ \A u \in Thread : u # t => plan'[u] = plan[u]
            /\ Len(plan'[t]) = Len(plan[t]) - 1
            /\ \A i \in 1 .. Len(plan'[t]) : plan'[t][i] = plan[t][i + 1]
        BY <1>1, <2>1, <3>1, Proceeded
      <3>3. plan'[t][1] = "release" /\ plan'[t][2] = "sweep" /\ Len(plan'[t]) > 1
        BY <2>1, <3>2
      <3>4. Certain(t)'
        BY <3>3 DEF Certain, Begins
      <3> QED BY <2>1, <3>1, <3>2, <3>4, CertainCovers
    <2>3. CASE ~(starting /\ ~disabled)
      <3>1. alive' = alive \ {mine[t]} /\ Replaces(t, 3, <<"release">>) /\ tracked' = tracked
        BY <1>5, <2>3 DEF Register
      <3>2. \A u \in Thread : u # t => plan'[u] = plan[u]
        BY <1>1, <3>1, Replaced
      <3>3. \A u \in Thread : u # t =>
              (Certain(u) <=> Certain(u)') /\ (Begins(u, "register") <=> Begins(u, "register")')
        BY <3>2, CertainKept
      <3>4. mine' \in [Thread -> Process \cup {0}] /\ mine'[t] = 0
            /\ \A u \in Thread : u # t => mine'[u] = mine[u]
        BY <2>1 DEF Tracking, LaunchedOnes
      <3>5. LaunchedOnes'
        BY <3>3, <3>4 DEF Tracking, LaunchedOnes
      <3>6. ~Certain(t)
        BY <2>1 DEF Certain, Begins
      <3>7. ASSUME NEW q \in alive' \ {tracked'}
            PROVE  \E u \in Thread : mine'[u] = q \/ Certain(u)'
        <4>1. q \in alive \ {tracked} /\ q # mine[t]
          BY <3>1, <3>7
        <4>2. PICK u \in Thread : mine[u] = q \/ Certain(u)
          BY <4>1 DEF Tracking, Covered
        <4>3. u # t
          BY <3>6, <4>1, <4>2
        <4> QED BY <3>3, <3>4, <4>2, <4>3
      <3> QED BY <1>1, <3>1, <3>5, <3>7 DEF Covered
    <2> QED BY <2>2, <2>3
  <1>6. CASE Release(t)
    <2>1. /\ At(t, "release") /\ mine[t] = 0 /\ plan[t] # <<>> /\ Proceeds(t)
          /\ UNCHANGED <<alive, tracked, mine>>
      BY <1>6, Indifferent DEF Release, At
    <2>2. /\ \A u \in Thread : u # t => plan'[u] = plan[u]
          /\ Len(plan'[t]) = Len(plan[t]) - 1 /\ Len(plan[t]) \in Nat
          /\ plan[t][1] = "release"
          /\ \A i \in 1 .. Len(plan'[t]) : plan'[t][i] = plan[t][i + 1]
      BY <1>1, <2>1, Proceeded, HeadOfPlan
    <2>3. Certain(t) => Certain(t)'
      BY <2>2 DEF Certain, Begins
    <2> QED BY <2>1, <2>2, <2>3, IndifferentStep
  <1>7. CASE Sweep(t)
    <2>1. /\ At(t, "sweep") /\ mine[t] = 0 /\ plan[t] # <<>> /\ Proceeds(t)
          /\ UNCHANGED <<tracked, mine>> /\ alive' = alive \cap {tracked}
      BY <1>7, Indifferent DEF Sweep, At
    <2> QED BY <1>1, <2>1, Proceeded, CertainKept DEF Tracking, LaunchedOnes, Covered, Begins
  <1> QED BY <1>2, <1>3, <1>4, <1>5, <1>6, <1>7 DEF Starting

\* A stop, and the other steps of plans that go on to the next.
LEMMA StoppingTracks ==
  ASSUME Tracking, NEW t \in Thread,
         Pop(t) \/ Kill(t) \/ Switch(t) \/ Settings \/ Join \/ Clear \/ Closes
  PROVE  LaunchedOnes' /\ Covered'
  <1> USE DEF processVars, switchVars, rolloverVars, endVars, countVars
  <1>1. Planned /\ "control" \in Thread /\ <<>> \in Coherents
    BY PlansCoherent DEF Tracking, Thread
  <1>2. ASSUME NEW u \in Thread, At(u, "pop") \/ At(u, "clear"), Proceeds(u),
               UNCHANGED <<alive, mine>>
        PROVE  LaunchedOnes' /\ Covered'
    <2>1. /\ plan[u] # <<>> /\ Len(plan[u]) > 1 /\ plan[u][2] = "kill" /\ Len(plan[u]) \in Nat
          /\ mine[u] = 0
      <3>1. CASE At(u, "pop")
        BY <1>1, <3>1, HeadOfPlan, Indifferent
      <3>2. CASE At(u, "clear")
        BY <1>1, <3>2, HeadOfPlan, Indifferent
      <3> QED BY <1>2, <3>1, <3>2
    <2>2. /\ \A w \in Thread : w # u => plan'[w] = plan[w]
          /\ Len(plan'[u]) = Len(plan[u]) - 1
          /\ \A i \in 1 .. Len(plan'[u]) : plan'[u][i] = plan[u][i + 1]
      BY <1>1, <1>2, <2>1, Proceeded
    <2>3. Certain(u)'
      BY <2>1, <2>2 DEF Certain, Begins
    <2> QED BY <1>2, <2>1, <2>2, <2>3, CertainCovers
  <1>3. ASSUME NEW u \in Thread, NEW step, At(u, step), Proceeds(u), UNCHANGED <<alive, tracked, mine>>,
               step \in {"enable", "disable", "settings", "join", "close"}
        PROVE  LaunchedOnes' /\ Covered'
    <2>1. plan[u] # <<>> /\ mine[u] = 0 /\ ~Certain(u)
      <3>1. step # "register" /\ step \notin {"sweep", "kill", "release"}
        BY <1>3
      <3> QED BY <1>3, <3>1, Indifferent DEF At
    <2>2. \A w \in Thread : w # u => plan'[w] = plan[w]
      BY <1>1, <1>3, <2>1, Proceeded
    <2> QED BY <1>3, <2>1, <2>2, IndifferentStep
  <1>4. CASE Pop(t)
    BY <1>2, <1>4 DEF Pop
  <1>5. CASE Kill(t)
    <2>1. /\ At(t, "kill") /\ mine[t] = 0 /\ plan[t] # <<>> /\ Proceeds(t)
          /\ UNCHANGED <<tracked, mine>> /\ alive' = {}
      BY <1>5, Indifferent DEF Kill, At
    <2> QED BY <1>1, <2>1, Proceeded, CertainKept DEF Tracking, LaunchedOnes, Covered, Begins
  <1>6. CASE Switch(t)
    BY <1>3, <1>6 DEF Switch
  <1>7. CASE Settings
    BY <1>1, <1>3, <1>7 DEF Settings
  <1>8. CASE Join
    BY <1>1, <1>3, <1>8 DEF Join
  <1>9. CASE Closes
    BY <1>1, <1>3, <1>9 DEF Closes
  <1>10. CASE Clear
    <2>1. At("control", "clear") /\ UNCHANGED <<alive, mine>>
      BY <1>10 DEF Clear
    <2>2. CASE tracked = 0
      <3>1. Replaces("control", 2, <<>>) /\ tracked' = tracked
        BY <1>10, <2>2 DEF Clear
      <3>2. \A w \in Thread : w # "control" => plan'[w] = plan[w]
        BY <1>1, <3>1, Replaced
      <3>3. mine["control"] = 0 /\ ~Certain("control")
        BY <1>1, <2>1, Indifferent
      <3> QED BY <1>1, <2>1, <3>1, <3>2, <3>3, IndifferentStep
    <2>3. CASE tracked # 0
      <3>1. Proceeds("control")
        BY <1>10, <2>3 DEF Clear, Proceeds
      <3> QED BY <1>1, <1>2, <2>1, <3>1
    <2> QED BY <2>2, <2>3
  <1> QED BY <1>4, <1>5, <1>6, <1>7, <1>8, <1>9, <1>10

\* The watchdog and the commands plan, they do not start or stop anything.
LEMMA PlanningTracks ==
  ASSUME Tracking,
         \/ WatchdogWakes \/ Reconciling \/ Close \/ PowerOn \/ RecordingOn \/ Off
         \/ \E restart \in BOOLEAN : Reconfigure(restart)
  PROVE  LaunchedOnes' /\ Covered'
  <1> USE DEF processVars, switchVars, rolloverVars, endVars, countVars
  <1>1. /\ Planned /\ "control" \in Thread /\ "watchdog" \in Thread
        /\ <<>> \in Coherents /\ StartPlan \in Coherents /\ StopPlan \in Coherents
        /\ StopPlan \o StartPlan \in Coherents
        /\ StopPlan \o StartPlan \o <<"rolled">> \in Coherents
    BY PlansCoherent, JoinCoherent DEF Tracking, Thread
  <1>2. ASSUME NEW u \in Thread, plan[u] = <<>>, NEW steps,
               plan' = [plan EXCEPT ![u] = steps], UNCHANGED <<alive, tracked, mine>>
        PROVE  LaunchedOnes' /\ Covered'
    <2>1. mine[u] = 0 /\ ~Certain(u)
      BY <1>2 DEF Tracking, LaunchedOnes, Certain, Begins
    <2>2. \A w \in Thread : w # u => plan'[w] = plan[w]
      BY <1>1, <1>2 DEF Planned
    <2> QED BY <1>2, <2>1, <2>2, IndifferentStep
  <1>3. ASSUME NEW step \in {"look", "rolled", "compare", "missing"}, At("watchdog", step),
               NEW n \in Nat, NEW steps \in Coherents,
               Replaces("watchdog", n, steps), UNCHANGED <<alive, tracked, mine>>
        PROVE  LaunchedOnes' /\ Covered'
    <2>1. mine["watchdog"] = 0 /\ ~Certain("watchdog")
      <3>1. step # "register" /\ step \notin {"sweep", "kill", "release"}
        BY <1>3
      <3> QED BY <1>1, <1>3, <3>1, Indifferent
    <2>2. \A w \in Thread : w # "watchdog" => plan'[w] = plan[w]
      BY <1>1, <1>3, Replaced
    <2> QED BY <1>1, <1>3, <2>1, <2>2, IndifferentStep
  <1>4. CASE WatchdogWakes
    BY <1>1, <1>2, <1>4 DEF WatchdogWakes
  <1>5. CASE Look
    BY <1>1, <1>3, <1>5 DEF Look
  <1>6. CASE Rolled
    BY <1>1, <1>3, <1>6 DEF Rolled, Proceeds
  <1>7. CASE Compare
    BY <1>1, <1>3, <1>7 DEF Compare
  <1>8. CASE Missing
    BY <1>1, <1>3, <1>8 DEF Missing
  <1>9. CASE Close
    BY <1>1, <1>2, <1>9 DEF Close
  <1>10. ASSUME NEW steps, NEW otherwise, Commands(steps, otherwise)
         PROVE  LaunchedOnes' /\ Covered'
    BY <1>1, <1>2, <1>10 DEF Commands
  <1>11. CASE PowerOn \/ RecordingOn \/ Off \/ \E restart \in BOOLEAN : Reconfigure(restart)
    BY <1>10, <1>11, Zenon DEF PowerOn, RecordingOn, Off, Reconfigure
  <1> QED BY <1>4, <1>5, <1>6, <1>7, <1>8, <1>9, <1>11 DEF Reconciling

LEMMA TrackingNext ==
  ASSUME Tracking, [Next]_vars
  PROVE  Tracking'
  <1> USE DEF processVars, switchVars, rolloverVars, endVars, countVars
  <1>1. Planned'
    BY PlannedNext DEF Tracking
  <1>2. CASE RetryExpires \/ Status \/ \E p \in Process : ProcessExits(p) \/ RolloverRequested(p)
    <2>1. UNCHANGED <<plan, mine>>
      BY <1>2 DEF RetryExpires, Status, ProcessExits, RolloverRequested
    <2>2. alive' \subseteq alive /\ alive' \ {tracked'} \subseteq alive \ {tracked}
      BY <1>2 DEF RetryExpires, Status, ProcessExits, RolloverRequested, Recording
    <2> QED BY <1>1, <2>1, <2>2, NoPlanStep DEF Tracking
  <1>3. CASE UNCHANGED vars
    <2>1. UNCHANGED <<plan, mine, alive, tracked>>
      BY <1>3 DEF vars
    <2> QED BY <1>1, <2>1, NoPlanStep DEF Tracking
  <1>4. CASE Next
    BY <1>1, <1>2, <1>4, StartingTracks, StoppingTracks, PlanningTracks
       DEF Next, Proceed, Tracking
  <1> QED BY <1>3, <1>4

LEMMA TrackingAlways == Spec => []Tracking
  BY TrackingInit, TrackingNext, PTL DEF Spec

\* Recorder.NoneForgotten: whoever is certain to clean up has a sweep or a kill
\* in its plan.
THEOREM NobodyIsForgotten == Spec => []NoneForgotten
  <1>1. ASSUME Tracking PROVE NoneForgotten
    <2>1. ASSUME NEW t \in Thread, Certain(t)
          PROVE  \E i \in DOMAIN plan[t] : plan[t][i] \in {"sweep", "kill"}
      <3>1. plan[t] \in Seq(Step)
        BY <1>1 DEF Tracking, Planned, Coherents, Plan
      <3>2. DOMAIN plan[t] = 1 .. Len(plan[t]) /\ Len(plan[t]) \in Nat
        BY <3>1
      <3>3. CASE Begins(t, "sweep") \/ Begins(t, "kill")
        BY <3>2, <3>3 DEF Begins
      <3>4. CASE Len(plan[t]) > 1 /\ plan[t][2] = "sweep"
        BY <3>2, <3>4
      <3> QED BY <2>1, <3>3, <3>4 DEF Certain
    <2> QED BY <1>1, <2>1 DEF Tracking, Covered, NoneForgotten
  <1> QED BY <1>1, TrackingAlways, PTL

-----------------------------------------------------------------------------
(***************************************************************************)
(* Recorder: nothing is left when it was closed.                           *)
(***************************************************************************)
\* The last n steps of a close are left.
Left(n) ==
  /\ Len(plan["control"]) = n
  /\ \A i \in 1 .. n : plan["control"][i] = ClosePlan[4 - n + i]

\* Once the recorder is being closed, only the close goes on, and the watchdog
\* if it was not joined.
Closing ==
  /\ quit => plan["admission"] = <<>>
  /\ quit /\ ~closed => \E n \in 1 .. 4 : Left(n)
  /\ closed => quit /\ Left(0)
\* A joined watchdog has nothing to do any more, the clear leaves nothing
\* registered and the kill nothing running.
Quiet ==
  quit /\ ~late /\ ~Left(4) =>
    /\ plan["watchdog"] = <<>>
    /\ ~Left(3) => tracked = 0
    /\ Left(1) \/ closed => alive = {}

Ending == Closing /\ Quiet

LEMMA CloseSteps ==
  /\ ClosePlan[1] = "join" /\ ClosePlan[2] = "clear" /\ ClosePlan[3] = "kill"
  /\ ClosePlan[4] = "close" /\ Len(ClosePlan) = 4
  BY DEF ClosePlan

\* The first of the steps that are left.
LEMMA LeftBegins ==
  ASSUME Planned, NEW n \in 1 .. 4, Left(n)
  PROVE  /\ plan["control"] # <<>>
         /\ \A step : At("control", step) <=> step = ClosePlan[5 - n]
         /\ At("control", "join") <=> n = 4
         /\ At("control", "clear") <=> n = 3
         /\ At("control", "kill") <=> n = 2
         /\ At("control", "close") <=> n = 1
  <1>1. plan["control"] \in Seq(Step)
    BY DEF Planned, Coherents, Plan, Thread
  <1>2. Len(plan["control"]) > 0
    BY DEF Left
  <1>3. plan["control"] # <<>> /\ Head(plan["control"]) = plan["control"][1]
    BY <1>1, <1>2
  <1>4. plan["control"][1] = ClosePlan[5 - n]
    <2>1. 1 \in 1 .. n /\ 4 - n + 1 = 5 - n
      OBVIOUS
    <2> QED BY <2>1 DEF Left
  <1>5. \A step : At("control", step) <=> step = ClosePlan[5 - n]
    BY <1>3, <1>4 DEF At
  <1>6. n = 1 \/ n = 2 \/ n = 3 \/ n = 4
    OBVIOUS
  <1> QED BY <1>3, <1>5, <1>6, CloseSteps

\* A number of steps is left, no other.
LEMMA LeftIsOne ==
  ASSUME NEW n \in Nat, Left(n), NEW m \in Nat, Left(m)
  PROVE  n = m
  BY DEF Left

LEMMA LeftProceeds ==
  ASSUME Planned, NEW n \in 1 .. 4, Left(n), Proceeds("control")
  PROVE  Left(n - 1)'
  <1>1. "control" \in Thread /\ plan["control"] # <<>>
    BY LeftBegins DEF Thread
  <1>2. /\ Len(plan'["control"]) = n - 1
        /\ \A i \in 1 .. n - 1 : plan'["control"][i] = plan["control"][i + 1]
    BY <1>1, Proceeded DEF Left
  <1>3. ASSUME NEW i \in 1 .. n - 1
        PROVE  plan'["control"][i] = ClosePlan[4 - (n - 1) + i]
    <2>1. i + 1 \in 1 .. n /\ 4 - n + (i + 1) = 4 - (n - 1) + i
      OBVIOUS
    <2> QED BY <1>2, <2>1 DEF Left
  <1> QED BY <1>2, <1>3 DEF Left

\* A clear that finds nothing registered has nothing to kill.
LEMMA LeftSkips ==
  ASSUME Planned, Left(3), Replaces("control", 2, <<>>)
  PROVE  Left(1)'
  <1>1. "control" \in Thread /\ <<>> \in Coherents /\ plan["control"] \in Coherents
    BY PlansCoherent DEF Thread, Planned
  <1>2. PICK r : r = SubSeq(plan["control"], 2 + 1, Len(plan["control"]))
    OBVIOUS
  <1>3. r \in Coherents /\ Len(r) = 1 /\ r[1] = plan["control"][3]
    <2>1. /\ SubSeq(plan["control"], 2 + 1, Len(plan["control"])) \in Coherents
          /\ Len(SubSeq(plan["control"], 2 + 1, Len(plan["control"]))) =
               IF 2 < Len(plan["control"]) THEN Len(plan["control"]) - 2 ELSE 0
          /\ \A i \in 1 .. Len(SubSeq(plan["control"], 2 + 1, Len(plan["control"]))) :
               SubSeq(plan["control"], 2 + 1, Len(plan["control"]))[i] = plan["control"][2 + i]
      BY <1>1, RestCoherent
    <2>2. r \in Coherents /\ Len(r) = 1 /\ \A i \in 1 .. 1 : r[i] = plan["control"][2 + i]
      BY <1>2, <2>1 DEF Left
    <2> QED BY <2>2
  <1>4. plan'["control"] = r
    <2>1. plan'["control"] = <<>> \o SubSeq(plan["control"], 2 + 1, Len(plan["control"]))
      BY <1>1, Replaced
    <2>2. <<>> \o r = r
      BY <1>3 DEF Coherents, Plan
    <2> QED BY <1>2, <2>1, <2>2
  <1>5. plan["control"][3] = ClosePlan[4]
    <2>1. 3 \in 1 .. 3 /\ 4 - 3 + 3 = 4
      OBVIOUS
    <2> QED BY <2>1 DEF Left
  <1>6. \A i \in 1 .. 1 : i = 1 /\ 4 - 1 + i = 4
    OBVIOUS
  <1> QED BY <1>3, <1>4, <1>5, <1>6 DEF Left

LEMMA LeftKept ==
  ASSUME plan'["control"] = plan["control"]
  PROVE  \A n : Left(n) <=> Left(n)'
  BY DEF Left

\* Before the close there is nothing to keep.
LEMMA OpenStep ==
  ASSUME ~quit', ~closed'
  PROVE  Ending'
  BY DEF Ending, Closing, Quiet

\* While it is open the close has not begun: a command ends before the next.
LEMMA BusyIsOpen ==
  ASSUME Tracking, Ending, plan["control"] = <<>>, ~closed
  PROVE  ~quit
  <1> SUFFICES ASSUME quit PROVE FALSE
    OBVIOUS
  <1>1. PICK n \in 1 .. 4 : Left(n)
    BY DEF Ending, Closing
  <1> QED BY <1>1, LeftBegins DEF Tracking

\* A step of another thread changes neither the plan of the close nor its end.
LEMMA ThreadStep ==
  ASSUME Tracking, NEW t \in Thread, Starting(t) \/ Pop(t) \/ Kill(t) \/ Switch(t)
  PROVE  /\ plan[t] # <<>> /\ \A u \in Thread : u # t => plan'[u] = plan[u]
         /\ UNCHANGED <<quit, late, closed>>
  <1> USE DEF processVars, switchVars, rolloverVars, endVars, countVars
  <1>1. /\ Planned /\ <<>> \in Coherents /\ <<"release">> \in Coherents
        /\ Len(StartPlan) \in Nat
    BY PlansCoherent DEF Tracking, Coherents, Plan
  <1>2. plan[t] # <<>> /\ UNCHANGED <<quit, late, closed>>
    BY DEF Starting, Claim, MakeDirectory, Launch, Register, Release, Sweep, Pop, Kill, Switch, At
  <1>3. CASE Claim(t)
    BY <1>1, <1>2, <1>3, Replaced, Proceeded DEF Claim
  <1>4. CASE MakeDirectory(t)
    <2>1. CASE Proceeds(t)
      BY <1>1, <1>2, <2>1, Proceeded
    <2>2. CASE plan' = [plan EXCEPT ![t] = IF t = "control" THEN undo ELSE <<>>]
      BY <1>1, <2>2, <1>2 DEF Planned
    <2> QED BY <1>4, <2>1, <2>2 DEF MakeDirectory
  <1>5. CASE Launch(t)
    <2>1. CASE Proceeds(t)
      BY <1>1, <1>2, <2>1, Proceeded
    <2>2. CASE Replaces(t, 4, <<"release">>)
      BY <1>1, <1>2, <2>2, Replaced
    <2> QED BY <1>5, <2>1, <2>2 DEF Launch
  <1>6. CASE Register(t)
    BY <1>1, <1>2, <1>6, Replaced, Proceeded DEF Register
  <1>7. CASE Release(t) \/ Sweep(t) \/ Pop(t) \/ Kill(t) \/ Switch(t)
    <2>1. Proceeds(t)
      BY <1>7 DEF Release, Sweep, Pop, Kill, Switch
    <2> QED BY <1>1, <1>2, <2>1, Proceeded
  <1> QED BY <1>2, <1>3, <1>4, <1>5, <1>6, <1>7 DEF Starting

\* The watchdog has steps to take only before it was joined, or if it is late.
LEMMA OtherStep ==
  ASSUME Tracking, Ending, UNCHANGED <<quit, late, closed>>,
         \A u \in Thread : u # "watchdog" => plan'[u] = plan[u],
         plan["watchdog"] # <<>> \/ ~quit
  PROVE  Ending'
  <1>1. plan'["control"] = plan["control"] /\ plan'["admission"] = plan["admission"]
    BY DEF Thread
  <1>2. \A n : Left(n) <=> Left(n)'
    BY <1>1, LeftKept
  <1> QED BY <1>1, <1>2 DEF Ending, Closing, Quiet

LEMMA StepsEnd ==
  ASSUME Tracking, Ending, NEW t \in Thread,
         Starting(t) \/ Pop(t) \/ Kill(t) \/ Switch(t)
  PROVE  Ending'
  <1>1. /\ plan[t] # <<>> /\ \A u \in Thread : u # t => plan'[u] = plan[u]
        /\ UNCHANGED <<quit, late, closed>>
    BY ThreadStep
  <1>2. CASE t = "watchdog"
    BY <1>1, <1>2, OtherStep
  <1>3. CASE ~quit
    BY <1>1, <1>3, OpenStep DEF Ending, Closing
  <1>4. CASE t = "admission" /\ quit
    BY <1>1, <1>4 DEF Ending, Closing
  <1>5. CASE t = "control" /\ quit
    <2>1. Planned
      BY DEF Tracking
    <2>2. ~closed
      <3>1. closed => Len(plan["control"]) = 0 /\ plan["control"] \in Seq(Step)
        BY <2>1 DEF Ending, Closing, Left, Planned, Coherents, Plan, Thread
      <3> QED BY <1>1, <1>5, <3>1
    <2>3. PICK n \in 1 .. 4 : Left(n)
      BY <1>5, <2>2 DEF Ending, Closing
    <2>4. \A step : At("control", step) => step \in {"join", "clear", "kill", "close"}
      <3>1. n = 1 \/ n = 2 \/ n = 3 \/ n = 4
        OBVIOUS
      <3> QED BY <2>1, <2>3, <3>1, LeftBegins, CloseSteps
    <2>5. Kill("control")
      BY <1>5, <2>4 DEF Starting, Claim, MakeDirectory, Launch, Register, Release, Sweep,
                        Pop, Switch
    <2>6. n = 2 /\ Proceeds("control") /\ alive' = {} /\ tracked' = tracked
      BY <2>1, <2>3, <2>5, LeftBegins DEF Kill, processVars
    <2>7. Left(1)' /\ Left(2)
      BY <2>1, <2>3, <2>6, LeftProceeds
    <2>8. plan'["watchdog"] = plan["watchdog"] /\ plan'["admission"] = plan["admission"]
      BY <1>1, <1>5 DEF Thread
    <2>9. ~Left(3) /\ ~Left(4)
      BY <2>7, LeftIsOne
    <2> QED BY <1>1, <1>5, <2>2, <2>6, <2>7, <2>8, <2>9 DEF Ending, Closing, Quiet
  <1> QED BY <1>2, <1>3, <1>4, <1>5 DEF Thread

\* Only a close closes: no command, and nothing that undoes one, does.
Endless == Seq(Step \ {"close"})
Opened == undo \in Endless /\ (~quit => plan["control"] \in Endless)

LEMMA PlansEndless ==
  /\ <<>> \in Endless /\ StartPlan \in Endless /\ DisablePlan \in Endless
  /\ \A s \in {"enable", "release", "settings"} : <<s>> \in Endless
  /\ \A a, b \in Endless : a \o b \in Endless
  /\ \A s \in Endless, n \in Nat : SubSeq(s, n + 1, Len(s)) \in Endless
  <1>1. <<>> \in Endless /\ \A a, b \in Endless : a \o b \in Endless
    BY DEF Endless
  <1>2. \A s \in Step \ {"close"} : <<s>> \in Endless
    BY DEF Endless
  <1>3. StartPlan \in Endless
    BY DEF StartPlan, Endless, Step
  <1>4. DisablePlan \in Endless
    <2>1. StopPlan \in Endless
      BY DEF StopPlan, Endless, Step
    <2>2. <<"disable">> \in Endless
      BY <1>2 DEF Step
    <2> QED BY <1>1, <2>1, <2>2 DEF DisablePlan
  <1>5. ASSUME NEW s \in Endless, NEW n \in Nat
        PROVE  SubSeq(s, n + 1, Len(s)) \in Endless
    BY DEF Endless
  <1> QED BY <1>1, <1>2, <1>3, <1>4, <1>5 DEF Step

LEMMA OpenedStep ==
  ASSUME Tracking, Opened, UNCHANGED quit, NEW t \in Thread, NEW n \in Nat,
         NEW steps \in Endless, Replaces(t, n, steps), undo' \in Endless
  PROVE  Opened'
  <1>1. plan'["control"] =
          IF t = "control" THEN steps \o SubSeq(plan["control"], n + 1, Len(plan["control"]))
          ELSE plan["control"]
    <2>1. plan \in [Thread -> Coherents] /\ "control" \in Thread
      BY DEF Tracking, Planned, Thread
    <2> QED BY <2>1 DEF Replaces
  <1> QED BY <1>1, PlansEndless DEF Opened

LEMMA OpenedNext ==
  ASSUME Tracking, Opened, [Next]_vars
  PROVE  Opened'
  <1> USE DEF processVars, switchVars, rolloverVars, endVars, countVars
  <1>1. /\ <<>> \in Endless /\ <<"release">> \in Endless /\ undo \in Endless
        /\ "control" \in Thread /\ "watchdog" \in Thread
        /\ \A u \in Thread : UndoNothing(u) \in Endless
    BY PlansEndless DEF Opened, Thread, UndoNothing
  <1>2. ASSUME NEW u \in Thread, Proceeds(u), UNCHANGED quit, undo' \in Endless
        PROVE  Opened'
    BY <1>1, <1>2, OpenedStep DEF Proceeds
  <1>3. ASSUME NEW t \in Thread, Starting(t)
        PROVE  Opened'
    <2>1. CASE Claim(t)
      <3>1. Len(StartPlan) \in Nat
        BY PlansCoherent DEF Coherents, Plan
      <3>2. CASE Replaces(t, Len(StartPlan), <<>>) /\ undo' = UndoNothing(t)
        BY <1>1, <2>1, <3>1, <3>2, OpenedStep DEF Claim
      <3> QED BY <1>1, <1>2, <2>1, <3>2 DEF Claim
    <2>2. CASE MakeDirectory(t)
      <3>1. CASE Proceeds(t)
        BY <1>1, <1>2, <2>2, <3>1 DEF MakeDirectory
      <3>2. CASE plan' = [plan EXCEPT ![t] = IF t = "control" THEN undo ELSE <<>>]
        <4>1. plan'["control"] = IF t = "control" THEN undo ELSE plan["control"]
          BY <1>1, <3>2 DEF Tracking, Planned
        <4> QED BY <1>1, <2>2, <4>1 DEF MakeDirectory, Opened
      <3> QED BY <2>2, <3>1, <3>2 DEF MakeDirectory
    <2>3. CASE Launch(t)
      <3>1. CASE Proceeds(t)
        BY <1>1, <1>2, <2>3, <3>1 DEF Launch
      <3>2. CASE Replaces(t, 4, <<"release">>)
        BY <1>1, <2>3, <3>2, OpenedStep DEF Launch
      <3> QED BY <2>3, <3>1, <3>2 DEF Launch
    <2>4. CASE Register(t)
      <3>1. CASE Proceeds(t)
        BY <1>1, <1>2, <2>4, <3>1 DEF Register
      <3>2. CASE Replaces(t, 3, <<"release">>)
        BY <1>1, <2>4, <3>2, OpenedStep DEF Register
      <3> QED BY <2>4, <3>1, <3>2 DEF Register
    <2>5. CASE Release(t) \/ Sweep(t)
      BY <1>1, <1>2, <2>5 DEF Release, Sweep
    <2> QED BY <1>3, <2>1, <2>2, <2>3, <2>4, <2>5 DEF Starting
  <1>4. ASSUME NEW t \in Thread, Pop(t) \/ Kill(t) \/ Switch(t)
        PROVE  Opened'
    BY <1>1, <1>2, <1>4 DEF Pop, Kill, Switch
  <1>5. CASE WatchdogWakes \/ Reconciling
    <2>1. plan'["control"] = plan["control"]
      <3>1. plan \in [Thread -> Coherents] /\ "control" # "watchdog"
        BY DEF Tracking, Planned
      <3>2. ASSUME NEW n, NEW steps, Replaces("watchdog", n, steps)
            PROVE  plan'["control"] = plan["control"]
        BY <1>1, <3>1, <3>2 DEF Replaces
      <3>3. CASE WatchdogWakes
        BY <1>1, <3>1, <3>3 DEF WatchdogWakes
      <3>4. CASE Look
        BY <3>2, <3>4, Zenon DEF Look
      <3>5. CASE Rolled
        BY <3>2, <3>5, Zenon DEF Rolled, Proceeds
      <3>6. CASE Compare
        BY <3>2, <3>6, Zenon DEF Compare
      <3>7. CASE Missing
        BY <3>2, <3>7, Zenon DEF Missing
      <3> QED BY <1>5, <3>3, <3>4, <3>5, <3>6, <3>7 DEF Reconciling
    <2> QED BY <1>5, <2>1 DEF Opened, WatchdogWakes, Reconciling, Look, Rolled, Compare, Missing
  <1>6. CASE Settings \/ Join \/ Closes
    BY <1>1, <1>2, <1>6 DEF Settings, Join, Closes
  <1>7. CASE Clear
    <2>1. (IF tracked = 0 THEN 2 ELSE 1) \in Nat
      OBVIOUS
    <2> QED BY <1>1, <1>7, <2>1, OpenedStep DEF Clear
  <1>8. ASSUME NEW steps \in Endless, NEW otherwise \in Endless, Commands(steps, otherwise)
        PROVE  Opened'
    BY <1>1, <1>8 DEF Commands, Opened, Tracking, Planned
  <1>9. CASE PowerOn \/ RecordingOn \/ Off
    BY <1>1, <1>8, <1>9, PlansEndless, Zenon DEF PowerOn, RecordingOn, Off
  <1>10. ASSUME NEW restart \in BOOLEAN, Reconfigure(restart)
         PROVE  Opened'
    <2>1. SwitchPlan(~disabled) \in Endless
      BY PlansEndless DEF SwitchPlan
    <2>2. DisablePlan \o <<"settings">> \in Endless
      BY PlansEndless
    <2>3. \A tail \in {StartPlan, <<>>} :
            DisablePlan \o <<"settings">> \o SwitchPlan(~disabled) \o tail \in Endless
      BY <2>1, <2>2, PlansEndless
    <2> QED BY <1>1, <1>8, <1>10, <2>3, PlansEndless, Zenon DEF Reconfigure
  <1>11. CASE Close
    BY <1>11 DEF Close, Opened
  <1>12. CASE RetryExpires \/ Status \/ \E p \in Process : ProcessExits(p) \/ RolloverRequested(p)
    BY <1>12 DEF RetryExpires, Status, ProcessExits, RolloverRequested, Opened
  <1>13. CASE UNCHANGED vars
    BY <1>13 DEF vars, Opened
  <1> QED BY <1>3, <1>4, <1>5, <1>6, <1>7, <1>9, <1>10, <1>11, <1>12, <1>13
          DEF Next, Proceed

LEMMA CloseEnds ==
  ASSUME Tracking, Opened, Ending, Settings \/ Join \/ Clear \/ Closes
  PROVE  Ending'
  <1> USE DEF processVars, switchVars, rolloverVars, endVars, countVars
  <1>1. /\ Planned /\ "control" \in Thread /\ <<>> \in Coherents /\ plan["control"] # <<>>
        /\ plan["control"] \in Seq(Step)
    BY PlansCoherent
       DEF Tracking, Planned, Coherents, Plan, Thread, Settings, Join, Clear, Closes, At
  <1>2. \A u \in Thread : u # "control" => plan'[u] = plan[u]
    <2>1. CASE Clear
      <3>1. (IF tracked = 0 THEN 2 ELSE 1) \in Nat
        OBVIOUS
      <3> QED BY <1>1, <2>1, <3>1, Replaced DEF Clear
    <2>2. CASE Settings \/ Join \/ Closes
      BY <1>1, <2>2, Proceeded DEF Settings, Join, Closes
    <2> QED BY <2>1, <2>2
  <1>3. plan'["watchdog"] = plan["watchdog"] /\ plan'["admission"] = plan["admission"]
    BY <1>2 DEF Thread
  <1>4. ~closed /\ UNCHANGED quit
    <2>1. closed => Len(plan["control"]) = 0
      BY DEF Ending, Closing, Left
    <2> QED BY <1>1, <2>1 DEF Settings, Join, Clear, Closes
  <1>5. CASE ~quit
    <2>1. ~Closes
      <3>1. SUFFICES ASSUME Closes PROVE FALSE
        OBVIOUS
      <3>2. plan["control"] \in Seq(Step \ {"close"}) /\ Head(plan["control"]) = "close"
        BY <1>5, <3>1 DEF Opened, Endless, Closes, At
      <3> QED BY <1>1, <3>2
    <2>2. ~closed'
      BY <1>4, <2>1 DEF Settings, Join, Clear, Closes
    <2> QED BY <1>4, <1>5, <2>2, OpenStep
  <1>6. CASE quit
    <2>1. PICK n \in 1 .. 4 : Left(n)
      BY <1>4, <1>6 DEF Ending, Closing
    <2>2. /\ At("control", "join") <=> n = 4
          /\ At("control", "clear") <=> n = 3
          /\ At("control", "close") <=> n = 1
          /\ At("control", "settings") => FALSE
      <3>1. n = 1 \/ n = 2 \/ n = 3 \/ n = 4
        OBVIOUS
      <3> QED BY <1>1, <2>1, <3>1, LeftBegins, CloseSteps
    <2>3. \A m \in 0 .. 4 : Left(m) => m = n
      BY <2>1, LeftIsOne
    <2>4. \A k \in 0 .. 4 : Left(k)' => \A m \in 0 .. 4 : Left(m)' => m = k
      BY DEF Left
    <2>5. CASE Join
      <3>1. n = 4 /\ Left(3)'
        BY <1>1, <2>1, <2>2, <2>5, LeftProceeds DEF Join
      <3>2. ~late' => plan'["watchdog"] = <<>>
        BY <1>3, <2>5 DEF Join
      <3>3. ~closed'
        BY <1>4, <2>5 DEF Join
      <3> QED BY <1>3, <1>4, <1>6, <2>4, <3>1, <3>2, <3>3 DEF Ending, Closing, Quiet
    <2>6. CASE Clear
      <3>1. n = 3 /\ UNCHANGED <<late, closed, alive>> /\ tracked' = 0
        BY <2>2, <2>6 DEF Clear
      <3>2. ~late => plan["watchdog"] = <<>>
        BY <1>6, <2>3, <3>1 DEF Ending, Quiet
      <3>3. CASE tracked # 0
        <4>1. Left(2)'
          BY <1>1, <2>1, <2>6, <3>1, <3>3, LeftProceeds DEF Clear, Proceeds
        <4> QED BY <1>3, <1>4, <1>6, <2>4, <3>1, <3>2, <4>1 DEF Ending, Closing, Quiet
      <3>4. CASE tracked = 0
        <4>1. Left(1)'
          BY <1>1, <2>1, <2>6, <3>1, <3>4, LeftSkips DEF Clear
        \* Nobody holds a process and nobody is about to clean up: none runs.
        <4>2. ~late => alive = {}
          <5>1. SUFFICES ASSUME ~late, NEW p \in alive PROVE FALSE
            OBVIOUS
          <5>2. p \in Process /\ p # 0
            BY <5>1 DEF Tracking, Covered, Process
          <5>3. plan["watchdog"] = <<>> /\ plan["admission"] = <<>>
            BY <1>6, <3>2, <5>1 DEF Ending, Closing
          <5>4. \A u \in {"watchdog", "admission"} : mine[u] = 0 /\ ~Certain(u)
            <6>1. \A u \in {"watchdog", "admission"} : Len(plan[u]) = 0
              BY <5>3
            <6> QED BY <6>1 DEF Tracking, LaunchedOnes, Certain, Begins, Thread
          <5>5. mine["control"] = 0 /\ ~Certain("control")
            BY <1>1, <2>6, Indifferent DEF Clear
          <5>6. PICK u \in Thread : mine[u] = p \/ Certain(u)
            BY <3>4, <5>1, <5>2 DEF Tracking, Covered
          <5> QED BY <5>2, <5>4, <5>5, <5>6 DEF Thread
        <4> QED BY <1>3, <1>4, <1>6, <2>4, <3>1, <3>2, <4>1, <4>2 DEF Ending, Closing, Quiet
      <3> QED BY <3>3, <3>4
    <2>7. CASE Closes
      <3>1. n = 1 /\ closed' /\ UNCHANGED <<late, alive, tracked>>
        BY <2>2, <2>7 DEF Closes
      <3>2. Left(0)'
        BY <1>1, <2>1, <2>7, <3>1, LeftProceeds DEF Closes
      <3>3. ~late => plan["watchdog"] = <<>> /\ tracked = 0 /\ alive = {}
        BY <1>6, <2>1, <2>3, <3>1 DEF Ending, Quiet
      <3> QED BY <1>3, <1>4, <1>6, <2>4, <3>1, <3>2, <3>3 DEF Ending, Closing, Quiet
    <2> QED BY <2>2, <2>5, <2>6, <2>7 DEF Settings
  <1> QED BY <1>5, <1>6

LEMMA EndingNext ==
  ASSUME Tracking, Opened, Ending, [Next]_vars
  PROVE  Ending'
  <1> USE DEF processVars, switchVars, rolloverVars, endVars, countVars
  <1>1. "control" \in Thread /\ "watchdog" \in Thread /\ Planned /\ <<>> \in Coherents
    BY PlansCoherent DEF Tracking, Thread
  <1>2. ASSUME NEW t \in Thread, Starting(t) \/ Pop(t) \/ Kill(t) \/ Switch(t)
        PROVE  Ending'
    BY <1>2, StepsEnd
  <1>3. CASE WatchdogWakes \/ Reconciling
    <2>1. UNCHANGED <<quit, late, closed>> /\ (plan["watchdog"] # <<>> \/ ~quit)
      BY <1>3 DEF WatchdogWakes, Reconciling, Look, Rolled, Compare, Missing, At
    <2>2. \A u \in Thread : u # "watchdog" => plan'[u] = plan[u]
      <3>1. ASSUME NEW n, NEW steps, Replaces("watchdog", n, steps)
            PROVE  \A u \in Thread : u # "watchdog" => plan'[u] = plan[u]
        BY <1>1, <3>1 DEF Replaces, Planned
      <3>2. CASE WatchdogWakes
        BY <1>1, <3>2 DEF WatchdogWakes, Planned
      <3>3. CASE Look
        BY <3>1, <3>3, Zenon DEF Look
      <3>4. CASE Rolled
        BY <3>1, <3>4, Zenon DEF Rolled, Proceeds
      <3>5. CASE Compare
        BY <3>1, <3>5, Zenon DEF Compare
      <3>6. CASE Missing
        BY <3>1, <3>6, Zenon DEF Missing
      <3> QED BY <1>3, <3>2, <3>3, <3>4, <3>5, <3>6 DEF Reconciling
    <2> QED BY <2>1, <2>2, OtherStep
  <1>4. CASE Settings \/ Join \/ Clear \/ Closes
    BY <1>4, CloseEnds
  <1>5. ASSUME NEW steps, NEW otherwise, Commands(steps, otherwise)
        PROVE  Ending'
    <2>1. ~quit /\ ~closed
      BY <1>5, BusyIsOpen DEF Commands
    <2> QED BY <1>5, <2>1, OpenStep DEF Commands
  <1>6. CASE PowerOn \/ RecordingOn \/ Off \/ \E restart \in BOOLEAN : Reconfigure(restart)
    BY <1>5, <1>6, Zenon DEF PowerOn, RecordingOn, Off, Reconfigure
  <1>7. CASE Close
    <2>1. /\ plan'["control"] = ClosePlan /\ plan'["admission"] = <<>>
          /\ quit' /\ ~closed'
      BY <1>1, <1>7 DEF Close, Planned, Thread
    <2>2. \A i \in 1 .. 4 : 4 - 4 + i = i
      OBVIOUS
    <2>3. Left(4)'
      BY <2>1, <2>2, CloseSteps DEF Left
    <2> QED BY <2>1, <2>3 DEF Ending, Closing, Quiet
  <1>8. CASE RetryExpires \/ Status \/ \E p \in Process : ProcessExits(p) \/ RolloverRequested(p)
    <2>1. /\ UNCHANGED <<plan, quit, late, closed>> /\ alive' \subseteq alive
          /\ tracked' \in {tracked, 0}
      BY <1>8 DEF RetryExpires, Status, ProcessExits, RolloverRequested
    <2> QED BY <2>1 DEF Ending, Closing, Quiet, Left
  <1>9. CASE UNCHANGED vars
    BY <1>9 DEF vars, Ending, Closing, Quiet, Left
  <1> QED BY <1>2, <1>3, <1>4, <1>6, <1>7, <1>8, <1>9 DEF Next, Proceed

\* Recorder.ClosedIsQuiet: with the watchdog joined, nobody is left to start one.
THEOREM NothingIsLeftRunning == Spec => []ClosedIsQuiet
  <1>1. Init => Opened /\ Ending
    BY PlansEndless DEF Init, Opened, Ending, Closing, Quiet, Thread
  <1>2. Opened /\ Ending /\ Tracking /\ [Next]_vars => (Opened /\ Ending)'
    BY OpenedNext, EndingNext
  <1>3. Ending => ClosedIsQuiet
    <2>1. Left(0) => ~Left(1) /\ ~Left(3) /\ ~Left(4)
      BY LeftIsOne
    <2> QED BY <2>1 DEF Ending, Closing, Quiet, ClosedIsQuiet
  <1> QED BY <1>1, <1>2, <1>3, TrackingAlways, PTL DEF Spec

-----------------------------------------------------------------------------
(***************************************************************************)
(* RecordingRetention: no file is deleted while it is leased, and no row   *)
(* is dropped while its file is found.                                     *)
(***************************************************************************)
Recorded == {s \in Segment : age[s] # Later}

\* The records have their fields, and only what was recorded is listed.
Shape ==
  /\ DOMAIN age = Segment
  /\ DOMAIN ret = DOMAIN NoCycle /\ DOMAIN index = DOMAIN NoIndexing
Listed ==
  /\ row \cup file \cup index.found \subseteq Recorded
  /\ ret.todo \cup ret.removed \subseteq Recorded

\* A file is leased or under deletion, never both; and the worker unlinks only
\* what it has marked so.
Apart == lease \cap deleting = {}
Marked == ret.at = "unlink" => ret.todo # {} /\ Oldest \in deleting

\* What the worker is yet to delete the rows of is gone for good, or was not found
\* while the filesystem was away.
Gone == ret.at # "end" => ret.removed \cap file \subseteq ret.missed

\* A repair that began while the filesystem was away holds nothing for missing
\* that is in its configured location.
Unknown == index.away /\ index.at \in {"store", "delete"} => index.stale \subseteq outside

Retained == Shape /\ Listed /\ Apart /\ Marked /\ Gone /\ Unknown

LEMMA OldestIsOne ==
  ASSUME NEW S \in SUBSET Nat, S # {}
  PROVE  Min(S) \in S
  <1>1. \E x \in S : \A y \in S : ~(<<y, x>> \in OpToRel(<, Nat))
    BY NatLessThanWellFounded, WFMin
  <1>2. \A x, y \in Nat : y < x => <<y, x>> \in OpToRel(<, Nat)
    BY DEF OpToRel
  <1>3. PICK x \in S : \A y \in S : ~(<<y, x>> \in OpToRel(<, Nat))
    BY <1>1
  <1>4. \A y \in S : ~(y < x)
    BY <1>2, <1>3
  <1>5. \A y \in S : x =< y
    BY <1>4
  <1> QED BY <1>5 DEF Min

LEMMA OldestRecorded ==
  ASSUME Listed, ret.todo # {}
  PROVE  Oldest \in ret.todo /\ Oldest \in Recorded
  <1>1. ret.todo \subseteq Recorded /\ Recorded \subseteq Nat
    BY DEF Listed, Recorded, Segment
  <1> QED BY <1>1, OldestIsOne DEF Oldest

LEMMA Fields ==
  /\ DOMAIN NoCycle = {"at", "apply", "full", "todo", "removed", "missed"}
  /\ DOMAIN NoIndexing = {"at", "found", "stale", "away"}
  BY DEF NoCycle, NoIndexing

LEMMA RetainedInit == RetentionInit => Retained
  <1> SUFFICES ASSUME RetentionInit PROVE Retained
    OBVIOUS
  <1>1. outside \subseteq Segment
    BY RetentionAssumption DEF RetentionInit
  <1>2. row \cup file \subseteq Recorded
    BY <1>1, SMT DEF RetentionInit, Recorded, Old, Later
  <1> QED BY <1>2, Fields DEF RetentionInit, Retained, Shape, Listed, Apart, Marked, Gone,
                              Unknown, NoCycle, NoIndexing

\* The filesystem goes or comes back.
LEMMA PlaceKeeps ==
  ASSUME Retained, Leaves \/ Returns
  PROVE  Retained'
  BY DEF Leaves, Returns, Retained, Shape, Listed, Apart, Marked, Gone, Unknown, Recorded,
         Oldest, claimVars, retentionVars

\* Time passes, segments are recorded.
LEMMA TimeKeeps ==
  ASSUME Retained, NEW s \in Segment, Record(s) \/ Grows(s)
  PROVE  Retained'
  <1> USE DEF Retained, mediaVars, placeVars, claimVars, retentionVars, askVars
  <1>1. /\ ret' = ret /\ lease' = lease /\ deleting' = deleting /\ index' = index
        /\ row' = row /\ outside' = outside
    BY DEF Record, Grows
  <1>2. DOMAIN age' = Segment /\ Recorded \subseteq Recorded'
    BY SMT DEF Record, Grows, Shape, Recorded, Later, Recent, Near
  <1>3. file' \subseteq file \cup {s} /\ (s \in file' \ file => s \in Recorded' \ Recorded)
    BY DEF Record, Grows, Shape, Recorded, Later, Recent
  <1>4. Shape' /\ Apart' /\ Marked'
    BY <1>1, <1>2 DEF Shape, Apart, Marked, Oldest
  <1>5. Listed' /\ Gone' /\ Unknown'
    BY <1>1, <1>2, <1>3 DEF Listed, Gone, Unknown
  <1> QED BY <1>4, <1>5

\* The steps of playback, incidents, indexing and waiting.
LEMMA ReadersKeep ==
  ASSUME Retained, \/ Discard \/ Lease \/ RequestRun
                   \/ \E s \in Segment :
                        LeaseExpires(s) \/ BackoffEnds(s) \/ Refer(s)
  PROVE  Retained'
  <1>1. /\ ret' = ret /\ deleting' = deleting /\ index' = index
        /\ age' = age /\ file' = file /\ outside' = outside
    BY DEF Discard, Lease, RequestRun, LeaseExpires, BackoffEnds,
           Refer, mediaVars, placeVars, claimVars, retentionVars, askVars
  <1>2. row' \subseteq row /\ lease' \cap deleting = {}
    BY DEF Retained, Apart, Discard, Lease, Leased, RequestRun,
           LeaseExpires, BackoffEnds, Refer, mediaVars, claimVars,
           retentionVars, askVars, Seen
  <1> QED BY <1>1, <1>2 DEF Retained, Shape, Listed, Apart, Marked, Gone, Unknown, Recorded,
                            Oldest

LEMMA IndexingKeeps ==
  ASSUME Retained, Indexes
  PROVE  Retained'
  <1>1. /\ ret' = ret /\ deleting' = deleting /\ lease' = lease
        /\ age' = age /\ file' = file /\ outside' = outside
    BY DEF Indexes, Discover, Search, Store, RepairReadsFirst,
           RepairWalks, RepairWalksFirst, RepairReads, RepairDeletes,
           OfIndex, placeVars, claimVars, retentionVars
  <1>2. row' \subseteq row \cup index.found
    BY DEF Indexes, Discover, Search, Store, RepairReadsFirst,
           RepairWalks, RepairWalksFirst, RepairReads, RepairDeletes,
           OfIndex, Seen
  <1>3. /\ DOMAIN index' = DOMAIN NoIndexing
        /\ index'.found \subseteq file \cup index.found
        /\ index'.away /\ index'.at \in {"store", "delete"} => index'.stale \subseteq outside
    <2> USE DEF Retained, Shape, Unknown
    <2>1. NearFiles \subseteq file /\ Walked \subseteq file
      BY DEF NearFiles, Walked, Seen
    <2>2. \A stale : MissingFiles(stale, TRUE) \subseteq outside
      BY DEF MissingFiles
    <2>3. CASE Discover
      BY <2>1, <2>3, Fields DEF Discover, NoIndexing
    <2>4. CASE Search
      BY <2>1, <2>4, Fields DEF Search, NoIndexing
    <2>5. CASE RepairReadsFirst
      BY <2>5, Fields DEF RepairReadsFirst, NoIndexing
    <2>6. CASE RepairWalksFirst
      BY <2>1, <2>6, Fields DEF RepairWalksFirst, NoIndexing
    <2>7. CASE Store
      BY <2>7, Fields DEF Store, NoIndexing
    <2>8. CASE RepairReads
      <3>1. index' = [index EXCEPT !.at = "store",
                                   !.stale = MissingFiles(row, index.away) \ index.found]
        BY <2>8 DEF RepairReads
      <3>2. /\ DOMAIN index' = DOMAIN NoIndexing /\ index'.found = index.found
            /\ index'.away = index.away
            /\ index'.stale \subseteq MissingFiles(row, index.away)
        BY <3>1, Fields
      <3> QED BY <2>2, <3>2 DEF MissingFiles
    <2>9. CASE RepairWalks
      <3>1. index' = [index EXCEPT !.at = "store", !.found = Walked,
                                   !.stale = MissingFiles(@, index.away) \ Walked]
        BY <2>9 DEF RepairWalks
      <3>2. /\ DOMAIN index' = DOMAIN NoIndexing /\ index'.found = Walked
            /\ index'.away = index.away
            /\ index'.stale \subseteq MissingFiles(index.stale, index.away)
        BY <3>1, Fields
      <3> QED BY <2>1, <2>2, <3>2 DEF MissingFiles
    <2>10. CASE RepairDeletes
      BY <2>10, Fields DEF RepairDeletes, NoIndexing
    <2> QED BY <2>3, <2>4, <2>5, <2>6, <2>7, <2>8, <2>9, <2>10 DEF Indexes
  <1> QED BY <1>1, <1>2, <1>3 DEF Retained, Shape, Listed, Apart, Marked, Gone, Unknown,
                                  Recorded, Oldest

\* The steps of a cycle.
LEMMA CycleKeeps ==
  ASSUME Retained, Cycle
  PROVE  Retained'
  <1> USE Fields DEF Retained, OfRetention, placeVars
  <1>1. CASE Wake \/ EndCycle \/ CycleFails
    <2>1. /\ ret'.at # "unlink" /\ DOMAIN ret' = DOMAIN NoCycle
          /\ ret'.todo = {} /\ ret'.removed = {}
      <3>1. CASE Wake
        BY <1>1, <3>1 DEF Wake, NoCycle
      <3>2. CASE EndCycle \/ CycleFails
        BY <3>2 DEF EndCycle, CycleFails, NoCycle
      <3> QED BY <1>1, <3>1, <3>2
    <2>2. UNCHANGED <<age, outside, index, row, file, lease, deleting>>
      BY <1>1 DEF Wake, EndCycle, CycleFails
    <2> QED BY <2>1, <2>2 DEF Shape, Listed, Apart, Marked, Gone, Unknown, Recorded
  <1>2. CASE Pick
    <2>1. PICK S \in Candidates :
            \E full : ret' = [ret EXCEPT !.at = "each", !.todo = S, !.full = full]
      BY <1>2, Zenon DEF Pick
    <2>2. S \subseteq row
      <3>1. Batch \subseteq row /\ Spare \subseteq row
        BY DEF Batch, Spare, Expired, Offered, OldestOf
      <3>2. PICK n : S = Batch \cup OldestOf(Spare \ Batch, n)
        BY DEF Candidates
      <3> QED BY <3>1, <3>2 DEF OldestOf
    <2>3. UNCHANGED <<age, outside, index, row, file, lease, deleting>> /\ ret.at = "pick"
      BY <1>2 DEF Pick, CycleAt
    <2> QED BY <2>1, <2>2, <2>3 DEF Shape, Listed, Apart, Marked, Gone, Unknown, Recorded
  <1>3. CASE ClaimFile \/ Reject
    <2>1. /\ UNCHANGED <<age, outside, index, row, file, lease>>
          /\ ret.todo # {} /\ ret.at = "each"
      BY <1>3 DEF ClaimFile, Reject, CycleAt
    <2>2. CASE Reject \/ Oldest \in lease \cup deleting
      <3>1. ret' = Handled /\ deleting' = deleting
        BY <1>3, <2>2 DEF ClaimFile, Reject
      <3> QED BY <2>1, <3>1 DEF Handled, Shape, Listed, Apart, Marked, Gone, Unknown, Recorded
    <2>3. CASE ~Reject /\ Oldest \notin lease \cup deleting
      <3>1. ret' = [ret EXCEPT !.at = "unlink"] /\ deleting' = deleting \cup {Oldest}
        BY <1>3, <2>3 DEF ClaimFile
      <3>2. Oldest' = Oldest /\ ret'.todo = ret.todo
        BY <3>1 DEF Oldest, Shape
      <3> QED BY <2>1, <2>3, <3>1, <3>2 DEF Shape, Listed, Apart, Marked, Gone, Unknown, Recorded
    <2> QED BY <2>2, <2>3
  <1>4. CASE Unlink
    <2>1. /\ UNCHANGED <<age, outside, index, row, lease>> /\ deleting' \subseteq deleting
          /\ file' \subseteq file /\ file \ file' \subseteq {Oldest} /\ ret.at = "unlink"
      BY <1>4 DEF Unlink, CycleAt
    <2>2. Oldest \in Recorded
      BY <1>4, OldestRecorded DEF Unlink, CycleAt, Marked
    <2>3. /\ DOMAIN ret' = DOMAIN ret /\ ret'.at = "each" /\ ret'.todo \subseteq ret.todo
          /\ ret'.removed \subseteq ret.removed \cup {Oldest}
          /\ Oldest \in Seen \cap file' => ret'.removed = ret.removed
          /\ ret'.missed = ret.missed \cup ({Oldest} \cap (file \ Seen))
      BY <1>4 DEF Unlink, Removed, Handled, Shape
    <2> QED BY <2>1, <2>2, <2>3 DEF Shape, Listed, Apart, Marked, Gone, Unknown, Recorded
  <1>5. CASE Batched \/ DeleteRows
    <2>1. UNCHANGED <<age, outside, index, file, lease, deleting>> /\ row' \subseteq row
      BY <1>5 DEF Batched, DeleteRows
    <2>2. /\ DOMAIN ret' = DOMAIN ret /\ ret'.at # "unlink"
          /\ ret'.todo = ret.todo /\ ret'.removed = ret.removed
          /\ ret.at # "end"
          /\ ret'.at = "end" \/ ret'.missed = ret.missed
      BY <1>5 DEF Batched, DeleteRows, Shape, CycleAt
    <2> QED BY <2>1, <2>2 DEF Shape, Listed, Apart, Marked, Gone, Unknown, Recorded
  <1> QED BY <1>1, <1>2, <1>3, <1>4, <1>5 DEF Cycle

LEMMA LifeKeeps ==
  ASSUME Retained, Life
  PROVE  Retained'
  <1> USE Fields DEF Retained, mediaVars, placeVars, claimVars, retentionVars,
                     askVars
  <1>1. CASE Stop \/ Start
    BY <1>1 DEF Stop, Start, Shape, Listed, Apart, Marked, Gone, Unknown, Recorded,
                Oldest
  <1>2. CASE Exit \/ Crash
    <2>1. /\ UNCHANGED <<age, outside, file, row>> /\ lease' = {}
          /\ ret' = NoCycle /\ index' = NoIndexing
      BY <1>2 DEF Exit, Crash, Ends
    <2> QED BY <2>1 DEF Shape, Listed, Apart, Marked, Gone, Unknown, Recorded, NoCycle,
                        NoIndexing
  <1> QED BY <1>1, <1>2 DEF Life

LEMMA RetainedNext == Retained /\ [RetentionNext]_retentionSystem => Retained'
  <1> SUFFICES ASSUME Retained, [RetentionNext]_retentionSystem PROVE Retained'
    OBVIOUS
  <1>1. CASE UNCHANGED retentionSystem
    BY <1>1 DEF Retained, Shape, Listed, Apart, Marked, Gone, Unknown, Recorded, Oldest,
                retentionSystem, mediaVars, placeVars, claimVars, retentionVars, askVars
  <1>2. CASE RetentionNext
    BY <1>2, PlaceKeeps, TimeKeeps, ReadersKeep, IndexingKeeps, CycleKeeps, LifeKeeps DEF RetentionNext,
       Reads
  <1> QED BY <1>1, <1>2

LEMMA RetainedAlways == RetentionSpec => []Retained
  BY RetainedInit, RetainedNext, PTL DEF RetentionSpec

\* Every file that goes was marked by the retention worker, and a marked file
\* is not leased.
THEOREM LeasesHold == RetentionSpec => LeasedIsKept
  <1>1. Retained /\ [RetentionNext]_retentionSystem =>
          [\A s \in file \ file' : s \notin lease]_retentionSystem
    <2> SUFFICES ASSUME Retained, RetentionNext, NEW s \in file \ file' PROVE s \notin lease
      BY DEF retentionSystem, mediaVars
    <2>1. Unlink
      BY DEF RetentionNext, Reads, Indexes, Cycle, Life, Record,
             Grows, LeaseExpires, BackoffEnds, Leaves, Returns, Refer, Discard,
             Lease, Discover, Search, Store, RepairReadsFirst,
             RepairWalks, RepairWalksFirst, RepairReads, RepairDeletes,
             RequestRun, Wake, Pick, Reject, ClaimFile, Batched,
             DeleteRows, EndCycle, CycleFails, Stop, Exit,
             Crash, Ends, Start, OfIndex, OfRetention,
             mediaVars
    <2>2. s = Oldest /\ Oldest \in deleting
      BY <2>1 DEF Unlink, CycleAt, Retained, Marked
    <2> QED BY <2>2 DEF Retained, Apart
  <1> QED BY <1>1, RetainedAlways, PTL DEF LeasedIsKept, RetentionSpec

\* The steps that drop rows.
LEMMA RowsDropped ==
  ASSUME RetentionNext, row \ row' # {}
  PROVE  Discard \/ Search \/ RepairDeletes \/ DeleteRows
  BY DEF RetentionNext, Reads, Indexes, Cycle, Life, Record,
         Grows, LeaseExpires, BackoffEnds, Leaves, Returns, Refer, Lease,
         Discover, Store, RepairReadsFirst, RepairWalks,
         RepairWalksFirst, RepairReads, RequestRun, Wake, Pick, Reject,
         ClaimFile, Unlink, Batched, EndCycle, CycleFails,
         Stop, Exit, Crash, Ends, Start, OfIndex,
         OfRetention, mediaVars

\* A row goes when its file is not found, which is so of a file that is there
\* only while the filesystem is away, or after the retention worker has removed
\* or missed the file.
THEOREM FilesGoFirst == RetentionSpec => RowOutlivesFile
  <1>1. Retained /\ [RetentionNext]_retentionSystem =>
          [\A s \in row \ row' :
              s \notin file \/ ~mounted \/ s \in ret.missed]_retentionSystem
    <2> SUFFICES ASSUME Retained, RetentionNext, NEW s \in row \ row'
                 PROVE  s \notin file \/ ~mounted \/ s \in ret.missed
      BY DEF retentionSystem, mediaVars
    <2>1. Discard \/ Search \/ RepairDeletes \/ DeleteRows
      BY RowsDropped
    <2>2. CASE Discard \/ Search \/ RepairDeletes
      BY <2>2 DEF Discard, Search, RepairDeletes, Seen
    <2>3. CASE DeleteRows
      BY <2>3 DEF DeleteRows, CycleAt, Retained, Gone
    <2> QED BY <2>1, <2>2, <2>3
  <1> QED BY <1>1, RetainedAlways, PTL DEF RowOutlivesFile, RetentionSpec

\* A repair remembers that the filesystem was away when it began, and holds
\* nothing of the configured locations for missing from then on.
THEOREM UnknownIsKept == RetentionSpec => RepairKeepsUnknown
  <1>1. Retained /\ [RetentionNext]_retentionSystem =>
          [index.at = "delete" /\ index.away /\ index' # index =>
             \A s \in row \ row' : s \notin file \/ s \in outside]_retentionSystem
    <2> SUFFICES ASSUME Retained, RetentionNext, index.at = "delete", index.away,
                        index' # index, NEW s \in row \ row'
                 PROVE  s \in outside
      BY DEF retentionSystem, mediaVars
    <2>1. Discard \/ Search \/ RepairDeletes \/ DeleteRows
      BY RowsDropped
    <2>2. RepairDeletes
      BY <2>1 DEF Discard, Search, DeleteRows, OfRetention
    <2> QED BY <2>2 DEF RepairDeletes, Retained, Unknown
  <1> QED BY <1>1, RetainedAlways, PTL DEF RepairKeepsUnknown, RetentionSpec

=============================================================================
