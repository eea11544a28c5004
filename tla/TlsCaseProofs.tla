--------------------------- MODULE TlsCaseProofs ----------------------------
(***************************************************************************)
(* The safety of the case calls, proved for every set of cases, every      *)
(* assignment of commands and every configuration.                         *)
(*                                                                         *)
(* The inductive invariant is per case: what its place says of the tools   *)
(* it has run (Progress), and what it says of the controller (Possession); *)
(* beside it, the number of workers at work (Crowd) and, for one worker,   *)
(* the cause of a "busy" (Turned).                                         *)
(***************************************************************************)
EXTENDS TlsCase, TLAPS, FiniteSetTheorems

Early == {"idle", "open", "plan"}
Connecting == {"keyctl", "discover", "connect"}
Holding == {"launch", "workload", "disconnect"}

\* A gate forbids the case to touch the host.
Gated(c) == config.dry_run \/ (IsWriteCase(c) /\ ~config.allow_write)

Progress(c) ==
    /\ pc[c] \in Early => \A t \in Tools : rc[c][t] = "none"
    /\ pc[c] \in Early \cup Connecting =>
          ~connected[c] /\ rc[c]["connect"] = "none" /\ rc[c]["workload"] = "none"
    /\ pc[c] \in Early \cup Connecting \cup Holding => rc[c]["disconnect"] = "none"
    /\ pc[c] \in Connecting => PerCase
    /\ pc[c] \in {"discover", "connect"} /\ config.import_key => rc[c]["keyctl"] = "ok"
    /\ connected[c] => PerCase /\ rc[c]["connect"] = "ok"
    /\ PerCase /\ (pc[c] \in Holding \cup {"logs"} \/ rc[c]["workload"] # "none") =>
          connected[c] /\ (config.import_key => rc[c]["keyctl"] = "ok")
    /\ Gated(c) => /\ pc[c] \notin Connecting \cup Holding \cup {"logs"}
                   /\ \A t \in Tools : rc[c][t] = "none"

Failed(c) == "failed" \in {rc[c]["connect"], rc[c]["disconnect"]}

Possession(c) ==
    /\ connected[c] /\ pc[c] \in Holding => owner = c
    /\ owner = c => PerCase /\ pc[c] \notin Early \cup Connecting
    /\ owner = c /\ pc[c] \notin Holding /\ config.disconnect_after_case => Failed(c)

Crowd == Cardinality(Active) <= config.workers
Turned == config.workers = 1 => BusyHasCause

Inv == TypeOK /\ (\A c \in Calls : Progress(c) /\ Possession(c)) /\ Crowd /\ Turned
-----------------------------------------------------------------------------
(* What every step has in common *)

\* The types hold: no step of a case leaves the vocabulary of its variables.
LEMMA TypeStep == ASSUME TypeOK, NEW c \in Calls, Step(c) PROVE TypeOK'
<1> USE DEF TypeOK, Phases, Over, Tools, Verdicts, DirStates
<1>1. CASE Begin(c)
  BY <1>1 DEF Begin, Goto
<1>2. CASE Open(c)
  BY <1>2 DEF Open, Goto
<1>3. CASE Gate(c)
  <2>1. /\ \/ dirs' = dirs /\ verdict' = verdict
           \/ dirs' = [dirs EXCEPT ![c] = "summary"]
              /\ \E v \in {"FAIL_INFRA", "PASS_VALID"} : verdict' = [verdict EXCEPT ![c] = v]
        /\ \E phase \in {"return", "keyctl", "launch"} : pc' = [pc EXCEPT ![c] = phase]
        /\ UNCHANGED <<config, rc, connected, outcome, owner>>
    BY <1>3 DEF Gate, Goto, Summarise
  <2>2. dirs' \in [Calls -> DirStates] /\ pc' \in [Calls -> Phases]
    BY <2>1
  <2>3. verdict' \in [Calls -> Verdicts \cup {"none"}]
    BY <2>1
  <2>4. QED
    BY <2>1, <2>2, <2>3
<1>4. CASE KeyReady(c)
  <2>1. rc' \in {rc, [rc EXCEPT ![c]["keyctl"] = "ok"]}
    BY <1>4 DEF KeyReady, Ran
  <2>2. rc' \in [Calls -> [Tools -> {"none", "ok", "failed", "busy"}]]
    BY <2>1
  <2>3. QED
    BY <1>4, <2>2 DEF KeyReady, Goto
<1>5. CASE KeyFails(c)
  BY <1>5 DEF KeyFails, Goto, Ran, Summarise
<1>6. CASE Discover(c)
  BY <1>6 DEF Discover, Goto, Ran
<1>7. CASE Connect(c)
  BY <1>7 DEF Connect, Goto, Ran
<1>8. CASE ConnectFails(c)
  BY <1>8 DEF ConnectFails, Goto, Ran, Summarise
<1>9. CASE Launch(c)
  BY <1>9 DEF Launch, Goto
<1>10. CASE ToolMissing(c)
  BY <1>10 DEF ToolMissing, Goto, Ran, Summarise
<1>11. CASE WorkloadTimesOut(c)
  BY <1>11 DEF WorkloadTimesOut, Goto, Ran, Summarise
<1>12. CASE WorkloadEnds(c)
  BY <1>12 DEF WorkloadEnds, Goto, Ran
<1>13. CASE WorkloadRaises(c)
  BY <1>13 DEF WorkloadRaises, Goto
<1>14. CASE NoDisconnect(c)
  BY <1>14 DEF NoDisconnect, LeaveTry, Goto
<1>15. CASE Disconnect(c)
  <2>1. \E result \in {"ok", "failed"} : rc' = [rc EXCEPT ![c]["disconnect"] = result]
    BY <1>15 DEF Disconnect, Ran
  <2>2. \E phase \in {"logs", "return", "raised"} : pc' = [pc EXCEPT ![c] = phase]
    BY <1>15 DEF Disconnect, LeaveTry, Goto
  <2>3. rc' \in [Calls -> [Tools -> {"none", "ok", "failed", "busy"}]] /\ pc' \in [Calls -> Phases]
    BY <2>1, <2>2
  <2>4. owner' \in {owner, "nobody"} /\ UNCHANGED <<config, dirs, verdict, connected, outcome>>
    BY <1>15 DEF Disconnect
  <2>5. QED
    BY <2>3, <2>4
<1>16. CASE Conclude(c)
  BY <1>16 DEF Conclude, Goto, Summarise
<1>17. CASE Return(c)
  BY <1>17 DEF Return, Goto
<1>18. CASE Raise(c)
  <2>1. \/ rc' = rc
        \/ pc[c] \in Tools /\ rc' = [rc EXCEPT ![c][pc[c]] = "failed"]
    BY <1>18 DEF Raise, Ran
  <2>2. rc' \in [Calls -> [Tools -> {"none", "ok", "failed", "busy"}]]
    BY <2>1
  <2>3. TornFile(c) \in DirStates
    BY <1>18 DEF TornFile
  <2>4. dirs' \in [Calls -> DirStates]
    BY <1>18, <2>3 DEF Raise
  <2>5. QED
    BY <1>18, <2>2, <2>4 DEF Raise, Goto
<1>19. QED
  BY <1>1, <1>2, <1>3, <1>4, <1>5, <1>6, <1>7, <1>8, <1>9, <1>10, <1>11, <1>12,
     <1>13, <1>14, <1>15, <1>16, <1>17, <1>18 DEF Step

\* A step of one case leaves the fields of the others, and the configuration.
LEMMA Frame ==
    ASSUME TypeOK, NEW c \in Calls, Step(c)
    PROVE  /\ config' = config
           /\ \A d \in Calls \ {c} : /\ pc'[d] = pc[d] /\ rc'[d] = rc[d]
                                     /\ connected'[d] = connected[d]
<1> USE DEF TypeOK
<1>1. CASE Begin(c) \/ Open(c) \/ Gate(c) \/ Launch(c) \/ WorkloadRaises(c) \/ NoDisconnect(c)
            \/ Conclude(c) \/ Return(c)
  BY <1>1 DEF Begin, Open, Gate, Launch, WorkloadRaises, NoDisconnect, Conclude, Return,
     Goto, Summarise, LeaveTry
<1>2. CASE KeyReady(c) \/ KeyFails(c) \/ Discover(c) \/ Connect(c) \/ ConnectFails(c)
  BY <1>2 DEF KeyReady, KeyFails, Discover, Connect, ConnectFails, Goto, Ran, Summarise
<1>3. CASE ToolMissing(c) \/ WorkloadTimesOut(c) \/ WorkloadEnds(c) \/ Disconnect(c) \/ Raise(c)
  BY <1>3 DEF ToolMissing, WorkloadTimesOut, WorkloadEnds, Disconnect, Raise, Goto, Ran,
     Summarise, LeaveTry
<1>4. QED
  BY <1>1, <1>2, <1>3 DEF Step
-----------------------------------------------------------------------------
(* The parts of the invariant *)

\* The place of a case and the tools it has run stay in step.
LEMMA ProgressStep ==
    ASSUME TypeOK, NEW c \in Calls, Step(c), Progress(c)
    PROVE  Progress(c)'
<1>0. config' = config /\ (Gated(c)' <=> Gated(c))
  BY Frame DEF Gated, IsWriteCase, Rw
<1> USE DEF TypeOK, Progress, PerCase, ConnectionPlan, Early, Connecting, Holding, Tools
<1>1. CASE Begin(c)
  BY <1>1, <1>0 DEF Begin, Goto
<1>2. CASE Open(c)
  BY <1>2, <1>0 DEF Open, Goto
<1>3. CASE Gate(c)
  BY <1>3, <1>0 DEF Gate, Goto, Summarise, Gated, IsWriteCase, Rw
<1>4. CASE KeyReady(c)
  BY <1>4, <1>0 DEF KeyReady, Goto, Ran, Summarise
<1>5. CASE KeyFails(c)
  BY <1>5, <1>0 DEF KeyFails, Goto, Ran, Summarise
<1>6. CASE Discover(c)
  BY <1>6, <1>0 DEF Discover, Goto, Ran
<1>7. CASE Connect(c)
  BY <1>7, <1>0 DEF Connect, Goto, Ran
<1>8. CASE ConnectFails(c)
  BY <1>8, <1>0 DEF ConnectFails, Goto, Ran, Summarise
<1>9. CASE Launch(c)
  BY <1>9, <1>0 DEF Launch, Goto
<1>10. CASE ToolMissing(c)
  BY <1>10, <1>0 DEF ToolMissing, Goto, Ran, Summarise
<1>11. CASE WorkloadTimesOut(c)
  BY <1>11, <1>0 DEF WorkloadTimesOut, Goto, Ran, Summarise
<1>12. CASE WorkloadEnds(c)
  BY <1>12, <1>0 DEF WorkloadEnds, Goto, Ran
<1>13. CASE WorkloadRaises(c)
  BY <1>13, <1>0 DEF WorkloadRaises, Goto
<1>14. CASE NoDisconnect(c)
  BY <1>14, <1>0 DEF NoDisconnect, LeaveTry, Goto
<1>15. CASE Disconnect(c)
  BY <1>15, <1>0 DEF Disconnect, LeaveTry, Goto, Ran
<1>16. CASE Conclude(c)
  BY <1>16, <1>0 DEF Conclude, Goto, Summarise
<1>17. CASE Return(c)
  BY <1>17, <1>0 DEF Return, Goto
<1>18. CASE Raise(c)
  BY <1>18, <1>0 DEF Raise, Goto, Ran
<1>19. QED
  BY <1>1, <1>2, <1>3, <1>4, <1>5, <1>6, <1>7, <1>8, <1>9, <1>10, <1>11, <1>12,
     <1>13, <1>14, <1>15, <1>16, <1>17, <1>18 DEF Step

\* The controller: who holds it is past its connect and before its disconnect,
\* or something went wrong with one of the two.
LEMMA PossessionStep ==
    ASSUME TypeOK, NEW c \in Calls, Step(c), \A d \in Calls : Progress(d) /\ Possession(d)
    PROVE  Possession(c)'
<1>0. config' = config /\ Progress(c) /\ Possession(c) /\ c # "nobody"
  BY Frame, CaseAssumption
<1> USE DEF TypeOK, Progress, Possession, Failed, PerCase, ConnectionPlan, Early, Connecting, Holding, Tools
<1>1. CASE Begin(c)
  BY <1>1, <1>0 DEF Begin, Goto
<1>2. CASE Open(c)
  BY <1>2, <1>0 DEF Open, Goto
<1>3. CASE Gate(c)
  BY <1>3, <1>0 DEF Gate, Goto, Summarise
<1>4. CASE KeyReady(c)
  BY <1>4, <1>0 DEF KeyReady, Goto, Ran, Summarise
<1>5. CASE KeyFails(c)
  BY <1>5, <1>0 DEF KeyFails, Goto, Ran, Summarise
<1>6. CASE Discover(c)
  BY <1>6, <1>0 DEF Discover, Goto, Ran
<1>7. CASE Connect(c)
  BY <1>7, <1>0 DEF Connect, Goto, Ran
<1>8. CASE ConnectFails(c)
  BY <1>8, <1>0 DEF ConnectFails, Goto, Ran, Summarise
<1>9. CASE Launch(c)
  BY <1>9, <1>0 DEF Launch, Goto
<1>10. CASE ToolMissing(c)
  BY <1>10, <1>0 DEF ToolMissing, Goto, Ran, Summarise
<1>11. CASE WorkloadTimesOut(c)
  BY <1>11, <1>0 DEF WorkloadTimesOut, Goto, Ran, Summarise
<1>12. CASE WorkloadEnds(c)
  BY <1>12, <1>0 DEF WorkloadEnds, Goto, Ran
<1>13. CASE WorkloadRaises(c)
  BY <1>13, <1>0 DEF WorkloadRaises, Goto
<1>14. CASE NoDisconnect(c)
  BY <1>14, <1>0 DEF NoDisconnect, LeaveTry, Goto
<1>15. CASE Disconnect(c)
  BY <1>15, <1>0 DEF Disconnect, LeaveTry, Goto, Ran
<1>16. CASE Conclude(c)
  BY <1>16, <1>0 DEF Conclude, Goto, Summarise
<1>17. CASE Return(c)
  BY <1>17, <1>0 DEF Return, Goto
<1>18. CASE Raise(c)
  BY <1>18, <1>0 DEF Raise, Goto, Ran
<1>19. QED
  BY <1>1, <1>2, <1>3, <1>4, <1>5, <1>6, <1>7, <1>8, <1>9, <1>10, <1>11, <1>12,
     <1>13, <1>14, <1>15, <1>16, <1>17, <1>18 DEF Step

\* A step of one case neither takes the controller from a case that holds it nor
\* gives one to a case that does not.
LEMMA OthersStep ==
    ASSUME TypeOK, NEW c \in Calls, Step(c), NEW d \in Calls \ {c},
           \A e \in Calls : Progress(e) /\ Possession(e)
    PROVE  Progress(d)' /\ Possession(d)'
<1>1. /\ config' = config /\ pc'[d] = pc[d] /\ rc'[d] = rc[d] /\ connected'[d] = connected[d]
      /\ (Gated(d)' <=> Gated(d)) /\ (PerCase' <=> PerCase)
  BY Frame DEF Gated, IsWriteCase, Rw, PerCase, ConnectionPlan
<1>2. Progress(d)'
  BY <1>1 DEF Progress
<1>3. owner' = d => owner = d
  BY CaseAssumption DEF Step, Begin, Open, Gate, KeyReady, KeyFails, Discover, Connect,
     ConnectFails, Launch, ToolMissing, WorkloadTimesOut, WorkloadEnds, WorkloadRaises,
     NoDisconnect, Disconnect, Conclude, Return, Raise
<1>4. connected[d] /\ pc[d] \in Holding /\ owner = d => owner' = d
  <2>1. SUFFICES ASSUME connected[d], pc[d] \in Holding, owner = d PROVE owner' = d
    OBVIOUS
  <2>2. owner # "nobody" /\ owner # c /\ pc[c] \in Holding => ~connected[c]
    BY <2>1, CaseAssumption DEF Possession
  <2>3. pc[c] = "disconnect" => ~Disconnect(c) /\ ~(Raise(c) /\ owner' # owner)
    BY <2>1, <2>2, CaseAssumption DEF Disconnect, Raise, Holding
  <2>4. QED
    BY <2>1, <2>2, <2>3, CaseAssumption DEF Step, Begin, Open, Gate, KeyReady, KeyFails, Discover, Connect,
       ConnectFails, Launch, ToolMissing, WorkloadTimesOut, WorkloadEnds, WorkloadRaises,
       NoDisconnect, Disconnect, Conclude, Return, Raise
<1>5. Possession(d)'
  BY <1>1, <1>3, <1>4 DEF Possession, Failed
<1>6. QED
  BY <1>2, <1>5

\* What a case has failed at it never undoes, and it is turned away only while
\* another holds the controller.
LEMMA FailuresStay ==
    ASSUME TypeOK, NEW c \in Calls, Step(c), Progress(c)
    PROVE  /\ Failed(c) => Failed(c)'
           /\ rc'[c]["connect"] = "busy" /\ rc[c]["connect"] # "busy" =>
                 pc[c] = "connect" /\ owner # "nobody"
<1> USE DEF TypeOK, Progress, Failed, Early, Connecting, Holding, Tools
<1>1. CASE Begin(c) \/ Open(c) \/ Gate(c) \/ Launch(c) \/ WorkloadRaises(c) \/ NoDisconnect(c)
            \/ Conclude(c) \/ Return(c)
  BY <1>1 DEF Begin, Open, Gate, Launch, WorkloadRaises, NoDisconnect, Conclude, Return
<1>2. CASE KeyReady(c) \/ KeyFails(c) \/ Discover(c)
  BY <1>2 DEF KeyReady, KeyFails, Discover, Ran
<1>3. CASE Connect(c) \/ ConnectFails(c)
  BY <1>3 DEF Connect, ConnectFails, Ran
<1>4. CASE ToolMissing(c) \/ WorkloadTimesOut(c) \/ WorkloadEnds(c)
  BY <1>4 DEF ToolMissing, WorkloadTimesOut, WorkloadEnds, Ran
<1>5. CASE Disconnect(c)
  BY <1>5 DEF Disconnect, Ran
<1>6. CASE Raise(c)
  BY <1>6 DEF Raise, Ran
<1>7. QED
  BY <1>1, <1>2, <1>3, <1>4, <1>5, <1>6 DEF Step

\* Only Begin puts a case to work, and it asks for a free worker.
LEMMA CrowdStep ==
    ASSUME TypeOK, Crowd, NEW c \in Calls, Step(c)
    PROVE  Crowd'
<1>1. config' = config /\ config.workers \in Nat
  BY Frame, CaseAssumption DEF TypeOK, ValidConfig
<1>2. IsFiniteSet(Active) /\ Cardinality(Active) \in Nat
  BY CaseAssumption, FS_Subset, FS_CardinalityType DEF Active
<1>3. CASE Begin(c)
  <2>1. Active' \subseteq Active \cup {c}
    BY <1>3, Frame DEF Active, Over
  <2>2. Cardinality(Active \cup {c}) <= Cardinality(Active) + 1 /\ IsFiniteSet(Active \cup {c})
    BY <1>2, FS_AddElement
  <2>3. Cardinality(Active') <= Cardinality(Active \cup {c}) /\ Cardinality(Active') \in Nat
    BY <2>1, <2>2, FS_Subset, FS_CardinalityType
  <2>4. Cardinality(Active) < config.workers
    BY <1>3 DEF Begin
  <2>5. Cardinality(Active \cup {c}) \in Nat
    BY <2>2, FS_CardinalityType
  <2>6. QED
    BY <1>1, <1>2, <2>2, <2>3, <2>4, <2>5 DEF Crowd
<1>4. CASE ~Begin(c)
  <2>1. c \in Active
    BY <1>4 DEF Step, Active, Over, Tools, Open, Gate, KeyReady, KeyFails, Discover, Connect,
       ConnectFails, Launch, ToolMissing, WorkloadTimesOut, WorkloadEnds, WorkloadRaises,
       NoDisconnect, Disconnect, Conclude, Return, Raise
  <2>2. Active' \subseteq Active
    BY <2>1, Frame DEF Active
  <2>3. Cardinality(Active') <= Cardinality(Active) /\ Cardinality(Active') \in Nat
    BY <1>2, <2>2, FS_Subset, FS_CardinalityType
  <2>4. QED
    BY <1>1, <1>2, <2>3 DEF Crowd
<1>5. QED
  BY <1>3, <1>4

\* With one worker, the case that holds the controller while another is turned
\* away is over: its connect or its disconnect went wrong.
LEMMA TurnedStep ==
    ASSUME TypeOK, Crowd, Turned, NEW c \in Calls, Step(c),
           \A d \in Calls : Progress(d) /\ Possession(d)
    PROVE  Turned'
<1>1. config' = config
  BY Frame
<1>2. \A d \in Calls : Failed(d) => Failed(d)'
  BY Frame, FailuresStay DEF Failed
<1>3. SUFFICES ASSUME config.workers = 1, config.disconnect_after_case,
                      NEW e \in Calls, rc'[e]["connect"] = "busy"
               PROVE  \E d \in Calls : Failed(d)'
  BY <1>1 DEF Turned, BusyHasCause, Failed
<1>4. CASE rc[e]["connect"] = "busy"
  BY <1>2, <1>3, <1>4 DEF Turned, BusyHasCause, Failed
<1>5. CASE rc[e]["connect"] # "busy"
  <2>1. e = c
    BY <1>3, <1>5, Frame
  <2>2. pc[c] = "connect" /\ owner # "nobody"
    BY <2>1, <1>3, <1>5, FailuresStay
  <2>3. PICK d \in Calls : owner = d
    BY <2>2 DEF TypeOK
  <2>4. d # c
    BY <2>2, <2>3 DEF Possession, Connecting
  <2>5. d \notin Active
    <3>1. SUFFICES ASSUME d \in Active PROVE FALSE
      OBVIOUS
    <3>2. {c, d} \subseteq Active
      BY <2>2, <3>1 DEF Active, Over
    <3>3. IsFiniteSet(Active) /\ Cardinality(Active) \in Nat
      BY CaseAssumption, FS_Subset, FS_CardinalityType DEF Active
    <3>4. Cardinality({c, d}) = 2
      <4>1. IsFiniteSet({c}) /\ Cardinality({c}) = 1
        BY FS_Singleton
      <4>2. Cardinality({c} \cup {d}) = 2
        BY <2>4, <4>1, FS_AddElement
      <4>3. {c} \cup {d} = {c, d}
        OBVIOUS
      <4>4. QED
        BY <4>2, <4>3
    <3>5. Cardinality({c, d}) <= Cardinality(Active)
      BY <3>2, <3>3, FS_Subset
    <3>6. QED
      BY <1>3, <3>3, <3>4, <3>5 DEF Crowd
  <2>6. pc[d] \notin Early \cup Holding
    BY <2>3, <2>5 DEF Possession, Active, Over, Holding
  <2>7. Failed(d)
    BY <1>3, <2>3, <2>6 DEF Possession
  <2>8. QED
    BY <2>7, <1>2
<1>6. QED
  BY <1>4, <1>5
-----------------------------------------------------------------------------
(* The invariant and the theorems *)

\* The invariant holds before any case has begun.
LEMMA Initially == Init => Inv
<1>1. SUFFICES ASSUME Init PROVE Inv
  OBVIOUS
<1>2. TypeOK
  BY <1>1 DEF Init, TypeOK, Phases, DirStates
<1>3. ASSUME NEW c \in Calls PROVE Progress(c) /\ Possession(c)
  BY <1>1, <1>3, CaseAssumption DEF Init, Progress, Possession, Failed, Gated, Early, Connecting,
     Holding, Tools
<1>4. Active = {}
  BY <1>1 DEF Init, Active
<1>5. Crowd
  BY <1>1, <1>4, FS_EmptySet, CaseAssumption DEF Init, Crowd, ValidConfig
<1>6. Turned
  BY <1>1 DEF Init, Turned, BusyHasCause, Tools
<1>7. QED
  BY <1>2, <1>3, <1>5, <1>6 DEF Inv

\* The invariant is inductive.
LEMMA Inductive == Inv /\ [Next]_vars => Inv'
<1>1. SUFFICES ASSUME Inv, [Next]_vars PROVE Inv'
  OBVIOUS
<1>2. CASE UNCHANGED vars
  <2>1. /\ config' = config /\ pc' = pc /\ dirs' = dirs /\ verdict' = verdict /\ rc' = rc
        /\ connected' = connected /\ outcome' = outcome /\ owner' = owner
    BY <1>2 DEF vars
  <2>2. TypeOK'
    BY <1>1, <2>1 DEF Inv, TypeOK
  <2>3. \A c \in Calls : Progress(c)' /\ Possession(c)'
    BY <1>1, <2>1 DEF Inv, Progress, Possession, Failed, Gated, PerCase, ConnectionPlan,
       IsWriteCase, Rw
  <2>4. Crowd' /\ Turned'
    BY <1>1, <2>1 DEF Inv, Crowd, Turned, BusyHasCause, Active
  <2>5. QED
    BY <2>2, <2>3, <2>4 DEF Inv
<1>3. ASSUME NEW c \in Calls, Step(c) PROVE Inv'
  <2>1. TypeOK'
    BY <1>1, <1>3, TypeStep DEF Inv
  <2>2. Progress(c)' /\ Possession(c)'
    BY <1>1, <1>3, ProgressStep, PossessionStep DEF Inv
  <2>3. ASSUME NEW d \in Calls \ {c} PROVE Progress(d)' /\ Possession(d)'
    BY <1>1, <1>3, <2>3, OthersStep DEF Inv
  <2>4. Crowd' /\ Turned'
    BY <1>1, <1>3, CrowdStep, TurnedStep DEF Inv
  <2>5. QED
    BY <2>1, <2>2, <2>3, <2>4 DEF Inv
<1>4. QED
  BY <1>1, <1>2, <1>3 DEF Next, Stopped

\* The invariant holds of every run.
THEOREM Invariance == Spec => []Inv
BY Initially, Inductive, PTL DEF Spec

\* The variables of the calls keep their types: TypeOK of the run tls_case.
THEOREM TypeCorrect == Spec => []TypeOK
<1>1. Inv => TypeOK
  BY DEF Inv
<1>2. QED
  BY <1>1, Invariance, PTL

\* A case whose built workload writes is a write case, or its fio template writes
\* of its own accord.
LEMMA WritesHaveSource ==
    ASSUME NEW c \in Calls, WorkloadWrites(c)
    PROVE  IsWriteCase(c) \/ TemplateWrites
BY DEF WorkloadWrites, IsWriteCase

\* The gates of _run_one_case hold for every campaign and every configuration: a
\* dry run runs no tool, nor does a write case without --allow-write; what writes
\* all the same comes from an fio template that says so itself; and in the per-case
\* lifecycle a workload is launched only over the case's own connection and behind
\* its key import.
THEOREM Gates == Spec => []GatesHold
<1>1. Inv => GatesHold
  <2>1. SUFFICES ASSUME Inv, NEW c \in Calls
        PROVE  /\ Gated(c) => ~Launched(c) /\ \A t \in Tools : rc[c][t] = "none"
               /\ Launched(c) /\ WorkloadWrites(c) /\ ~config.allow_write => TemplateWrites
               /\ PerCase /\ (pc[c] = "workload" \/ rc[c]["workload"] # "none") =>
                     /\ connected[c] /\ rc[c]["connect"] = "ok"
                     /\ config.import_key => rc[c]["keyctl"] = "ok"
    BY DEF GatesHold, Gated
  <2>2. Gated(c) => ~Launched(c) /\ \A t \in Tools : rc[c][t] = "none"
    BY <2>1 DEF Inv, Progress, Launched, Connecting, Holding, Tools
  <2>3. Launched(c) /\ WorkloadWrites(c) /\ ~config.allow_write => TemplateWrites
    BY <2>2, WritesHaveSource DEF Gated
  <2>4. PerCase /\ (pc[c] = "workload" \/ rc[c]["workload"] # "none") =>
           /\ connected[c] /\ rc[c]["connect"] = "ok"
           /\ config.import_key => rc[c]["keyctl"] = "ok"
    BY <2>1 DEF Inv, Progress, Holding
  <2>5. QED
    BY <2>2, <2>3, <2>4
<1>2. QED
  BY <1>1, Invariance, PTL

\* However many workers there are, none takes the controller away under the
\* workload of another.
THEOREM Owned == Spec => []OwnConnection
<1>1. Inv => OwnConnection
  BY DEF Inv, OwnConnection, Progress, Possession, Holding
<1>2. QED
  BY <1>1, Invariance, PTL

\* A controller that outlives its case has a cause, and so has, with one worker,
\* one that is in a later case's way: a connect or a disconnect that failed.
THEOREM Controllers == Spec => []ControllersAccounted
<1>1. Inv => ControllersAccounted
  BY DEF Inv, ControllersAccounted, LeakHasCause, Turned, Possession, Failed, Over, Holding
<1>2. QED
  BY <1>1, Invariance, PTL
-----------------------------------------------------------------------------
(* The contract of a call *)

\* What the place of a case says of its directory and its verdict.
Shape(c) ==
    /\ pc[c] \in {"idle", "open"} => dirs[c] = "none" /\ verdict[c] = "none"
    /\ pc[c] \in {"plan", "launch", "workload", "logs"} \cup Connecting =>
          dirs[c] = "yaml" /\ verdict[c] = "none"
    /\ pc[c] = "disconnect" =>
          \/ outcome[c] = "continue" /\ dirs[c] = "yaml" /\ verdict[c] = "none"
          \/ outcome[c] = "return" /\ dirs[c] = "summary" /\ verdict[c] # "none"
          \/ outcome[c] = "raise"
    /\ pc[c] = "return" => dirs[c] = "summary" /\ verdict[c] # "none"

CallState(c) == IF pc[c] \in Over \cup {"idle"} THEN pc[c] ELSE "running"
CallStates == [c \in Calls |-> CallState(c)]

\* A step keeps directory and verdict in line with the place.
LEMMA ShapeStep ==
    ASSUME TypeOK, NEW c \in Calls, Step(c), \A d \in Calls : Shape(d)
    PROVE  \A d \in Calls : Shape(d)'
<1> USE DEF TypeOK, Shape, Connecting
<1>1. CASE Begin(c) \/ Open(c) \/ Gate(c)
  BY <1>1 DEF Begin, Open, Gate, Goto, Summarise
<1>2. CASE KeyReady(c) \/ KeyFails(c) \/ Discover(c)
  BY <1>2 DEF KeyReady, KeyFails, Discover, Goto, Summarise
<1>3. CASE Connect(c) \/ ConnectFails(c) \/ Launch(c)
  BY <1>3 DEF Connect, ConnectFails, Launch, Goto, Summarise
<1>4. CASE ToolMissing(c) \/ WorkloadTimesOut(c) \/ WorkloadEnds(c) \/ WorkloadRaises(c)
  BY <1>4 DEF ToolMissing, WorkloadTimesOut, WorkloadEnds, WorkloadRaises, Goto, Summarise
<1>5. CASE NoDisconnect(c) \/ Disconnect(c)
  BY <1>5 DEF NoDisconnect, Disconnect, LeaveTry, Goto
<1>6. CASE Conclude(c) \/ Return(c) \/ Raise(c)
  BY <1>6 DEF Conclude, Return, Raise, Goto, Summarise
<1>7. QED
  BY <1>1, <1>2, <1>3, <1>4, <1>5, <1>6 DEF Step

\* A step moves one case of the contract.
LEMMA MovesOne ==
    ASSUME TypeOK, NEW c \in Calls, Step(c)
    PROVE  /\ CallStates' = [CallStates EXCEPT ![c] = CallState(c)']
           /\ CallState(c)' = CallState(c) => CallStates' = CallStates
<1>1. \A d \in Calls \ {c} : CallState(d)' = CallState(d)
  BY Frame DEF CallState
<1>2. QED
  BY <1>1 DEF CallStates

\* Every step of a case is a step of its contract or a stutter.
LEMMA CallMaps ==
    ASSUME TypeOK, NEW c \in Calls, Step(c), Shape(c), TypeOK'
    PROVE  [Contract!CallNext]_(Contract!callVars)
<1>m. /\ CallStates' = [CallStates EXCEPT ![c] = CallState(c)']
      /\ CallState(c)' = CallState(c) => CallStates' = CallStates
      /\ CallStates[c] = CallState(c)
  BY MovesOne DEF CallStates
<1>n. CallStates = [d \in Calls |-> IF pc[d] \in Over \cup {"idle"} THEN pc[d] ELSE "running"]
  BY DEF CallStates, CallState
<1>s. ASSUME CallState(c)' = CallState(c), dirs' = dirs, verdict' = verdict
      PROVE  [Contract!CallNext]_(Contract!callVars)
  BY <1>m, <1>s DEF Contract!callVars, CallStates, CallState
<1>b. ASSUME Contract!Begin(c) \/ Contract!Open(c) \/ Contract!Conclude(c) \/ Contract!Tear(c)
             \/ Contract!Return(c) \/ Contract!Raise(c)
      PROVE  [Contract!CallNext]_(Contract!callVars)
  BY <1>b DEF Contract!CallNext
<1> USE DEF CallState, Over
<1>c. ASSUME NEW v \in Verdicts, Summarise(c, v), CallState(c) = "running", CallState(c)' = "running",
             dirs[c] = "yaml"
      PROVE  Contract!Conclude(c)
  BY <1>c, <1>m DEF Contract!Conclude, CallStates, Summarise
<1>1. CASE Begin(c)
  <2>1. CallState(c) = "idle" /\ CallState(c)' = "running" /\ dirs' = dirs /\ verdict' = verdict
    BY <1>1 DEF Begin, Goto, TypeOK
  <2>2. Contract!Begin(c)
    BY <2>1, <1>m DEF Contract!Begin, CallStates
  <2>3. QED
    BY <2>2, <1>b
<1>2. CASE Open(c)
  <2>1. CallState(c) = "running" /\ CallState(c)' = "running" /\ verdict' = verdict
        /\ dirs[c] = "none" /\ dirs' = [dirs EXCEPT ![c] = "yaml"]
    BY <1>2 DEF Open, Goto, TypeOK, Shape
  <2>2. Contract!Open(c)
    BY <2>1, <1>m DEF Contract!Open, CallStates
  <2>3. QED
    BY <2>2, <1>b
<1>3. CASE Gate(c) \/ KeyFails(c) \/ ConnectFails(c) \/ ToolMissing(c) \/ WorkloadTimesOut(c)
           \/ Conclude(c)
  <2>1. CallState(c) = "running" /\ CallState(c)' = "running" /\ dirs[c] = "yaml"
    BY <1>3 DEF Gate, KeyFails, ConnectFails, ToolMissing, WorkloadTimesOut, Conclude, Goto, TypeOK,
       Shape, Connecting
  <2>2. (dirs' = dirs /\ verdict' = verdict) \/ \E v \in Verdicts : Summarise(c, v)
    BY <1>3 DEF Gate, KeyFails, ConnectFails, ToolMissing, WorkloadTimesOut, Conclude, Verdicts
  <2>3. QED
    BY <2>1, <2>2, <1>b, <1>c, <1>s
<1>4. CASE KeyReady(c) \/ Discover(c) \/ Connect(c) \/ Launch(c) \/ WorkloadEnds(c)
  <2>1. CallState(c)' = CallState(c) /\ dirs' = dirs /\ verdict' = verdict
    BY <1>4 DEF KeyReady, Discover, Connect, Launch, WorkloadEnds, Goto, TypeOK
  <2>2. QED
    BY <2>1, <1>s
<1>5. CASE WorkloadRaises(c)
  <2>1. /\ CallState(c) = "running" /\ CallState(c)' = "running" /\ verdict' = verdict
        /\ dirs[c] = "yaml" /\ dirs' \in {dirs, [dirs EXCEPT ![c] = "summary"]}
    BY <1>5 DEF WorkloadRaises, Goto, TypeOK, Shape
  <2>2. dirs' = dirs \/ Contract!Tear(c)
    BY <2>1, <1>m DEF Contract!Tear, CallStates
  <2>3. QED
    BY <2>1, <2>2, <1>b, <1>s
<1>6. CASE NoDisconnect(c) \/ Disconnect(c)
  <2>1. /\ CallState(c) = "running" /\ CallState(c)' \in {"running", "raised"}
        /\ verdict' = verdict /\ dirs' = dirs
    BY <1>6 DEF NoDisconnect, Disconnect, LeaveTry, Goto, TypeOK
  <2>2. CASE CallState(c)' = "raised"
    <3>1. Contract!Raise(c)
      BY <2>1, <2>2, <1>m DEF Contract!Raise, CallStates
    <3>2. QED
      BY <3>1, <1>b
  <2>3. QED
    BY <2>1, <2>2, <1>s
<1>7. CASE Return(c)
  <2>1. /\ CallState(c) = "running" /\ CallState(c)' = "returned"
        /\ verdict' = verdict /\ dirs' = dirs /\ dirs[c] = "summary" /\ verdict[c] # "none"
    BY <1>7 DEF Return, Goto, TypeOK, Shape
  <2>2. Contract!Return(c)
    BY <2>1, <1>m DEF Contract!Return, CallStates
  <2>3. QED
    BY <2>2, <1>b
<1>8. CASE Raise(c)
  <2>1. /\ CallState(c) = "running" /\ CallState(c)' = "raised" /\ verdict' = verdict
        /\ dirs' \in {dirs, [dirs EXCEPT ![c] = TornFile(c)]}
    BY <1>8 DEF Raise, Goto, TypeOK
  <2>2. TornFile(c) \in {dirs[c], IF dirs[c] = "none" THEN "yaml" ELSE "summary"}
    BY <1>8 DEF Raise, TornFile, Shape, Connecting
  <2>3. dirs' \in {dirs, [dirs EXCEPT ![c] = IF @ = "none" THEN "yaml" ELSE "summary"]}
    BY <2>1, <2>2 DEF TypeOK
  <2>4. Contract!Raise(c)
    BY <2>1, <2>3, <1>m DEF Contract!Raise, CallStates
  <2>5. QED
    BY <2>4, <1>b
<1>9. QED
  BY <1>1, <1>2, <1>3, <1>4, <1>5, <1>6, <1>7, <1>8 DEF Step

\* Every call of _run_one_case keeps the contract TlsRun relies on, side by side
\* with any number of others: no verdict without its summary.json, none that
\* changes, no return without one.
THEOREM CallsKeepContract == Spec => KeepsContract
<1>1. Init => Contract!CallInit
  BY DEF Init, Contract!CallInit
<1>2. Init => \A c \in Calls : Shape(c)
  BY DEF Init, Shape, Connecting
<1>3. TypeOK /\ TypeOK' /\ (\A c \in Calls : Shape(c)) /\ [Next]_vars => (\A c \in Calls : Shape(c))'
  <2>1. TypeOK /\ (\A c \in Calls : Shape(c)) /\ UNCHANGED vars => (\A c \in Calls : Shape(c))'
    BY DEF vars, Shape
  <2>2. QED
    BY <2>1, ShapeStep DEF Next, Stopped
<1>4. TypeOK /\ TypeOK' /\ (\A c \in Calls : Shape(c)) /\ [Next]_vars
        => [Contract!CallNext]_(Contract!callVars)
  <2>1. UNCHANGED vars => UNCHANGED Contract!callVars
    BY DEF vars, Contract!callVars
  <2>2. QED
    BY <2>1, CallMaps DEF Next, Stopped
<1>5. QED
  BY <1>1, <1>2, <1>3, <1>4, TypeCorrect, PTL DEF Spec, KeepsContract, Contract!CallSpec
=============================================================================
