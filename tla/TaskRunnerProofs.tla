-------------------------- MODULE TaskRunnerProofs --------------------------
(***************************************************************************)
(* Theorems about TaskRunner, for any runners, requests, templates and     *)
(* time.                                                                   *)
(***************************************************************************)
EXTENDS TaskRunner, FiniteSetTheorems, TLAPS

(***************************************************************************)
(* Several runners may work on one request: the loser of the INSERT gets   *)
(* the winner's row and carries on.  What saves the ledger is the primary  *)
(* key of task_attempts: only one runner can append attempt 1, and only    *)
(* that runner ever gets past its first append.  It owns the request from  *)
(* then on.  Appended(r) is the number of rows it has written.             *)
(***************************************************************************)
Loop == {"attempt", "execute", "append"}
Ending == {"finish", "record"}

Appended(r) == IF pc[r] \in Ending THEN number[r]
               ELSE IF pc[r] \in Loop THEN number[r] - 1 ELSE 0

Owner(r) == \/ pc[r] \in Ending
            \/ pc[r] \in Loop /\ number[r] > 1

\* A request has at most one owner, which wrote all its attempts.
OwnerInv ==
  /\ \A r, s \in Runners : Owner(r) /\ Owner(s) /\ req[r] = req[s] => r = s
  /\ \A r \in Runners : Owner(r) => attempt_count[req[r]] = Appended(r)

Early == {"idle", "lookup", "admit", "claim", "create", "reread"}

\* What a runner knows of its request at each step.
Progress(r) ==
  /\ pc[r] \in Early => number[r] = 1
  /\ number[r] <= MaxAttempts[req[r]]
  /\ pc[r] \in {"reread"} \cup Loop => run[req[r]] # "absent"
  /\ pc[r] \in Loop /\ number[r] > 1 =>
       /\ run[req[r]] = "running"
       /\ \A a \in attempts[req[r]] : a.class = "failed"
  /\ pc[r] \in Ending =>
       /\ [number |-> number[r], class |-> result[r]] \in attempts[req[r]]
       /\ result[r] = "failed" => number[r] = MaxAttempts[req[r]]
  /\ pc[r] = "finish" => run[req[r]] = "running"
  /\ pc[r] = "record" => run[req[r]] = result[r]

ProgressInv == \A r \in Runners : Progress(r)

LedgerInv == TypeOK /\ OwnerInv /\ ProgressInv /\ AttemptLedger

USE DEF Classifications, RunStates, Replies, Steps, NULL, Loop, Ending, Early

-----------------------------------------------------------------------------
\* Types: every step keeps them.
LEMMA NextType == LedgerInv /\ [Next]_vars => TypeOK'
<1> SUFFICES ASSUME LedgerInv, TypeOK, [Next]_vars PROVE TypeOK'
  BY DEF LedgerInv
<1> USE TemplateAssumption DEF TypeOK, At, Goto, Return, store, locals
<1>1. ASSUME NEW r \in Runners, Submit(r) PROVE TypeOK'
  BY <1>1 DEF Submit, Terminal
<1>2. ASSUME NEW r \in Runners, Lookup(r) PROVE TypeOK'
  BY <1>2 DEF Lookup, Terminal
<1>3. ASSUME NEW r \in Runners, RequireActive(r) PROVE TypeOK'
  BY <1>3 DEF RequireActive
<1>4. ASSUME NEW r \in Runners, ClaimCircuit(r) PROVE TypeOK'
  BY <1>4 DEF ClaimCircuit
<1>5. ASSUME NEW r \in Runners, CreateRun(r) PROVE TypeOK'
  BY <1>5 DEF CreateRun
<1>6. ASSUME NEW r \in Runners, RereadRun(r) PROVE TypeOK'
  <2>1. run[req[r]] \in RunStates \ {"absent"}
    BY <1>6 DEF RereadRun, LedgerInv, ProgressInv, Progress
  <2>2. run[req[r]] \in Replies \/ run[req[r]] = "running"
    BY <2>1
  <2>3. reply' \in [Runners -> Replies] /\ pc' \in [Runners -> Steps]
    BY <1>6, <2>2 DEF RereadRun
  <2>4. UNCHANGED <<keys, now, run, attempt_count, attempts, circuit,
                    req, number, result, claimed, repeated>>
    BY <1>6 DEF RereadRun
  <2> QED BY <2>3, <2>4
<1>7. ASSUME NEW r \in Runners, StartAttempt(r) PROVE TypeOK'
  BY <1>7 DEF StartAttempt
<1>8. ASSUME NEW r \in Runners, NEW c \in Classifications, Execute(r, c)
      PROVE  TypeOK'
  BY <1>8 DEF Execute
<1>9. ASSUME NEW r \in Runners, AppendAttempt(r) PROVE TypeOK'
  <2>1. [number |-> number[r], class |-> result[r]] \in Attempts
    BY DEF Attempts
  <2>2. attempts' \in [Requests -> SUBSET Attempts]
    BY <1>9, <2>1 DEF AppendAttempt
  <2>3. number' \in [Runners -> 1..3] /\ pc' \in [Runners -> Steps]
    BY <1>9 DEF AppendAttempt
  <2>4. attempt_count' \in [Requests -> 0..3]
    BY <1>9 DEF AppendAttempt
  <2>5. UNCHANGED <<keys, now, run, circuit, req, result, reply, claimed, repeated>>
    BY <1>9 DEF AppendAttempt
  <2> QED BY <2>2, <2>3, <2>4, <2>5
<1>10. ASSUME NEW r \in Runners, AppendRefused(r) PROVE TypeOK'
  BY <1>10 DEF AppendRefused
<1>11. ASSUME NEW r \in Runners, FinishRun(r) PROVE TypeOK'
  BY <1>11 DEF FinishRun
<1>12. ASSUME NEW r \in Runners, RecordOutcome(r) PROVE TypeOK'
  <2>1. run[req[r]] \in Classifications
    BY <1>12 DEF RecordOutcome, LedgerInv, ProgressInv, Progress
  <2>2. circuit' \in [failures : Nat, opened_at : Nat \cup {NULL}, probe : BOOLEAN]
    BY <1>12 DEF RecordOutcome, Never, Failure
  <2> QED BY <1>12, <2>1, <2>2 DEF RecordOutcome
<1>13. ASSUME NEW r \in Runners, Crash(r) PROVE TypeOK'
  BY <1>13 DEF Crash
<1>14. CASE Operate
  BY <1>14 DEF Operate, Gate!Next, Gate!Shut, Gate!Approve
<1>15. CASE Tick
  BY <1>15 DEF Tick
<1>16. CASE UNCHANGED vars
  BY <1>16 DEF vars
<1> QED
  BY <1>1, <1>2, <1>3, <1>4, <1>5, <1>6, <1>7, <1>8, <1>9, <1>10, <1>11,
     <1>12, <1>13, <1>14, <1>15, <1>16 DEF Next, Step

-----------------------------------------------------------------------------
(* The ledger.                                                             *)

\* A runner that moves without writing its request or reaching its end keeps the
\* ledger: it joins the loop only for a request that has a row.
LEMMA QuietLedger ==
  ASSUME LedgerInv, TypeOK', NEW r \in Runners, NEW s \in Steps \ Ending,
         pc' = [pc EXCEPT ![r] = s],
         UNCHANGED <<run, attempt_count, attempts, req, number>>,
         \A t \in Runners : t # r => result'[t] = result[t],
         s \in Early => pc[r] \in Early,
         s \in {"reread"} \cup Loop => run[req[r]] # "absent",
         s \in Loop => pc[r] \in Loop \cup Early
  PROVE  LedgerInv'
<1>1. /\ pc'[r] = s /\ \A t \in Runners : t # r => pc'[t] = pc[t]
      /\ number \in [Runners -> 1..3]
  BY DEF LedgerInv, TypeOK
<1>2. ASSUME NEW t \in Runners, Owner(t)'
      PROVE  Owner(t) /\ Appended(t)' = Appended(t)
  <2>1. CASE t # r
    BY <1>1, <1>2, <2>1 DEF Owner, Appended
  <2>2. CASE t = r
    <3>1. s \in Loop /\ number[r] > 1
      BY <1>1, <1>2, <2>2 DEF Owner
    <3>2. pc[r] \in Loop \cup Early /\ Progress(r)
      BY <3>1 DEF LedgerInv, ProgressInv
    <3>3. pc[r] \in Loop
      BY <3>1, <3>2 DEF Progress
    <3> QED BY <1>1, <2>2, <3>1, <3>3 DEF Owner, Appended
  <2> QED BY <2>1, <2>2
<1>3. OwnerInv'
  BY <1>2 DEF LedgerInv, OwnerInv
<1>4. ASSUME NEW t \in Runners
      PROVE  Progress(t)'
  <2>1. Progress(t)
    BY DEF LedgerInv, ProgressInv
  <2>2. CASE t # r
    BY <1>1, <2>1, <2>2 DEF Progress
  <2>3. CASE t = r
    BY <1>1, <2>1, <2>3 DEF Progress
  <2> QED BY <2>2, <2>3
<1>5. AttemptLedger'
  BY DEF LedgerInv, AttemptLedger, Ledger, Terminal, Numbers
<1> QED BY <1>3, <1>4, <1>5 DEF LedgerInv, ProgressInv

\* The INSERT of the row, refused or not.
LEMMA CreateLedger ==
  ASSUME LedgerInv, TypeOK', NEW r \in Runners, CreateRun(r)
  PROVE  LedgerInv'
<1>1. /\ pc[r] = "create" /\ pc' = [pc EXCEPT ![r] = "reread"]
      /\ run' = [run EXCEPT ![req[r]] = IF @ = "absent" THEN "running" ELSE @]
      /\ UNCHANGED <<attempt_count, attempts, req, number, result>>
  BY DEF CreateRun, At, Goto, locals
<1>2. /\ pc'[r] = "reread" /\ \A t \in Runners : t # r => pc'[t] = pc[t]
      /\ \A q \in Requests : \/ run'[q] = run[q]
                             \/ run[q] = "absent" /\ run'[q] = "running"
      /\ run'[req[r]] # "absent"
      /\ req \in [Runners -> Requests] /\ result \in [Runners -> Classifications]
  BY <1>1 DEF LedgerInv, TypeOK
<1>3. ASSUME NEW t \in Runners, Owner(t)'
      PROVE  Owner(t) /\ Appended(t)' = Appended(t)
  BY <1>1, <1>2, <1>3 DEF Owner, Appended
<1>4. OwnerInv'
  BY <1>1, <1>3 DEF LedgerInv, OwnerInv
<1>5. ASSUME NEW t \in Runners
      PROVE  Progress(t)'
  <2>1. Progress(t)
    BY DEF LedgerInv, ProgressInv
  <2>2. \/ run'[req[t]] = run[req[t]]
        \/ run[req[t]] = "absent" /\ run'[req[t]] = "running"
    BY <1>2
  <2>3. CASE t # r
    BY <1>1, <1>2, <2>1, <2>2, <2>3 DEF Progress
  <2>4. CASE t = r
    BY <1>1, <1>2, <2>1, <2>4 DEF Progress
  <2> QED BY <2>3, <2>4
<1>6. ASSUME NEW q \in Requests
      PROVE  Ledger(q)'
  <2>1. Ledger(q)
    BY DEF LedgerInv, AttemptLedger
  <2>2. CASE run'[q] = run[q]
    BY <1>1, <2>1, <2>2 DEF Ledger, Terminal, Numbers
  <2>3. CASE run[q] = "absent" /\ run'[q] = "running"
    BY <1>1, <2>1, <2>3 DEF Ledger, Terminal, Numbers
  <2> QED BY <1>2, <2>2, <2>3
<1> QED BY <1>4, <1>5, <1>6 DEF LedgerInv, ProgressInv, AttemptLedger

\* Writing an attempt.  The key (run_id, attempt_number) makes the writer of
\* attempt 1 the owner; every later attempt is written by the owner.
LEMMA AppendLedger ==
  ASSUME LedgerInv, TypeOK', NEW r \in Runners, AppendAttempt(r)
  PROVE  LedgerInv'
<1> DEFINE q == req[r]
           row == [number |-> number[r], class |-> result[r]]
<1>1. /\ pc[r] = "append" /\ ~HasAttempt(q, number[r])
      /\ attempts' = [attempts EXCEPT ![q] = @ \cup {row}]
      /\ attempt_count' = [attempt_count EXCEPT ![q] = number[r]]
      /\ UNCHANGED <<run, req, result>>
  BY DEF AppendAttempt, At
<1>2. \/ /\ result[r] = "failed" /\ number[r] < MaxAttempts[q]
         /\ number' = [number EXCEPT ![r] = @ + 1]
         /\ pc' = [pc EXCEPT ![r] = "attempt"]
      \/ /\ result[r] = "failed" => number[r] = MaxAttempts[q]
         /\ number' = number
         /\ pc' = [pc EXCEPT ![r] = "finish"]
  BY DEF AppendAttempt, Goto
<1>3. /\ q \in Requests /\ number[r] \in 1..3 /\ number \in [Runners -> 1..3]
      /\ pc \in [Runners -> Steps] /\ req \in [Runners -> Requests]
      /\ attempts \in [Requests -> SUBSET Attempts]
      /\ attempt_count \in [Requests -> 0..3] /\ MaxAttempts[q] \in 1..3
  BY TemplateAssumption DEF LedgerInv, TypeOK
<1>4. Progress(r) /\ Ledger(q)
  BY <1>3 DEF LedgerInv, ProgressInv, AttemptLedger
<1>5. number[r] \notin Numbers(q)
  BY <1>1 DEF HasAttempt, Numbers
<1>6. attempt_count[q] = number[r] - 1
  <2>1. CASE number[r] = 1
    BY <1>3, <1>4, <1>5, <2>1 DEF Ledger
  <2>2. CASE number[r] # 1
    BY <1>1, <1>3, <2>2 DEF LedgerInv, OwnerInv, Owner, Appended
  <2> QED BY <2>1, <2>2
<1>7. \A a \in attempts[q] : a.class = "failed" /\ a.number < number[r]
  <2> TAKE a \in attempts[q]
  <2>1. a.number \in 1..attempt_count[q] /\ a.number < number[r]
    BY <1>3, <1>4, <1>6 DEF Ledger, Numbers
  <2>2. number[r] > 1
    BY <1>3, <2>1
  <2> QED BY <1>1, <1>4, <2>1, <2>2 DEF Progress
<1>8. run[q] = "running"
  <2>1. run[q] # "absent" /\ run[q] \in RunStates
    BY <1>1, <1>3, <1>4 DEF Progress, LedgerInv, TypeOK
  <2>2. ~Terminal(q)
    <3>1. SUFFICES ASSUME Terminal(q) PROVE FALSE
      OBVIOUS
    <3>2. attempt_count[q] \in Numbers(q)
      BY <1>4, <3>1 DEF Ledger, Numbers
    <3>3. number[r] > 1
      BY <1>3, <1>4, <1>6, <3>2 DEF Ledger
    <3> QED BY <1>1, <1>4, <3>1, <3>3 DEF Progress, Terminal
  <2> QED BY <2>1, <2>2 DEF Terminal
<1>9. \A t \in Runners : t # r /\ req[t] = q => ~Owner(t)
  <2> SUFFICES ASSUME NEW t \in Runners, t # r, req[t] = q, Owner(t)
               PROVE  FALSE
    OBVIOUS
  <2>1. number[r] = 1
    BY <1>1, <1>3 DEF LedgerInv, OwnerInv, Owner
  <2>2. attempt_count[q] = Appended(t)
    BY DEF LedgerInv, OwnerInv
  <2>3. Appended(t) > 0
    BY <1>3 DEF Owner, Appended
  <2> QED BY <1>3, <1>6, <2>1, <2>2, <2>3
<1>10. /\ attempts'[q] = attempts[q] \cup {row} /\ attempt_count'[q] = number[r]
       /\ \A p \in Requests : p # q => /\ attempts'[p] = attempts[p]
                                     /\ attempt_count'[p] = attempt_count[p]
       /\ \A t \in Runners : t # r => pc'[t] = pc[t] /\ number'[t] = number[t]
       /\ Appended(r)' = number[r] /\ Owner(r)'
  BY <1>1, <1>2, <1>3 DEF Owner, Appended
<1>11. OwnerInv'
  <2>1. ASSUME NEW t \in Runners, t # r, Owner(t)'
        PROVE  Owner(t) /\ Appended(t)' = Appended(t) /\ req[t] # q
    <3>1. Owner(t) /\ Appended(t)' = Appended(t)
      BY <1>10, <2>1 DEF Owner, Appended
    <3> QED BY <1>9, <2>1, <3>1
  <2>2. \A t \in Runners : Owner(t)' => attempt_count'[req[t]] = Appended(t)'
    BY <1>3, <1>10, <2>1 DEF LedgerInv, OwnerInv
  <2>3. \A s, t \in Runners : Owner(s)' /\ Owner(t)' /\ req[s] = req[t] => s = t
    BY <2>1 DEF LedgerInv, OwnerInv
  <2> QED BY <1>1, <2>2, <2>3 DEF OwnerInv
<1>12. ASSUME NEW t \in Runners
       PROVE  Progress(t)'
  <2>1. Progress(t) /\ req[t] \in Requests
    BY <1>3 DEF LedgerInv, ProgressInv
  <2>2. CASE t = r
    <3>1. CASE pc'[r] = "attempt"
      <4>1. /\ result[r] = "failed" /\ number[r] < MaxAttempts[q]
            /\ number'[r] = number[r] + 1 /\ pc'[r] = "attempt"
        BY <1>2, <1>3, <3>1
      <4>2. \A a \in attempts'[q] : a.class = "failed"
        BY <1>7, <1>10, <4>1
      <4> QED BY <1>1, <1>3, <1>8, <2>2, <4>1, <4>2 DEF Progress
    <3>2. CASE pc'[r] # "attempt"
      <4>1. /\ result[r] = "failed" => number[r] = MaxAttempts[q]
            /\ number'[r] = number[r] /\ pc'[r] = "finish"
        BY <1>2, <1>3, <3>2
      <4> QED BY <1>1, <1>4, <1>8, <1>10, <2>2, <4>1 DEF Progress
    <3> QED BY <3>1, <3>2
  <2>3. CASE t # r /\ req[t] = q
    <3>1. /\ ~Owner(t) /\ pc'[t] = pc[t] /\ number'[t] = number[t]
          /\ number[t] \in 1..3
      BY <1>3, <1>9, <1>10, <2>3
    <3> QED BY <1>1, <2>1, <3>1 DEF Progress, Owner
  <2>4. CASE t # r /\ req[t] # q
    <3>1. /\ pc'[t] = pc[t] /\ number'[t] = number[t]
          /\ attempts'[req[t]] = attempts[req[t]]
      BY <1>10, <2>1, <2>4
    <3> QED BY <1>1, <2>1, <3>1 DEF Progress
  <2> QED BY <2>2, <2>3, <2>4
<1>13. ASSUME NEW p \in Requests
       PROVE  Ledger(p)'
  <2>1. CASE p # q
    <3>1. Ledger(p) /\ attempts'[p] = attempts[p] /\ attempt_count'[p] = attempt_count[p]
      BY <1>10, <2>1 DEF LedgerInv, AttemptLedger
    <3> QED BY <1>1, <3>1 DEF Ledger, Terminal, Numbers
  <2>2. CASE p = q
    <3>1. Numbers(q)' = Numbers(q) \cup {number[r]}
      <4>1. Numbers(q)' = {a.number : a \in attempts[q] \cup {row}}
        BY <1>1, <1>10 DEF Numbers
      <4>2. row.number = number[r]
        OBVIOUS
      <4> QED BY <4>1, <4>2 DEF Numbers
    <3>2. Numbers(q)' = 1..attempt_count'[q]
      <4>1. Numbers(q) = 1..(number[r] - 1)
        BY <1>4, <1>6 DEF Ledger
      <4> QED BY <1>3, <1>10, <3>1, <4>1
    <3>3. number[r] <= MaxAttempts[q]
      BY <1>4 DEF Progress
    <3>4. \A a, b \in attempts'[q] : a.number = b.number => a = b
      BY <1>3, <1>4, <1>7, <1>10 DEF Ledger
    <3>5. \A a \in attempts'[q] : a.number < attempt_count'[q] => a.class = "failed"
      BY <1>3, <1>7, <1>10
    <3>6. run'[q] = "running"
      BY <1>1, <1>8
    <3> QED BY <1>1, <1>10, <2>2, <3>2, <3>3, <3>4, <3>5, <3>6 DEF Ledger, Terminal, Numbers
  <2> QED BY <2>1, <2>2
<1> QED BY <1>11, <1>12, <1>13 DEF LedgerInv, ProgressInv, AttemptLedger

\* The owner ends the request, which is still running.
LEMMA FinishLedger ==
  ASSUME LedgerInv, TypeOK', NEW r \in Runners, FinishRun(r)
  PROVE  LedgerInv'
<1> DEFINE q == req[r]
<1>1. /\ pc[r] = "finish" /\ pc' = [pc EXCEPT ![r] = "record"]
      /\ run' = [run EXCEPT ![q] = IF @ = "running" THEN result[r] ELSE @]
      /\ UNCHANGED <<attempt_count, attempts, req, number, result>>
  BY DEF FinishRun, At, Goto, locals
<1>2. /\ q \in Requests /\ number[r] \in 1..3 /\ result[r] \in Classifications
      /\ Progress(r) /\ Ledger(q) /\ number \in [Runners -> 1..3]
  BY DEF LedgerInv, TypeOK, ProgressInv, AttemptLedger
<1>3. run[q] = "running"
  BY <1>1, <1>2 DEF Progress
<1>4. /\ pc'[r] = "record" /\ \A t \in Runners : t # r => pc'[t] = pc[t]
      /\ run'[q] = result[r] /\ \A p \in Requests : p # q => run'[p] = run[p]
  BY <1>1, <1>2, <1>3 DEF LedgerInv, TypeOK
<1>5. ASSUME NEW t \in Runners, Owner(t)'
      PROVE  Owner(t) /\ Appended(t)' = Appended(t)
  BY <1>1, <1>4, <1>5 DEF Owner, Appended
<1>6. OwnerInv'
  BY <1>1, <1>5 DEF LedgerInv, OwnerInv
<1>7. ASSUME NEW t \in Runners
      PROVE  Progress(t)'
  <2>1. Progress(t) /\ req[t] \in Requests
    BY DEF LedgerInv, ProgressInv, TypeOK
  <2>2. CASE t = r
    BY <1>1, <1>2, <1>4, <2>1, <2>2 DEF Progress
  <2>3. CASE t # r /\ req[t] = q
    <3>1. ~Owner(t)
      BY <1>1, <2>3 DEF LedgerInv, OwnerInv, Owner
    <3> QED BY <1>1, <1>2, <1>4, <2>1, <2>3, <3>1 DEF Progress, Owner
  <2>4. CASE t # r /\ req[t] # q
    BY <1>1, <1>4, <2>1, <2>4 DEF Progress
  <2> QED BY <2>2, <2>3, <2>4
<1>8. ASSUME NEW p \in Requests
      PROVE  Ledger(p)'
  <2>1. CASE p # q
    BY <1>1, <1>4, <2>1 DEF LedgerInv, AttemptLedger, Ledger, Terminal, Numbers
  <2>2. CASE p = q
    <3>1. attempt_count[q] = number[r]
      BY <1>1 DEF LedgerInv, OwnerInv, Owner, Appended
    <3>2. /\ [number |-> attempt_count[q], class |-> run'[q]] \in attempts[q]
          /\ run'[q] = "failed" => attempt_count[q] = MaxAttempts[q]
      BY <1>1, <1>2, <1>4, <3>1 DEF Progress
    <3> QED BY <1>1, <1>2, <1>4, <2>2, <3>2 DEF Ledger, Terminal, Numbers
  <2> QED BY <2>1, <2>2
<1> QED BY <1>6, <1>7, <1>8 DEF LedgerInv, ProgressInv, AttemptLedger

\* Every step keeps the ledger.
LEMMA NextLedger == LedgerInv /\ [Next]_vars => LedgerInv'
<1> SUFFICES ASSUME LedgerInv, [Next]_vars PROVE LedgerInv'
  OBVIOUS
<1>0. TypeOK' /\ ProgressInv
  BY NextType DEF LedgerInv
<1>a. ASSUME NEW r \in Runners, Submit(r) PROVE LedgerInv'
  BY <1>0, <1>a, QuietLedger DEF Submit, At, Goto, store
<1>b. ASSUME NEW r \in Runners, Lookup(r) PROVE LedgerInv'
  <2>1. PICK s \in {"admit", "done"} : pc' = [pc EXCEPT ![r] = s]
    BY <1>b DEF Lookup, Goto, Return
  <2> QED BY <1>0, <1>b, <2>1, QuietLedger DEF Lookup, At, store
<1>c. ASSUME NEW r \in Runners, RequireActive(r) PROVE LedgerInv'
  <2>1. PICK s \in {"claim", "done"} : pc' = [pc EXCEPT ![r] = s]
    BY <1>c DEF RequireActive, Goto, Return
  <2> QED BY <1>0, <1>c, <2>1, QuietLedger DEF RequireActive, At, store
<1>d. ASSUME NEW r \in Runners, ClaimCircuit(r) PROVE LedgerInv'
  <2>1. PICK s \in {"create", "done"} : pc' = [pc EXCEPT ![r] = s]
    BY <1>d DEF ClaimCircuit, Goto, Return
  <2> QED BY <1>0, <1>d, <2>1, QuietLedger DEF ClaimCircuit, At
<1>e. ASSUME NEW r \in Runners, CreateRun(r) PROVE LedgerInv'
  BY <1>0, <1>e, CreateLedger
<1>f. ASSUME NEW r \in Runners, RereadRun(r) PROVE LedgerInv'
  <2>1. PICK s \in {"attempt", "done"} : pc' = [pc EXCEPT ![r] = s]
    BY <1>f DEF RereadRun, Goto, Return
  <2>2. run[req[r]] # "absent"
    BY <1>0, <1>f DEF RereadRun, At, ProgressInv, Progress
  <2> QED BY <1>0, <1>f, <2>1, <2>2, QuietLedger DEF RereadRun, At, store
<1>g. ASSUME NEW r \in Runners,
             StartAttempt(r) \/ \E c \in Classifications : Execute(r, c)
      PROVE  LedgerInv'
  <2>1. PICK s \in {"execute", "append"} : pc' = [pc EXCEPT ![r] = s]
    BY <1>g DEF StartAttempt, Execute, Goto
  <2>2. /\ pc[r] \in {"attempt", "execute"}
        /\ UNCHANGED <<run, attempt_count, attempts, req, number>>
        /\ \A t \in Runners : t # r => result'[t] = result[t]
    <3>1. result \in [Runners -> Classifications]
      BY DEF LedgerInv, TypeOK
    <3>2. CASE StartAttempt(r)
      BY <3>1, <3>2 DEF StartAttempt, At, store
    <3>3. CASE \E c \in Classifications : Execute(r, c)
      BY <3>1, <3>3 DEF Execute, At, store
    <3> QED BY <1>g, <3>2, <3>3
  <2>3. run[req[r]] # "absent"
    BY <1>0, <2>2 DEF ProgressInv, Progress
  <2> QED BY <1>0, <2>1, <2>2, <2>3, QuietLedger
<1>h. ASSUME NEW r \in Runners, AppendAttempt(r) PROVE LedgerInv'
  BY <1>0, <1>h, AppendLedger
<1>i. ASSUME NEW r \in Runners, AppendRefused(r) PROVE LedgerInv'
  BY <1>0, <1>i, QuietLedger DEF AppendRefused, At, Return, Goto, store
<1>j. ASSUME NEW r \in Runners, FinishRun(r) PROVE LedgerInv'
  BY <1>0, <1>j, FinishLedger
<1>k. ASSUME NEW r \in Runners, RecordOutcome(r) PROVE LedgerInv'
  BY <1>0, <1>k, QuietLedger DEF RecordOutcome, At, Return, Goto
<1>l. ASSUME NEW r \in Runners, Crash(r) PROVE LedgerInv'
  BY <1>0, <1>l, QuietLedger DEF Crash, At, Goto, store, locals
<1>m. ASSUME UNCHANGED <<run, attempt_count, attempts, req, number, pc, result>>
      PROVE  LedgerInv'
  <2>1. OwnerInv'
    BY <1>m DEF LedgerInv, OwnerInv, Owner, Appended
  <2>2. ProgressInv'
    BY <1>m DEF LedgerInv, ProgressInv, Progress
  <2>3. AttemptLedger'
    BY <1>m DEF LedgerInv, AttemptLedger, Ledger, Terminal, Numbers
  <2> QED BY <1>0, <2>1, <2>2, <2>3 DEF LedgerInv
<1>n. CASE Operate \/ Tick \/ UNCHANGED vars
  BY <1>m, <1>n DEF Operate, Tick, vars, store, locals
<1> QED
  BY <1>a, <1>b, <1>c, <1>d, <1>e, <1>f, <1>g, <1>h, <1>i, <1>j, <1>k, <1>l,
     <1>n DEF Next, Step

\* The ledger is consistent at the start.
LEMMA InitLedger == Init => LedgerInv
<1> SUFFICES ASSUME Init PROVE LedgerInv
  OBVIOUS
<1>1. TypeOK
  BY TemplateAssumption DEF Init, TypeOK, Gate!Init, Never
<1>2. OwnerInv /\ ProgressInv
  BY <1>1, TemplateAssumption DEF Init, OwnerInv, Owner, ProgressInv, Progress, TypeOK
<1>3. AttemptLedger
  BY TemplateAssumption DEF Init, AttemptLedger, Ledger, Numbers, Terminal
<1> QED BY <1>1, <1>2, <1>3 DEF LedgerInv

\* The ledger invariant holds in every reachable state.
THEOREM LedgerHolds == Spec => []LedgerInv
  BY InitLedger, NextLedger, PTL DEF Spec

\* Type correctness, for any runners and requests.
THEOREM TypeCorrect == Spec => []TypeOK
<1>1. LedgerInv => TypeOK
  BY DEF LedgerInv
<1> QED BY <1>1, LedgerHolds, PTL

\* The attempts of a request tell one story, whatever runners share it, die in
\* it, or are stopped by the operator.
THEOREM AttemptsTellOneStory == Spec => []AttemptLedger
<1>1. LedgerInv => AttemptLedger
  BY DEF LedgerInv
<1> QED BY <1>1, LedgerHolds, PTL

-----------------------------------------------------------------------------
(* What has ended stays as it is.                                          *)

\* Only a running request is written, and only by its owner.
LEMMA TerminalStep ==
  LedgerInv /\ [Next]_vars =>
    \A q \in Requests : Terminal(q) =>
      UNCHANGED <<run[q], attempt_count[q], attempts[q]>>
<1> SUFFICES ASSUME LedgerInv, [Next]_vars, NEW q \in Requests, Terminal(q)
             PROVE  UNCHANGED <<run[q], attempt_count[q], attempts[q]>>
  OBVIOUS
<1>1. Ledger(q) /\ run[q] \in Classifications
  BY DEF LedgerInv, AttemptLedger, Terminal
<1>2. CASE UNCHANGED <<run, attempt_count, attempts>>
  BY <1>2
<1>3. ASSUME NEW r \in Runners, CreateRun(r) \/ FinishRun(r)
      PROVE  UNCHANGED <<run[q], attempt_count[q], attempts[q]>>
  BY <1>1, <1>3 DEF CreateRun, FinishRun, LedgerInv, TypeOK
<1>4. ASSUME NEW r \in Runners, AppendAttempt(r)
      PROVE  UNCHANGED <<run[q], attempt_count[q], attempts[q]>>
  <2>1. /\ pc[r] = "append" /\ ~HasAttempt(req[r], number[r])
        /\ attempts' = [attempts EXCEPT ![req[r]] =
                          @ \cup {[number |-> number[r], class |-> result[r]]}]
        /\ attempt_count' = [attempt_count EXCEPT ![req[r]] = number[r]]
        /\ run' = run
    BY <1>4 DEF AppendAttempt, At
  <2>2. req[r] # q
    <3> SUFFICES ASSUME req[r] = q PROVE FALSE
      OBVIOUS
    <3>1. number[r] \in 1..3 /\ Progress(r) /\ attempt_count[q] \in 0..3
      BY DEF LedgerInv, TypeOK, ProgressInv
    <3>2. number[r] = 1
      BY <1>1, <2>1, <3>1 DEF Progress
    <3>3. attempt_count[q] \in Numbers(q)
      BY <1>1 DEF Ledger, Terminal, Numbers
    <3>4. 1 \in Numbers(q)
      BY <1>1, <3>1, <3>3 DEF Ledger
    <3> QED BY <2>1, <3>2, <3>4 DEF HasAttempt, Numbers
  <2> QED BY <2>1, <2>2 DEF LedgerInv, TypeOK
<1>5. \/ UNCHANGED <<run, attempt_count, attempts>>
      \/ \E r \in Runners : CreateRun(r) \/ FinishRun(r) \/ AppendAttempt(r)
  BY DEF Next, Step, vars, store, Submit, Lookup, RequireActive, ClaimCircuit,
         RereadRun, StartAttempt, Execute, AppendRefused, RecordOutcome, Crash,
         Operate, Tick
<1> QED BY <1>2, <1>3, <1>4, <1>5

\* No runner rewrites a request that has ended.
THEOREM EndedRequestsAreFinal == Spec => TerminalIsFinal
  BY LedgerHolds, TerminalStep, PTL DEF Spec, TerminalIsFinal

\* A repeated request answers the stored outcome and executes nothing.
THEOREM RepeatsExecuteNothing == Spec => []RepeatReturnsStoredOutcome
<1> DEFINE Rep(r) == repeated[r] =>
             /\ pc[r] \in {"lookup", "done", "crashed"} /\ Terminal(req[r])
             /\ pc[r] = "done" => reply[r] = run[req[r]]
           Inv == \A r \in Runners : Rep(r)
<1>1. Init => Inv
  BY TemplateAssumption DEF Init
<1>2. LedgerInv /\ Inv /\ [Next]_vars => Inv'
  <2> SUFFICES ASSUME LedgerInv, Inv, [Next]_vars, NEW t \in Runners
               PROVE  Rep(t)'
    OBVIOUS
  <2>0. /\ Rep(t) /\ req' = req /\ req[t] \in Requests
        /\ Terminal(req[t]) => run'[req[t]] = run[req[t]]
    <3>1. req' = req
      BY DEF Next, Step, vars, store, locals, Submit, Lookup, RequireActive,
             ClaimCircuit, CreateRun, RereadRun, StartAttempt, Execute,
             AppendAttempt, AppendRefused, FinishRun, RecordOutcome, Crash,
             Operate, Tick
    <3> QED BY <3>1, TerminalStep DEF LedgerInv, TypeOK
  <2>1. ASSUME UNCHANGED <<pc[t], reply[t], repeated[t]>>
        PROVE  Rep(t)'
    BY <2>0, <2>1 DEF Terminal
  <2>2. CASE Submit(t)
    BY <2>0, <2>2 DEF Submit, At, Goto, Terminal, LedgerInv, TypeOK, store
  <2>3. CASE Lookup(t)
    BY <2>0, <2>3 DEF Lookup, At, Goto, Return, Terminal, LedgerInv, TypeOK, store
  <2>4. CASE Crash(t)
    BY <2>0, <2>4 DEF Crash, At, Goto, Terminal, LedgerInv, TypeOK, store, locals
  <2>5. ASSUME pc[t] \notin {"idle", "lookup", "done", "crashed"}, UNCHANGED repeated
        PROVE  Rep(t)'
    BY <2>0, <2>5
  <2>6. \/ UNCHANGED <<pc[t], reply[t], repeated[t]>>
        \/ Submit(t) \/ Lookup(t) \/ Crash(t)
        \/ pc[t] \notin {"idle", "lookup", "done", "crashed"} /\ UNCHANGED repeated
    <3>1. /\ pc \in [Runners -> Steps] /\ reply \in [Runners -> Replies]
          /\ repeated \in [Runners -> BOOLEAN]
      BY DEF LedgerInv, TypeOK
    <3>2. ASSUME NEW r \in Runners, Submit(r) \/ Lookup(r) \/ Crash(r)
          PROVE  r = t \/ UNCHANGED <<pc[t], reply[t], repeated[t]>>
      BY <3>1, <3>2 DEF Submit, Lookup, Crash, Goto, Return, locals
    <3>3. ASSUME NEW r \in Runners, Step(r), ~Lookup(r)
          PROVE  /\ UNCHANGED repeated
                 /\ pc[r] \notin {"idle", "lookup", "done", "crashed"}
                 /\ r = t \/ UNCHANGED <<pc[t], reply[t]>>
      BY <3>1, <3>3 DEF Step, locals, RequireActive, ClaimCircuit, CreateRun,
             RereadRun, StartAttempt, Execute, AppendAttempt, AppendRefused,
             FinishRun, RecordOutcome, At, Goto, Return
    <3> QED BY <3>2, <3>3 DEF Next, Operate, Tick, vars, locals
  <2> QED BY <2>1, <2>2, <2>3, <2>4, <2>5, <2>6
<1>3. Inv => RepeatReturnsStoredOutcome
  BY DEF RepeatReturnsStoredOutcome
<1> QED BY <1>1, <1>2, <1>3, LedgerHolds, PTL DEF Spec

-----------------------------------------------------------------------------
(* The circuit.                                                            *)

\* Requests that ended without success and whose outcome is not yet to be
\* recorded on the circuit by a live runner.
Recorded ==
  {q \in Requests : /\ Terminal(q)
                    /\ run[q] # "success"
                    /\ \A r \in Runners : pc[r] = "record" => req[r] # q}

\* The circuit counts no failure twice.
CircuitInv == circuit.failures <= Cardinality(Recorded)

\* What each step does to the circuit.
LEMMA CircuitStep ==
  ASSUME [Next]_vars
  PROVE  \/ UNCHANGED <<circuit, claimed>>
         \/ \E r \in Runners : RecordOutcome(r)
         \/ /\ \E r \in Runners : claimed' = [claimed EXCEPT ![r] = TRUE]
            /\ circuit' = [circuit EXCEPT !.probe = TRUE]
  BY DEF Next, Step, vars, store, locals, Submit, Lookup, RequireActive,
         ClaimCircuit, CreateRun, RereadRun, StartAttempt, Execute,
         AppendAttempt, AppendRefused, FinishRun, Crash, Operate, Tick

\* A step that records nothing takes no request out of Recorded.
LEMMA RecordedGrows ==
  ASSUME LedgerInv, [Next]_vars, \A r \in Runners : ~RecordOutcome(r)
  PROVE  Recorded \subseteq Recorded'
<1> SUFFICES ASSUME NEW q \in Recorded PROVE q \in Recorded'
  OBVIOUS
<1>1. q \in Requests /\ Terminal(q) /\ run[q] # "success"
  BY DEF Recorded
<1>2. run'[q] = run[q]
  BY <1>1, TerminalStep
<1>3. ASSUME NEW r \in Runners, pc'[r] = "record" PROVE req'[r] # q
  <2>1. CASE pc[r] = "record" /\ req' = req
    BY <2>1 DEF Recorded
  <2>2. CASE FinishRun(r)
    BY <1>1, <2>2 DEF FinishRun, At, locals, LedgerInv, ProgressInv, Progress, Terminal
  <2>3. pc \in [Runners -> Steps]
    BY DEF LedgerInv, TypeOK
  <2>4. ASSUME NEW t \in Runners, Submit(t) \/ Step(t) \/ Crash(t)
        PROVE  /\ req' = req
               /\ pc'[r] = pc[r] \/ FinishRun(r) \/ pc'[r] # "record"
    <3>1. req' = req
      BY <2>4 DEF Submit, Step, Crash, locals, Lookup, RequireActive, ClaimCircuit, CreateRun,
             RereadRun, StartAttempt, Execute, AppendAttempt, AppendRefused,
             FinishRun, RecordOutcome
    <3>2. CASE FinishRun(t)
      <4>1. t # r => pc'[r] = pc[r]
        BY <2>3, <3>2 DEF FinishRun, Goto
      <4> QED BY <3>1, <3>2, <4>1
    <3>3. ASSUME ~FinishRun(t)
          PROVE  \E s \in Steps \ {"record"} : pc' = [pc EXCEPT ![t] = s]
      BY <2>4, <3>3 DEF Submit, Step, Crash, Lookup, RequireActive, ClaimCircuit, CreateRun,
             RereadRun, StartAttempt, Execute, AppendAttempt, AppendRefused,
             RecordOutcome, Goto, Return
    <3> QED BY <2>3, <3>1, <3>2, <3>3
  <2>5. /\ req' = req
        /\ pc'[r] = pc[r] \/ FinishRun(r) \/ pc'[r] # "record"
    BY <2>4 DEF Next, Operate, Tick, vars, locals
  <2> QED BY <1>3, <2>1, <2>2, <2>5
<1> QED BY <1>1, <1>2, <1>3 DEF Recorded, Terminal

\* Recording the outcome of a request that was not a success adds it.
LEMMA RecordingAdds ==
  ASSUME LedgerInv, [Next]_vars, NEW r \in Runners, RecordOutcome(r),
         result[r] # "success"
  PROVE  /\ req[r] \notin Recorded
         /\ Recorded \cup {req[r]} \subseteq Recorded'
<1>1. /\ pc[r] = "record" /\ pc' = [pc EXCEPT ![r] = "done"]
      /\ UNCHANGED <<run, req>>
  BY DEF RecordOutcome, At, Return, Goto
<1>2. /\ run[req[r]] = result[r] /\ req[r] \in Requests
      /\ result[r] \in Classifications /\ pc \in [Runners -> Steps]
  BY <1>1 DEF LedgerInv, ProgressInv, Progress, TypeOK
<1>3. req[r] \notin Recorded
  BY <1>1 DEF Recorded
<1>4. \A t \in Runners : pc'[t] = "record" => req[t] # req[r]
  BY <1>1, <1>2 DEF LedgerInv, OwnerInv, Owner
<1>5. \A t \in Runners : pc'[t] = "record" => pc[t] = "record"
  BY <1>1, <1>2
<1> QED BY <1>1, <1>2, <1>3, <1>4, <1>5 DEF Recorded, Terminal

\* The failures on the circuit never outnumber the requests behind them.
THEOREM NoFailureCountsTwice == Spec => []FailuresBackedByRequests
<1>1. LedgerInv => /\ IsFiniteSet(Recorded) /\ Cardinality(Recorded) \in Nat
                   /\ CircuitInv => FailuresBackedByRequests
  <2> DEFINE Ended == {q \in Requests : Terminal(q) /\ run[q] # "success"}
  <2> SUFFICES ASSUME LedgerInv
               PROVE  /\ IsFiniteSet(Recorded) /\ Cardinality(Recorded) \in Nat
                      /\ CircuitInv => FailuresBackedByRequests
    OBVIOUS
  <2>1. Ended \subseteq Requests /\ Recorded \subseteq Ended
    BY DEF Recorded
  <2>2. IsFiniteSet(Ended)
    BY <2>1, FS_Subset, TemplateAssumption
  <2>3. IsFiniteSet(Recorded) /\ Cardinality(Recorded) <= Cardinality(Ended)
    BY <2>1, <2>2, FS_Subset
  <2>4. Cardinality(Recorded) \in Nat /\ Cardinality(Ended) \in Nat
    BY <2>2, <2>3, FS_CardinalityType
  <2>5. circuit.failures \in Nat
    BY DEF LedgerInv, TypeOK
  <2> QED BY <2>3, <2>4, <2>5 DEF CircuitInv, FailuresBackedByRequests
<1>2. Init => CircuitInv
  <2> SUFFICES ASSUME Init PROVE CircuitInv
    OBVIOUS
  <2>1. Recorded = {}
    BY DEF Init, Recorded, Terminal
  <2> QED BY <2>1, FS_EmptySet DEF Init, CircuitInv, Never
<1>3. LedgerInv /\ CircuitInv /\ [Next]_vars => CircuitInv'
  <2> SUFFICES ASSUME LedgerInv, CircuitInv, [Next]_vars PROVE CircuitInv'
    OBVIOUS
  <2>1. /\ IsFiniteSet(Recorded) /\ Cardinality(Recorded) \in Nat
        /\ IsFiniteSet(Recorded') /\ Cardinality(Recorded') \in Nat
        /\ circuit.failures \in Nat
        /\ circuit \in [failures : Nat, opened_at : Nat \cup {NULL}, probe : BOOLEAN]
    <3>1. LedgerInv'
      BY NextLedger
    <3>2. Recorded' \subseteq Requests
      BY DEF Recorded
    <3>3. IsFiniteSet(Recorded')
      BY <3>2, FS_Subset, TemplateAssumption
    <3>4. Cardinality(Recorded') \in Nat
      BY <3>3, FS_CardinalityType
    <3> QED BY <1>1, <3>3, <3>4 DEF LedgerInv, TypeOK
  <2>2. ASSUME \A r \in Runners : ~RecordOutcome(r) PROVE CircuitInv'
    <3>1. Recorded \subseteq Recorded'
      BY <2>2, RecordedGrows
    <3>2. Cardinality(Recorded) <= Cardinality(Recorded')
      BY <2>1, <3>1, FS_Subset
    <3>3. circuit'.failures = circuit.failures
      BY <2>1, <2>2, CircuitStep
    <3> QED BY <2>1, <3>2, <3>3 DEF CircuitInv
  <2>3. ASSUME NEW r \in Runners, RecordOutcome(r) PROVE CircuitInv'
    <3>1. CASE result[r] = "success"
      BY <2>1, <2>3, <3>1 DEF RecordOutcome, Never, CircuitInv
    <3>2. CASE result[r] # "success"
      <4> DEFINE S == Recorded \cup {req[r]}
      <4>1. req[r] \notin Recorded /\ S \subseteq Recorded'
        BY <2>3, <3>2, RecordingAdds
      <4>2. Cardinality(S) = Cardinality(Recorded) + 1
        BY <2>1, <4>1, FS_AddElement
      <4>3. Cardinality(S) <= Cardinality(Recorded')
        BY <2>1, <4>1, FS_Subset
      <4>4. circuit'.failures = circuit.failures + 1
        BY <2>3, <3>2 DEF RecordOutcome, Failure
      <4> QED BY <2>1, <4>2, <4>3, <4>4 DEF CircuitInv
    <3> QED BY <3>1, <3>2
  <2> QED BY <2>2, <2>3
<1> QED BY <1>1, <1>2, <1>3, LedgerHolds, PTL DEF Spec

\* A half-open probe always has a claimer whose outcome is not recorded.
THEOREM ProbesHaveClaimers == Spec => []ProbeHasClaimer
<1>1. Init => ProbeHasClaimer
  BY DEF Init, Never, ProbeHasClaimer
<1>2. LedgerInv /\ ProbeHasClaimer /\ [Next]_vars => ProbeHasClaimer'
  <2> SUFFICES ASSUME LedgerInv, ProbeHasClaimer, [Next]_vars PROVE ProbeHasClaimer'
    OBVIOUS
  <2>1. CASE UNCHANGED <<circuit, claimed>>
    BY <2>1 DEF ProbeHasClaimer
  <2>2. CASE \E r \in Runners : RecordOutcome(r)
    BY <2>2 DEF RecordOutcome, Never, Failure, ProbeHasClaimer
  <2>3. CASE \E r \in Runners : claimed' = [claimed EXCEPT ![r] = TRUE]
    BY <2>3 DEF ProbeHasClaimer, LedgerInv, TypeOK
  <2> QED BY <2>1, <2>2, <2>3, CircuitStep
<1> QED BY <1>1, <1>2, LedgerHolds, PTL DEF Spec

\* The circuit's failures and its probe are backed by requests.
THEOREM CircuitTellsTheRequests == Spec => []CircuitIsBacked
<1>1. FailuresBackedByRequests /\ ProbeHasClaimer => CircuitIsBacked
  BY DEF CircuitIsBacked
<1> QED BY <1>1, NoFailureCountsTwice, ProbesHaveClaimers, PTL

\* When all templates of a project agree on the threshold, an open circuit has
\* an opening time, so that every cooldown can end.
THEOREM OpenCircuitsCool ==
  ASSUME \A p, q \in Requests : Threshold[p] = Threshold[q]
  PROVE  Spec => []TrippedCircuitCanCool
<1>1. Init => TrippedCircuitCanCool
  BY TemplateAssumption DEF Init, Never, TrippedCircuitCanCool, Tripped
<1>2. LedgerInv /\ TrippedCircuitCanCool /\ [Next]_vars => TrippedCircuitCanCool'
  <2> SUFFICES ASSUME LedgerInv, TrippedCircuitCanCool, [Next]_vars,
                      NEW q \in Requests, Tripped(q)'
               PROVE  circuit'.opened_at \in 0..now'
    BY DEF TrippedCircuitCanCool
  <2>1. /\ now \in Nat /\ Threshold \in [Requests -> 1..10]
        /\ req \in [Runners -> Requests]
        /\ circuit \in [failures : Nat, opened_at : Nat \cup {NULL}, probe : BOOLEAN]
    BY TemplateAssumption DEF LedgerInv, TypeOK
  <2>2. now' \in Nat /\ now <= now'
    <3>1. now' = now \/ now' = now + 1
      BY DEF Next, Step, vars, locals, Submit, Lookup, RequireActive,
             ClaimCircuit, CreateRun, RereadRun, StartAttempt, Execute,
             AppendAttempt, AppendRefused, FinishRun, RecordOutcome, Crash,
             Operate, Tick, At
    <3> QED BY <2>1, <3>1
  <2>3. CASE circuit' = circuit \/ circuit' = [circuit EXCEPT !.probe = TRUE]
    <3>1. circuit'.failures = circuit.failures /\ circuit'.opened_at = circuit.opened_at
      BY <2>1, <2>3
    <3>2. circuit.opened_at \in 0..now
      BY <3>1 DEF TrippedCircuitCanCool, Tripped
    <3> QED BY <2>1, <2>2, <3>1, <3>2
  <2>4. ASSUME NEW r \in Runners, RecordOutcome(r)
        PROVE  circuit'.opened_at \in 0..now'
    <3>1. result[r] # "success"
      <4> SUFFICES ASSUME result[r] = "success" PROVE FALSE
        OBVIOUS
      <4>1. circuit'.failures = 0
        BY <2>4 DEF RecordOutcome, Never
      <4> QED BY <2>1, <4>1 DEF Tripped
    <3>2. circuit' = Failure(req[r]) /\ now' = now
      BY <2>4, <3>1 DEF RecordOutcome, At
    <3>3. Threshold[req[r]] = Threshold[q]
      BY <2>1
    <3> QED BY <2>1, <3>2, <3>3 DEF Failure, Tripped
  <2> QED BY <2>3, <2>4, CircuitStep
<1> QED BY <1>1, <1>2, LedgerHolds, PTL DEF Spec
=============================================================================
