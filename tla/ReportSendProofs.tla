-------------------------- MODULE ReportSendProofs --------------------------
(***************************************************************************)
(* Theorems about ReportSend, for every set of reports and sessions and    *)
(* every bound.  The argument is one inductive invariant, TypeOK and       *)
(* ClaimInvariant together; the safety properties follow from it.          *)
(***************************************************************************)
EXTENDS ReportSend, TLAPS

IInv == TypeOK /\ ClaimInvariant

-----------------------------------------------------------------------------
(* Type correctness.  TypeOK alone is not inductive: a step that works on    *)
(* NoReport would record an email of no report, so InHand goes with it.      *)

TypeInv == TypeOK /\ InHand

LEMMA InitTyped == Init => TypeInv
<1>1. SUFFICES ASSUME Init PROVE TypeInv
  OBVIOUS
<1>2. NoReport \notin Reports
  BY ReportSendAssumption
<1>3. NewRow(TRUE) \in Row /\ NewRow(FALSE) \in Row
  BY DEF NewRow, Row
<1>4. IdleRun \in Run
  BY <1>3 DEF IdleRun, NothingSeen, Run, RunPc
<1>5. IdleSession \in Session
  BY DEF IdleSession, Session, SessionKind
<1>6. TypeOK
  <2>1. row \in [Reports -> Row]
    BY <1>1, <1>3 DEF Init
  <2>2. mail \in [Reports -> Seq(Nat)]
    BY <1>1 DEF Init
  <2>3. session \in [Sessions -> Session] /\ run \in Run
    BY <1>1, <1>4, <1>5 DEF Init
  <2>. QED
    BY <1>1, <2>1, <2>2, <2>3 DEF Init, TypeOK
<1>7. InHand
  BY <1>1 DEF Init, InHand, IdleRun, IdleSession
<1>. QED
  BY <1>6, <1>7 DEF TypeInv

\* The UPDATEs of a row leave a row.
LEMMA RowUpdates ==
  ASSUME NEW w \in Row, NEW n \in Nat, NEW b \in BOOLEAN
  PROVE  /\ Approved(w, n, b) \in Row
         /\ Unapproved(w) \in Row
         /\ Stamped(w, n) \in Row
BY DEF Approved, Unapproved, Stamped, Row

LEMMA SessionTyped ==
  ASSUME TypeInv, NEW s \in Sessions, SessionStep(s)
  PROVE  TypeInv'
<1>. USE DEF TypeInv
<1>1. /\ row \in [Reports -> Row] /\ session \in [Sessions -> Session] /\ clock \in Nat
      /\ session[s].kind # "idle" => session[s].rep \in Reports
  BY DEF TypeOK, InHand
<1>2. ASSUME NEW r \in Reports, NEW kind \in SessionKind, Begin(s, kind, r)
      PROVE  TypeInv'
  BY <1>2 DEF Begin, TypeOK, InHand, Session
<1>3. ASSUME NEW r \in Reports,
             \/ ApproveRead(s, r) \/ OverrideRead(s, r) \/ UnapproveRead(s, r)
             \/ WithdrawRead(s, r) \/ CommentaryRead(s, r) \/ RefreshRead(s, r)
             \/ ReuseRead(s, r) \/ DraftRead(s, r) \/ SupersedeRead(s, r)
      PROVE  TypeInv'
  BY <1>2, <1>3 DEF ApproveRead, OverrideRead, UnapproveRead, WithdrawRead, CommentaryRead,
     RefreshRead, ReuseRead, DraftRead, SupersedeRead, SessionKind
<1>4. ASSUME row' \in [Reports -> Row], clock' \in Nat, Finish(s),
             UNCHANGED <<launched, run, mail, live, lapses>>
      PROVE  TypeInv'
  BY <1>4 DEF Finish, IdleSession, TypeOK, InHand, Session, SessionKind
<1>5. ASSUME row' \in [Reports -> Row], NEW kind \in SessionKind, Continue(s, kind),
             session[s].kind # "idle",
             UNCHANGED <<launched, run, mail, live, clock, lapses>>
      PROVE  TypeInv'
  BY <1>1, <1>5 DEF Continue, TypeOK, InHand, Session
<1>6. ASSUME ApproveWrite(s) PROVE TypeInv'
  <2>. DEFINE r == session[s].rep
              overriding == session[s].kind = "override"
  <2>1. r \in Reports /\ row[r] \in Row /\ overriding \in BOOLEAN
    BY <1>1, <1>6 DEF ApproveWrite
  <2>2. CASE Approvable(row[r])
    <3>1. row' = [row EXCEPT ![r] = Approved(row[r], clock + 1, overriding)]
      BY <1>6, <2>2 DEF ApproveWrite
    <3>2. clock' = clock + 1 /\ Finish(s) /\ UNCHANGED <<launched, run, mail, live, lapses>>
      BY <1>6, <2>2 DEF ApproveWrite
    <3>. HIDE DEF overriding
    <3>3. Approved(row[r], clock + 1, overriding) \in Row
      BY <1>1, <2>1, RowUpdates
    <3>4. row' \in [Reports -> Row] /\ clock' \in Nat
      BY <1>1, <2>1, <3>1, <3>2, <3>3
    <3>. QED
      BY <1>4, <3>2, <3>4
  <2>3. CASE ~Approvable(row[r])
    BY <1>1, <1>4, <1>6, <2>3 DEF ApproveWrite
  <2>. QED
    BY <2>2, <2>3
<1>7. ASSUME UnapproveWrite(s) PROVE TypeInv'
  <2>1. session[s].rep \in Reports /\ row[session[s].rep] \in Row
    BY <1>1, <1>7 DEF UnapproveWrite
  <2>2. row' \in [Reports -> Row]
    BY <1>1, <1>7, <2>1, RowUpdates DEF UnapproveWrite
  <2>. QED
    BY <1>1, <1>4, <1>7, <2>2 DEF UnapproveWrite
<1>8. ASSUME WithdrawWrite(s) PROVE TypeInv'
  <2>1. row' \in [Reports -> Row]
    BY <1>1, <1>8 DEF WithdrawWrite, Row
  <2>. QED
    BY <1>1, <1>4, <1>8, <2>1 DEF WithdrawWrite
<1>9. ASSUME CommentaryWrite(s) PROVE TypeInv'
  <2>1. row' \in [Reports -> Row]
    BY <1>1, <1>9 DEF CommentaryWrite, Row
  <2>. QED
    BY <1>1, <1>4, <1>9, <2>1 DEF CommentaryWrite
<1>10. ASSUME RefreshWrite(s) PROVE TypeInv'
  <2>0. session[s].rep \in Reports /\ row[session[s].rep] \in Row
    BY <1>1, <1>10 DEF RefreshWrite
  <2>1. ASSUME NEW c \in BOOLEAN, row' = [row EXCEPT ![session[s].rep].clear = c]
        PROVE  row' \in [Reports -> Row]
    BY <1>1, <2>0, <2>1 DEF Row
  <2>2. ASSUME row' = [row EXCEPT ![session[s].rep].content = @ + 1]
        PROVE  row' \in [Reports -> Row]
    BY <1>1, <2>0, <2>2 DEF Row
  <2>3. row' \in [Reports -> Row]
    BY <1>1, <1>10, <2>1, <2>2 DEF RefreshWrite
  <2>. QED
    BY <1>10, <2>3 DEF RefreshWrite, TypeOK, InHand
<1>11. ASSUME RefreshDone(s) PROVE TypeInv'
  BY <1>1, <1>4, <1>11 DEF RefreshDone
<1>12. ASSUME ReuseWrite(s) PROVE TypeInv'
  <2>1. row' \in [Reports -> Row]
    BY <1>1, <1>12 DEF ReuseWrite, Row
  <2>. QED
    BY <1>5, <1>12, <2>1 DEF ReuseWrite, SessionKind
<1>13. ASSUME QueueDraftRead(s) PROVE TypeInv'
  <2>1. CASE row[session[s].rep].withdrawn
    BY <1>1, <1>4, <1>13, <2>1 DEF QueueDraftRead
  <2>2. CASE ~row[session[s].rep].withdrawn
    BY <1>1, <1>5, <1>13, <2>2 DEF QueueDraftRead, SessionKind
  <2>. QED
    BY <2>1, <2>2
<1>14. ASSUME QueueFlagWrite(s) PROVE TypeInv'
  <2>0. session[s].rep \in Reports /\ (session[s].kind = "flagOn") \in BOOLEAN
    BY <1>1, <1>14 DEF QueueFlagWrite
  <2>1. row' \in [Reports -> Row]
    <3>. DEFINE flag == session[s].kind = "flagOn"
    <3>1. row' = [row EXCEPT ![session[s].rep].ready = flag]
      BY <1>14 DEF QueueFlagWrite
    <3>2. flag \in BOOLEAN
      OBVIOUS
    <3>. HIDE DEF flag
    <3>. QED
      BY <1>1, <2>0, <3>1, <3>2 DEF Row
  <2>. QED
    BY <1>1, <1>4, <1>14, <2>1 DEF QueueFlagWrite
<1>. QED
  BY <1>3, <1>6, <1>7, <1>8, <1>9, <1>10, <1>11, <1>12, <1>13, <1>14 DEF SessionStep

\* The run moves on to its next report.
LEMMA NextReportTyped ==
  ASSUME run \in Run, NEW r \in Reports, NEW red \in BOOLEAN, NextReport(r, red)
  PROVE  /\ run' \in Run
         /\ run'.pc = "next"
         /\ run'.mailed = run.mailed
         /\ run'.red = (run.red \/ red)
         /\ run'.todo = run.todo \ {r}
         /\ \A q \in run'.todo : run'.seen[q] = run.seen[q]
<1>1. NewRow(FALSE) \in Row
  BY DEF NewRow, Row
<1>2. [run.seen EXCEPT ![r] = NewRow(FALSE)] \in [Reports -> Row]
  BY <1>1 DEF Run
<1>3. \A q \in Reports \ {r} : [run.seen EXCEPT ![r] = NewRow(FALSE)][q] = run.seen[q]
  BY DEF Run
<1>. QED
  BY <1>2, <1>3 DEF NextReport, Run, RunPc

\* After its stamp the run flips a Launch's site or moves on.
LEMMA AfterStampTyped ==
  ASSUME run \in Run, NEW red \in BOOLEAN, run.rep \in Reports, AfterStamp(red)
  PROVE  /\ run' \in Run
         /\ run'.mailed = run.mailed \cup {run.rep}
         /\ run'.red = (run.red \/ red)
         /\ \/ /\ run.rep \in Launches
               /\ run'.pc = "flip" /\ run'.rep = run.rep
               /\ run'.todo = run.todo /\ run'.seen = run.seen
            \/ /\ run.rep \notin Launches
               /\ run'.pc = "next"
               /\ run'.todo = run.todo \ {run.rep}
               /\ \A q \in run'.todo : run'.seen[q] = run.seen[q]
<1>1. NewRow(FALSE) \in Row
  BY DEF NewRow, Row
<1>2. [run.seen EXCEPT ![run.rep] = NewRow(FALSE)] \in [Reports -> Row]
  BY <1>1 DEF Run
<1>3. \A q \in Reports \ {run.rep} :
         [run.seen EXCEPT ![run.rep] = NewRow(FALSE)][q] = run.seen[q]
  BY DEF Run
<1>4. CASE run.rep \in Launches
  <2>1. run' = [run EXCEPT !.pc = "flip", !.mailed = run.mailed \cup {run.rep},
                           !.red = @ \/ red]
    BY <1>4 DEF AfterStamp
  <2>. QED
    BY <1>4, <2>1 DEF Run, RunPc
<1>5. CASE run.rep \notin Launches
  <2>1. run' = [run EXCEPT !.pc = "next", !.rep = NoReport, !.gotId = 0,
                           !.todo = @ \ {run.rep}, !.seen[run.rep] = NewRow(FALSE),
                           !.mailed = run.mailed \cup {run.rep}, !.red = @ \/ red]
    BY <1>5 DEF AfterStamp
  <2>. QED
    BY <1>2, <1>3, <1>5, <2>1 DEF Run, RunPc
<1>. QED
  BY <1>4, <1>5

\* The email that leaves is one of a report and is remembered under its key.
LEMMA LeavesTyped ==
  ASSUME mail \in [Reports -> Seq(Nat)], live \subseteq LiveRecord,
         NEW r \in Reports, NEW content \in Nat, Leaves(r, content, r)
  PROVE  /\ mail' \in [Reports -> Seq(Nat)]
         /\ live' \subseteq LiveRecord
         /\ Len(mail'[r]) = Len(mail[r]) + 1
         /\ \A q \in Reports \ {r} : mail'[q] = mail[q]
<1>1. mail[r] \in Seq(Nat) /\ Append(mail[r], content) \in Seq(Nat)
  OBVIOUS
<1>2. Len(mail[r]) \in Nat /\ Len(Append(mail[r], content)) = Len(mail[r]) + 1
  BY <1>1
<1>3. mail' = [mail EXCEPT ![r] = Append(mail[r], content)]
  BY DEF Leaves
<1>4. live' = live \cup {[key |-> r, rep |-> r, id |-> Len(mail[r]) + 1]}
  BY DEF Leaves
<1>5. [key |-> r, rep |-> r, id |-> Len(mail[r]) + 1] \in LiveRecord
  BY <1>2 DEF LiveRecord
<1>. QED
  BY <1>1, <1>2, <1>3, <1>4, <1>5

LEMMA RunTyped ==
  ASSUME TypeInv, RunStep
  PROVE  TypeInv'
<1>. USE DEF TypeInv
<1>1. /\ row \in [Reports -> Row] /\ run \in Run
      /\ mail \in [Reports -> Seq(Nat)] /\ live \subseteq LiveRecord
      /\ Launches \subseteq Reports
      /\ run.pc \in {"claim", "send", "release", "stamp", "flip"} =>
            run.rep \in run.todo /\ run.rep \in Reports
  BY ReportSendAssumption DEF TypeOK, InHand, Run
<1>2. ASSUME run' \in Run, row' \in [Reports -> Row], launched' \subseteq Launches,
             run'.pc \in {"claim", "send", "release", "stamp", "flip"} => run'.rep \in run'.todo,
             run'.pc = "flip" => run'.rep \in Launches,
             mail' \in [Reports -> Seq(Nat)], live' \subseteq LiveRecord,
             UNCHANGED <<session, clock, lapses>>
      PROVE  TypeInv'
  BY <1>2 DEF TypeOK, InHand
<1>3. ASSUME ReadQueue PROVE TypeInv'
  <2>. DEFINE queue == {r \in Reports : InSendQueue(row[r])}
              seen == [r \in Reports |-> IF r \in queue THEN row[r] ELSE NewRow(FALSE)]
  <2>1. NewRow(FALSE) \in Row
    BY DEF NewRow, Row
  <2>2. seen \in [Reports -> Row]
    BY <1>1, <2>1
  <2>3. run' = [IdleRun EXCEPT !.pc = "unqueued", !.todo = queue, !.seen = seen]
    BY <1>3 DEF ReadQueue
  <2>. HIDE DEF seen
  <2>4. run' \in Run /\ run'.pc = "unqueued"
    BY <2>2, <2>3 DEF IdleRun, Run, RunPc
  <2>. QED
    BY <1>1, <1>2, <1>3, <2>4 DEF ReadQueue, TypeOK
<1>4. ASSUME ReadApprovedUnqueued PROVE TypeInv'
  <2>1. PICK failed \in BOOLEAN :
           run' = [run EXCEPT
                     !.pc = "next",
                     !.red = @ \/ failed \/ \E r \in Reports : ApprovedUnqueued(row[r])]
    BY <1>4 DEF ReadApprovedUnqueued
  <2>. DEFINE red == failed \/ \E r \in Reports : ApprovedUnqueued(row[r])
  <2>2. red \in BOOLEAN
    OBVIOUS
  <2>3. run' = [run EXCEPT !.pc = "next", !.red = @ \/ red]
    BY <2>1
  <2>. HIDE DEF red
  <2>4. run' \in Run /\ run'.pc = "next"
    BY <1>1, <2>2, <2>3 DEF Run, RunPc
  <2>. QED
    BY <1>1, <1>2, <1>4, <2>4 DEF ReadApprovedUnqueued, TypeOK
<1>5. ASSUME NEW r \in Reports, BeginSend(r) PROVE TypeInv'
  <2>1. run' \in Run /\ run'.rep \in run'.todo
    BY <1>1, <1>5 DEF BeginSend, Run, RunPc
  <2>. QED
    BY <1>1, <1>2, <1>5, <2>1 DEF BeginSend, TypeOK
<1>6. ASSUME NEW r \in Reports, NEW red \in BOOLEAN, NextReport(r, red),
             row' \in [Reports -> Row], launched' \subseteq Launches,
             mail' \in [Reports -> Seq(Nat)], live' \subseteq LiveRecord,
             UNCHANGED <<session, clock, lapses>>
      PROVE  TypeInv'
  BY <1>1, <1>2, <1>6, NextReportTyped
<1>7. ASSUME NEW r \in Reports, RefuseSend(r) PROVE TypeInv'
  BY <1>1, <1>6, <1>7 DEF RefuseSend, TypeOK
<1>8. /\ [row EXCEPT ![run.rep].claimed = TRUE] \in [Reports -> Row]
      /\ [row EXCEPT ![run.rep].claimed = FALSE] \in [Reports -> Row]
  BY <1>1 DEF Row
<1>9. ASSUME ClaimReportForSend PROVE TypeInv'
  <2>1. CASE Claimable(row[run.rep], run.seen[run.rep])
    <3>1. run' \in Run /\ run'.rep \in run'.todo /\ run'.pc = "send"
      BY <1>1, <1>9, <2>1 DEF ClaimReportForSend, Run, RunPc
    <3>. QED
      BY <1>1, <1>2, <1>8, <1>9, <2>1, <3>1 DEF ClaimReportForSend, TypeOK
  <2>2. CASE ~Claimable(row[run.rep], run.seen[run.rep])
    BY <1>1, <1>6, <1>9, <2>2 DEF ClaimReportForSend, TypeOK
  <2>. QED
    BY <2>1, <2>2
<1>10. ASSUME ClaimFails PROVE TypeInv'
  BY <1>1, <1>6, <1>8, <1>10 DEF ClaimFails, TypeOK
<1>11. ASSUME SendAccepted PROVE TypeInv'
  <2>1. run.rep \in Reports /\ run.seen[run.rep].content \in Nat /\ run.rep \in run.todo
    BY <1>1, <1>11 DEF SendAccepted, Run, Row
  <2>2. mail' \in [Reports -> Seq(Nat)] /\ live' \subseteq LiveRecord
    BY <1>1, <1>11, <2>1, LeavesTyped DEF SendAccepted, RunKey, IdempotencyKey
  <2>3. Len(mail[run.rep]) + 1 \in Nat
    BY <1>1, <2>1
  <2>4. run' \in Run /\ run'.rep \in run'.todo
    BY <1>1, <1>11, <2>1, <2>3 DEF SendAccepted, Run, RunPc
  <2>. QED
    BY <1>1, <1>2, <1>11, <2>2, <2>4 DEF SendAccepted, TypeOK
<1>12. ASSUME SendDeduplicated PROVE TypeInv'
  <2>1. PICK e \in live : run' = [run EXCEPT !.pc = "stamp", !.gotId = e.id]
    BY <1>12 DEF SendDeduplicated, LiveFor
  <2>2. e.id \in Nat
    BY <1>1, <2>1 DEF LiveRecord
  <2>3. run' \in Run /\ run'.rep \in run'.todo
    BY <1>1, <1>12, <2>1, <2>2 DEF SendDeduplicated, Run, RunPc
  <2>. QED
    BY <1>1, <1>2, <1>12, <2>3 DEF SendDeduplicated, TypeOK
<1>13. ASSUME SendConflict PROVE TypeInv'
  <2>1. run' \in Run /\ run'.rep \in run'.todo
    BY <1>1, <1>13 DEF SendConflict, Run, RunPc
  <2>. QED
    BY <1>1, <1>2, <1>13, <2>1 DEF SendConflict, TypeOK
<1>14. ASSUME SendAmbiguous PROVE TypeInv'
  <2>1. run.rep \in Reports /\ run.seen[run.rep].content \in Nat
    BY <1>1, <1>14 DEF SendAmbiguous, Run, Row
  <2>2. mail' \in [Reports -> Seq(Nat)] /\ live' \subseteq LiveRecord
    BY <1>1, <1>14, <2>1, LeavesTyped DEF SendAmbiguous, RunKey, IdempotencyKey
  <2>. QED
    BY <1>1, <1>6, <1>14, <2>1, <2>2 DEF SendAmbiguous, TypeOK
<1>15. ASSUME SendRejected PROVE TypeInv'
  <2>1. run' \in Run /\ run'.rep \in run'.todo
    BY <1>1, <1>15 DEF SendRejected, Run, RunPc
  <2>. QED
    BY <1>1, <1>2, <1>15, <2>1 DEF SendRejected, TypeOK
<1>16. ASSUME ReleaseSendClaim PROVE TypeInv'
  BY <1>1, <1>6, <1>8, <1>16 DEF ReleaseSendClaim, TypeOK
<1>17. ASSUME NEW red \in BOOLEAN, AfterStamp(red), run.pc = "stamp",
              row' \in [Reports -> Row], UNCHANGED <<launched, session, mail, live, clock, lapses>>
       PROVE  TypeInv'
  <2>1. /\ run' \in Run
        /\ \/ run'.pc = "flip" /\ run'.rep \in run'.todo /\ run'.rep \in Launches
           \/ run'.pc = "next"
    BY <1>1, <1>17, AfterStampTyped
  <2>. QED
    BY <1>1, <1>2, <1>17, <2>1 DEF TypeOK
<1>18. ASSUME StampSent PROVE TypeInv'
  <2>1. run.rep \in Reports /\ row[run.rep] \in Row /\ run.gotId \in Nat
    BY <1>1, <1>18 DEF StampSent, Run
  <2>2. row' = [row EXCEPT ![run.rep] = Stamped(row[run.rep], run.gotId)]
    BY <1>18 DEF StampSent
  <2>3. Stamped(row[run.rep], run.gotId) \in Row
    BY <2>1, RowUpdates
  <2>4. row' \in [Reports -> Row]
    BY <1>1, <2>1, <2>2, <2>3
  <2>. QED
    BY <1>17, <1>18, <2>4 DEF StampSent
<1>19. ASSUME StampFails PROVE TypeInv'
  BY <1>1, <1>17, <1>19 DEF StampFails
<1>20. ASSUME LaunchFlip PROVE TypeInv'
  <2>1. run.rep \in Launches /\ run.rep \in Reports
    BY <1>1, <1>20 DEF LaunchFlip, InHand
  <2>. QED
    BY <1>1, <1>6, <1>20, <2>1 DEF LaunchFlip, TypeOK
<1>21. ASSUME EndRun PROVE TypeInv'
  <2>1. run' \in Run /\ run'.pc = "done"
    BY <1>1, <1>21 DEF EndRun, Run, RunPc
  <2>. QED
    BY <1>1, <1>2, <1>21, <2>1 DEF EndRun, TypeOK
<1>22. ASSUME RunCrash PROVE TypeInv'
  <2>1. IdleRun \in Run /\ IdleRun.pc = "idle"
    BY DEF IdleRun, NothingSeen, NewRow, Row, Run, RunPc
  <2>. QED
    BY <1>1, <1>2, <1>22, <2>1 DEF RunCrash, TypeOK
<1>. QED
  BY <1>3, <1>4, <1>5, <1>7, <1>9, <1>10, <1>11, <1>12, <1>13, <1>14, <1>15, <1>16,
     <1>18, <1>19, <1>20, <1>21, <1>22 DEF RunStep, RunProgress
\* A Resend key that runs out, and a step of none of the parts.
LEMMA OtherTyped ==
  ASSUME TypeInv, (\E e \in live : KeyLapses(e)) \/ UNCHANGED vars
  PROVE  TypeInv'
<1>1. ASSUME NEW e \in live, KeyLapses(e) PROVE TypeInv'
  BY <1>1 DEF KeyLapses, TypeInv, TypeOK, InHand
<1>2. ASSUME UNCHANGED vars PROVE TypeInv'
  BY <1>2 DEF vars, TypeInv, TypeOK, InHand
<1>. QED
  BY <1>1, <1>2

LEMMA TypeInvInductive == TypeInv /\ [Next]_vars => TypeInv'
BY SessionTyped, RunTyped, OtherTyped DEF Next

\* Every reachable state has its type, and a step that works on a report has
\* one in hand (the rows, the run's record, the sessions' and Resend's).
THEOREM TypeCorrect == Spec => []TypeOK
<1>1. TypeInv => TypeOK
  BY DEF TypeInv
<1>. QED
  BY InitTyped, TypeInvInductive, <1>1, PTL DEF Spec

-----------------------------------------------------------------------------
(* What anything but the run may do to a row.  Every dashboard and drafting  *)
(* write is such a move, whenever it lands; the run's assumptions survive it.*)

OutsideMove(w, x) ==
    /\ x.sent = w.sent
    /\ x.messageId = w.messageId
    /\ x.claimed = w.claimed
    /\ x.override => x.approved
    /\ x.withdrawn => ~x.approved
    /\ x.withdrawn # w.withdrawn => x.withdrawn /\ ~w.approved
    /\ x.approved <=> x.approvedAt > 0
    /\ x.approvedAt \in {0, w.approvedAt, clock + 1}
    /\ x.approvedAt <= clock'
    /\ w.claimed => x.approved
    /\ w.claimed \/ (w.approvedAt > 0 /\ x.approvedAt = w.approvedAt) =>
          x.clear = w.clear /\ (w.override => x.override)
    /\ w.sent \/ w.withdrawn =>
          /\ x.approved = w.approved
          /\ x.approvedAt = w.approvedAt
          /\ x.override = w.override
          /\ x.withdrawn = w.withdrawn

\* One row moves, the others and the run's world stay.
OutsideStep ==
    /\ \E r \in Reports :
          /\ OutsideMove(row[r], row'[r])
          /\ \A q \in Reports \ {r} : row'[q] = row[q]
    /\ clock' \in {clock, clock + 1}
    /\ UNCHANGED <<launched, run, mail, live>>

\* RowsConsistent, of one row.
ConsistentRow(w) ==
    /\ w.override => w.approved
    /\ w.claimed => w.approved
    /\ w.sent => w.approved
    /\ w.withdrawn => ~w.approved
    /\ w.approvedAt <= clock
    /\ w.approved <=> w.approvedAt > 0

LEMMA MoveOfApprove ==
  ASSUME NEW w \in Row, ConsistentRow(w), clock \in Nat, clock' = clock + 1,
         NEW b \in BOOLEAN, Approvable(w)
  PROVE  OutsideMove(w, Approved(w, clock + 1, b))
<1>. DEFINE x == Approved(w, clock + 1, b)
<1>1. /\ x.approved = TRUE /\ x.approvedAt = clock + 1 /\ x.override = (w.override \/ b)
      /\ x.sent = w.sent /\ x.messageId = w.messageId /\ x.claimed = w.claimed
      /\ x.withdrawn = w.withdrawn /\ x.clear = w.clear
  BY DEF Approved, Row
<1>2. ~w.sent /\ ~w.withdrawn
  BY DEF Approvable
<1>3. w.approvedAt \in Nat /\ w.approvedAt <= clock
  BY DEF Row, ConsistentRow
<1>4. clock + 1 > 0 /\ clock + 1 <= clock' /\ clock + 1 # w.approvedAt
  BY <1>3
<1>5. ~x.withdrawn
  BY <1>1, <1>2
<1>6. x.approved <=> x.approvedAt > 0
  BY <1>1, <1>4
<1>7. x.override => x.approved
  BY <1>1
<1>8. x.approvedAt \in {0, w.approvedAt, clock + 1} /\ x.approvedAt <= clock'
  BY <1>1, <1>4
<1>9. w.override => x.override
  BY <1>1
<1>. QED
  BY <1>1, <1>2, <1>4, <1>5, <1>6, <1>7, <1>8, <1>9 DEF OutsideMove

LEMMA MoveOfUnapprove ==
  ASSUME NEW w \in Row, ConsistentRow(w), clock \in Nat, clock' = clock, Unapprovable(w)
  PROVE  OutsideMove(w, Unapproved(w))
BY DEF OutsideMove, Unapproved, Unapprovable, ConsistentRow, Row

LEMMA MoveOfWithdraw ==
  ASSUME NEW w \in Row, ConsistentRow(w), clock \in Nat, clock' = clock, Withdrawable(w)
  PROVE  OutsideMove(w, [w EXCEPT !.withdrawn = TRUE])
BY DEF OutsideMove, Withdrawable, Approvable, ConsistentRow, Row

LEMMA MoveOfContent ==
  ASSUME NEW w \in Row, ConsistentRow(w), clock \in Nat, clock' = clock, NEW n \in Nat
  PROVE  OutsideMove(w, [w EXCEPT !.content = n])
BY DEF OutsideMove, ConsistentRow, Row

LEMMA MoveOfEvidence ==
  ASSUME NEW w \in Row, ConsistentRow(w), clock \in Nat, clock' = clock, NEW c \in BOOLEAN,
         Refreshable(w)
  PROVE  OutsideMove(w, [w EXCEPT !.clear = c])
BY DEF OutsideMove, Refreshable, ConsistentRow, Row

LEMMA MoveOfFlag ==
  ASSUME NEW w \in Row, ConsistentRow(w), clock \in Nat, clock' = clock, NEW b \in BOOLEAN
  PROVE  OutsideMove(w, [w EXCEPT !.ready = b])
BY DEF OutsideMove, ConsistentRow, Row

LEMMA SessionMoves ==
  ASSUME TypeInv, RowsConsistent, NEW s \in Sessions, SessionStep(s)
  PROVE  OutsideStep \/ UNCHANGED <<row, launched, run, mail, live, clock>>
<1>. DEFINE rep == session[s].rep
            Same == UNCHANGED <<launched, run, mail, live>>
<1>1. /\ row \in [Reports -> Row] /\ clock \in Nat
      /\ session[s].kind # "idle" => rep \in Reports
      /\ \A r \in Reports : ConsistentRow(row[r])
  BY DEF TypeInv, TypeOK, InHand, RowsConsistent, ConsistentRow
<1>2. ASSUME NEW x, rep \in Reports, row' = [row EXCEPT ![rep] = x], OutsideMove(row[rep], x),
             clock' \in {clock, clock + 1}, Same
      PROVE  OutsideStep
  BY <1>1, <1>2 DEF OutsideStep
<1>3. CASE ApproveWrite(s)
  <2>. DEFINE b == session[s].kind = "override"
  <2>1. rep \in Reports /\ b \in BOOLEAN /\ Same
    BY <1>1, <1>3 DEF ApproveWrite
  <2>2. CASE Approvable(row[rep])
    <3>1. row' = [row EXCEPT ![rep] = Approved(row[rep], clock + 1, b)] /\ clock' = clock + 1
      BY <1>3, <2>2 DEF ApproveWrite
    <3>. HIDE DEF b
    <3>2. OutsideMove(row[rep], Approved(row[rep], clock + 1, b))
      BY <1>1, <2>1, <2>2, <3>1, MoveOfApprove
    <3>. QED
      BY <1>2, <2>1, <3>1, <3>2
  <2>3. CASE ~Approvable(row[rep])
    BY <1>3, <2>1, <2>3 DEF ApproveWrite
  <2>. QED
    BY <2>2, <2>3
<1>4. CASE UnapproveWrite(s)
  <2>1. rep \in Reports /\ Same /\ clock' = clock
    BY <1>1, <1>4 DEF UnapproveWrite
  <2>2. CASE Unapprovable(row[rep])
    <3>1. row' = [row EXCEPT ![rep] = Unapproved(row[rep])]
      BY <1>4, <2>2 DEF UnapproveWrite
    <3>2. OutsideMove(row[rep], Unapproved(row[rep]))
      BY <1>1, <2>1, <2>2, MoveOfUnapprove
    <3>. QED
      BY <1>2, <2>1, <3>1, <3>2
  <2>3. CASE ~Unapprovable(row[rep])
    BY <1>4, <2>1, <2>3 DEF UnapproveWrite
  <2>. QED
    BY <2>2, <2>3
<1>5. CASE WithdrawWrite(s)
  <2>1. rep \in Reports /\ Same /\ clock' = clock
    BY <1>1, <1>5 DEF WithdrawWrite
  <2>2. CASE Withdrawable(row[rep])
    <3>1. row' = [row EXCEPT ![rep] = [row[rep] EXCEPT !.withdrawn = TRUE]]
      BY <1>5, <2>2 DEF WithdrawWrite
    <3>2. OutsideMove(row[rep], [row[rep] EXCEPT !.withdrawn = TRUE])
      BY <1>1, <2>1, <2>2, MoveOfWithdraw
    <3>. QED
      BY <1>2, <2>1, <3>1, <3>2
  <2>3. CASE ~Withdrawable(row[rep])
    BY <1>5, <2>1, <2>3 DEF WithdrawWrite
  <2>. QED
    BY <2>2, <2>3
<1>6. ASSUME rep \in Reports, row' = [row EXCEPT ![rep].content = @ + 1], Same, clock' = clock
      PROVE  OutsideStep
  <2>1. row' = [row EXCEPT ![rep] = [row[rep] EXCEPT !.content = row[rep].content + 1]]
    BY <1>6
  <2>2. row[rep] \in Row /\ row[rep].content + 1 \in Nat
    BY <1>1, <1>6 DEF Row
  <2>3. OutsideMove(row[rep], [row[rep] EXCEPT !.content = row[rep].content + 1])
    BY <1>1, <1>6, <2>2, MoveOfContent
  <2>. QED
    BY <1>2, <1>6, <2>1, <2>3
<1>7. CASE CommentaryWrite(s) \/ ReuseWrite(s)
  BY <1>1, <1>6, <1>7 DEF CommentaryWrite, ReuseWrite
<1>8. CASE RefreshWrite(s)
  <2>1. rep \in Reports /\ Same /\ clock' = clock
    BY <1>1, <1>8 DEF RefreshWrite
  <2>2. ASSUME NEW c \in BOOLEAN, Refreshable(row[rep]), row' = [row EXCEPT ![rep].clear = c]
        PROVE  OutsideStep
    <3>1. row' = [row EXCEPT ![rep] = [row[rep] EXCEPT !.clear = c]]
      BY <2>2
    <3>2. OutsideMove(row[rep], [row[rep] EXCEPT !.clear = c])
      BY <1>1, <2>1, <2>2, MoveOfEvidence
    <3>. QED
      BY <1>2, <2>1, <3>1, <3>2
  <2>3. CASE Refreshable(row[rep])
    BY <1>6, <1>8, <2>1, <2>2, <2>3 DEF RefreshWrite
  <2>4. CASE ~Refreshable(row[rep])
    BY <1>8, <2>1, <2>4 DEF RefreshWrite
  <2>. QED
    BY <2>3, <2>4
<1>9. CASE QueueFlagWrite(s)
  <2>. DEFINE b == session[s].kind = "flagOn"
  <2>1. rep \in Reports /\ b \in BOOLEAN /\ Same /\ clock' = clock
    BY <1>1, <1>9 DEF QueueFlagWrite
  <2>2. row' = [row EXCEPT ![rep] = [row[rep] EXCEPT !.ready = b]]
    BY <1>9 DEF QueueFlagWrite
  <2>. HIDE DEF b
  <2>3. OutsideMove(row[rep], [row[rep] EXCEPT !.ready = b])
    BY <1>1, <2>1, MoveOfFlag
  <2>. QED
    BY <1>2, <2>1, <2>2, <2>3
<1>10. ASSUME NEW r \in Reports, NEW kind, Begin(s, kind, r)
       PROVE  UNCHANGED <<row, launched, run, mail, live, clock>>
  BY <1>10 DEF Begin
<1>11. ASSUME NEW r \in Reports,
              \/ ApproveRead(s, r) \/ OverrideRead(s, r) \/ UnapproveRead(s, r)
              \/ WithdrawRead(s, r) \/ CommentaryRead(s, r) \/ RefreshRead(s, r)
              \/ ReuseRead(s, r) \/ DraftRead(s, r) \/ SupersedeRead(s, r)
       PROVE  UNCHANGED <<row, launched, run, mail, live, clock>>
  BY <1>10, <1>11 DEF ApproveRead, OverrideRead, UnapproveRead, WithdrawRead, CommentaryRead,
     RefreshRead, ReuseRead, DraftRead, SupersedeRead
<1>12. CASE RefreshDone(s) \/ QueueDraftRead(s)
  BY <1>12 DEF RefreshDone, QueueDraftRead
<1>. QED
  BY <1>3, <1>4, <1>5, <1>7, <1>8, <1>9, <1>11, <1>12 DEF SessionStep

-----------------------------------------------------------------------------
(* The invariant *)

LEMMA InitInvariant == Init => IInv
<1>1. SUFFICES ASSUME Init PROVE IInv
  OBVIOUS
<1>2. TypeInv
  BY <1>1, InitTyped
<1>3. \A r \in Reports : row[r] = NewRow(TRUE) \/ row[r] = NewRow(FALSE)
  BY <1>1 DEF Init
<1>4. RowsConsistent
  <2>1. ASSUME NEW r \in Reports
        PROVE  /\ ~row[r].override /\ ~row[r].claimed /\ ~row[r].sent
               /\ ~row[r].withdrawn /\ ~row[r].approved
               /\ row[r].approvedAt = 0 /\ row[r].messageId = 0
    BY <1>3 DEF NewRow
  <2>2. clock = 0
    BY <1>1 DEF Init
  <2>3. ASSUME NEW r \in Reports
        PROVE  row[r].approvedAt <= clock /\ ~(row[r].approvedAt > 0) /\ ~(row[r].messageId # 0)
    BY <2>1, <2>2
  <2>. QED
    BY <2>1, <2>3 DEF RowsConsistent
<1>5. QueueReadHolds /\ ClaimHolds /\ LiveRecordsHold /\ GreenSoFar
  BY <1>1 DEF Init, IdleRun, QueueReadHolds, ClaimHolds, LiveRecordsHold, GreenSoFar
<1>. QED
  BY <1>2, <1>4, <1>5 DEF IInv, TypeInv, ClaimInvariant

\* Whatever the others do to the rows, the run's assumptions hold after it.
LEMMA OutsideKeeps ==
  ASSUME IInv, TypeInv', OutsideStep
  PROVE  ClaimInvariant'
<1>1. PICK m \in Reports :
         OutsideMove(row[m], row'[m]) /\ \A q \in Reports \ {m} : row'[q] = row[q]
  BY DEF OutsideStep
<1>2. /\ clock' \in {clock, clock + 1} /\ clock \in Nat /\ clock' \in Nat
      /\ launched' = launched /\ run' = run /\ mail' = mail /\ live' = live
  BY DEF OutsideStep, IInv, TypeOK
<1>3. /\ row \in [Reports -> Row] /\ row' \in [Reports -> Row]
      /\ run.todo \subseteq Reports /\ run.mailed \subseteq Reports
      /\ run.seen \in [Reports -> Row]
  BY DEF IInv, TypeInv, TypeOK, Run
<1>4. InHand'
  BY DEF TypeInv
<1>5. RowsConsistent'
  <2>1. SUFFICES ASSUME NEW r \in Reports
                 PROVE  /\ row'[r].override => row'[r].approved
                        /\ row'[r].claimed => row'[r].approved
                        /\ row'[r].sent => row'[r].approved /\ mail[r] # <<>>
                        /\ row'[r].withdrawn => ~row'[r].approved
                        /\ row'[r].approvedAt <= clock'
                        /\ row'[r].approved <=> row'[r].approvedAt > 0
                        /\ row'[r].messageId # 0 =>
                              row'[r].sent /\ row'[r].messageId <= Len(mail[r])
    BY <1>2 DEF RowsConsistent
  <2>2. /\ row[r].sent => row[r].approved /\ mail[r] # <<>>
        /\ row[r].messageId # 0 => row[r].sent /\ row[r].messageId <= Len(mail[r])
        /\ row[r].override => row[r].approved
        /\ row[r].claimed => row[r].approved
        /\ row[r].withdrawn => ~row[r].approved
        /\ row[r].approvedAt <= clock
        /\ row[r].approved <=> row[r].approvedAt > 0
    BY DEF IInv, ClaimInvariant, RowsConsistent
  <2>3. CASE r = m
    BY <1>1, <2>2, <2>3 DEF OutsideMove
  <2>4. CASE r # m
    <3>1. row'[r] = row[r]
      BY <1>1, <2>4
    <3>2. row[r].approvedAt \in Nat
      BY <1>3 DEF Row
    <3>. QED
      BY <1>2, <2>2, <3>1, <3>2
  <2>. QED
    BY <2>3, <2>4
<1>6. QueueReadHolds'
  <2>1. SUFFICES ASSUME NEW r \in run.todo
                 PROVE  /\ run.seen[r].approvedAt \in 1..clock'
                        /\ row'[r].approvedAt = run.seen[r].approvedAt =>
                              /\ row'[r].clear = run.seen[r].clear
                              /\ run.seen[r].override => row'[r].override
    BY <1>2 DEF QueueReadHolds
  <2>2. /\ run.seen[r].approvedAt \in 1..clock
        /\ row[r].approvedAt = run.seen[r].approvedAt =>
              /\ row[r].clear = run.seen[r].clear
              /\ run.seen[r].override => row[r].override
    BY DEF IInv, ClaimInvariant, QueueReadHolds
  <2>3. run.seen[r].approvedAt \in 1..clock'
    BY <1>2, <2>2
  <2>4. CASE r = m
    <3>1. OutsideMove(row[r], row'[r])
      BY <1>1, <2>4
    <3>2. SUFFICES ASSUME row'[r].approvedAt = run.seen[r].approvedAt
                   PROVE  /\ row'[r].clear = run.seen[r].clear
                          /\ run.seen[r].override => row'[r].override
      BY <2>3
    <3>3. row[r].approvedAt = run.seen[r].approvedAt /\ row[r].approvedAt > 0
      BY <1>2, <2>2, <3>1, <3>2 DEF OutsideMove
    <3>. QED
      BY <2>2, <3>1, <3>2, <3>3 DEF OutsideMove
  <2>5. CASE r # m
    BY <1>1, <1>3, <2>2, <2>3, <2>5
  <2>. QED
    BY <2>4, <2>5
<1>7. ClaimHolds'
  <2>1. run.pc \in {"send", "stamp"} => run.rep \in Reports
    BY <1>3 DEF IInv, ClaimInvariant, InHand
  <2>2. ClaimHolds
    BY DEF IInv, ClaimInvariant
  <2>3. ASSUME run.pc \in {"send", "stamp"}
        PROVE  /\ row'[run.rep].claimed
               /\ ~row'[run.rep].sent
               /\ PassesHealthGate(row'[run.rep])
    BY <1>1, <2>1, <2>2, <2>3 DEF ClaimHolds, OutsideMove, PassesHealthGate
  <2>. QED
    BY <1>2, <2>2, <2>3 DEF ClaimHolds, PassesHealthGate
<1>8. LiveRecordsHold'
  BY <1>2 DEF IInv, ClaimInvariant, LiveRecordsHold
<1>9. GreenSoFar'
  <2>1. \A r \in Reports : row[r].sent => row'[r].sent
    BY <1>1 DEF OutsideMove
  <2>. QED
    BY <1>2, <1>3, <2>1 DEF IInv, ClaimInvariant, GreenSoFar
<1>. QED
  BY <1>4, <1>5, <1>6, <1>7, <1>8, <1>9 DEF ClaimInvariant

\* What the run does to a row: it claims, releases or stamps it.
RunMove(w, x, emails) ==
    /\ x.approved = w.approved
    /\ x.approvedAt = w.approvedAt
    /\ x.override = w.override
    /\ x.clear = w.clear
    /\ x.withdrawn = w.withdrawn
    /\ x.claimed => w.approved
    /\ x.claimed # w.claimed => ~w.sent /\ ~w.withdrawn
    /\ \/ x.sent = w.sent /\ x.messageId = w.messageId
       \/ /\ w.approved /\ ~w.sent /\ emails # <<>> /\ x.sent
          /\ x.messageId = w.messageId \/ x.messageId <= Len(emails)

RunRows == \A r \in Reports : RunMove(row[r], row'[r], mail[r])

LEMMA RunMoves ==
  ASSUME IInv, RunStep
  PROVE  RunRows /\ clock' = clock
<1>1. /\ row \in [Reports -> Row] /\ run \in Run
      /\ \A r \in Reports : row[r].claimed => row[r].approved
      /\ run.pc \in {"claim", "send", "release", "stamp", "flip"} => run.rep \in Reports
  BY DEF IInv, TypeOK, Run, ClaimInvariant, InHand, RowsConsistent
<1>2. clock' = clock
  BY DEF RunStep, RunProgress, ReadQueue, ReadApprovedUnqueued, BeginSend, RefuseSend,
     ClaimReportForSend, ClaimFails, SendAccepted, SendDeduplicated, SendConflict,
     SendAmbiguous, SendRejected, ReleaseSendClaim, StampSent, StampFails, LaunchFlip,
     EndRun, RunCrash
<1>3. ASSUME row' = row PROVE RunRows
  BY <1>1, <1>3 DEF RunRows, RunMove
<1>4. ASSUME run.rep \in Reports, Claimable(row[run.rep], run.seen[run.rep]),
             row' = [row EXCEPT ![run.rep].claimed = TRUE]
      PROVE  RunRows
  BY <1>1, <1>4 DEF RunRows, RunMove, Claimable, InSendQueue, Row
<1>5. ASSUME run.rep \in Reports, ~row[run.rep].sent,
             row' = [row EXCEPT ![run.rep].claimed = FALSE]
      PROVE  RunRows
  <2>1. row[run.rep].withdrawn => ~row[run.rep].claimed
    BY <1>5 DEF IInv, ClaimInvariant, RowsConsistent
  <2>2. row[run.rep] \in Row
    BY <1>1, <1>5
  <2>3. /\ \A r \in Reports \ {run.rep} : row'[r] = row[r]
        /\ row'[run.rep] = [row[run.rep] EXCEPT !.claimed = FALSE]
    BY <1>1, <1>5
  <2>4. RunMove(row[run.rep], row'[run.rep], mail[run.rep])
    <3>. DEFINE w == row[run.rep]
                x == row'[run.rep]
    <3>1. /\ x.claimed = FALSE
          /\ x.approved = w.approved /\ x.approvedAt = w.approvedAt
          /\ x.override = w.override /\ x.clear = w.clear /\ x.withdrawn = w.withdrawn
          /\ x.sent = w.sent /\ x.messageId = w.messageId
      BY <2>2, <2>3 DEF Row
    <3>2. x.claimed # w.claimed => w.claimed
      BY <2>2, <3>1 DEF Row
    <3>3. x.claimed # w.claimed => ~w.sent /\ ~w.withdrawn
      BY <1>5, <2>1, <3>2
    <3>. QED
      BY <3>1, <3>3 DEF RunMove
  <2>. QED
    BY <1>1, <2>3, <2>4 DEF RunRows, RunMove
<1>6. ASSUME StampSent PROVE RunRows
  <2>1. run.rep \in Reports /\ row[run.rep] \in Row /\ run.gotId \in Nat
    BY <1>1, <1>6 DEF StampSent, Run
  <2>2. /\ row[run.rep].approved /\ ~row[run.rep].sent
        /\ mail[run.rep] # <<>> /\ run.gotId <= Len(mail[run.rep])
    BY <1>1, <1>6, <2>1 DEF StampSent, IInv, ClaimInvariant, ClaimHolds
  <2>3. row' = [row EXCEPT ![run.rep] = Stamped(row[run.rep], run.gotId)]
    BY <1>6 DEF StampSent
  <2>4. RunMove(row[run.rep], Stamped(row[run.rep], run.gotId), mail[run.rep])
    BY <1>1, <2>1, <2>2 DEF RunMove, Stamped, Row
  <2>. QED
    BY <1>1, <2>1, <2>3, <2>4 DEF RunRows, RunMove
<1>7. CASE ClaimReportForSend \/ ClaimFails
  BY <1>1, <1>3, <1>4, <1>7 DEF ClaimReportForSend, ClaimFails
<1>8. CASE ReleaseSendClaim
  BY <1>1, <1>3, <1>5, <1>8 DEF ReleaseSendClaim
<1>9. CASE ~(ClaimReportForSend \/ ClaimFails \/ ReleaseSendClaim \/ StampSent)
  BY <1>3, <1>9 DEF RunStep, RunProgress, ReadQueue, ReadApprovedUnqueued, BeginSend,
     RefuseSend, SendAccepted, SendDeduplicated, SendConflict, SendAmbiguous, SendRejected,
     StampFails, LaunchFlip, EndRun, RunCrash
<1>. QED
  BY <1>2, <1>6, <1>7, <1>8, <1>9

\* Emails only ever leave, and every record Resend makes is of one that left.
LEMMA RunMail ==
  ASSUME IInv, RunStep
  PROVE  /\ \A r \in Reports :
               /\ Len(mail'[r]) >= Len(mail[r])
               /\ mail[r] # <<>> => mail'[r] # <<>>
         /\ LiveRecordsHold'
         /\ SendAccepted => mail'[run.rep] # <<>> /\ Len(mail'[run.rep]) = Len(mail[run.rep]) + 1
<1>1. /\ run \in Run /\ mail \in [Reports -> Seq(Nat)] /\ live \subseteq LiveRecord
      /\ run.pc = "send" => run.rep \in Reports /\ run.seen[run.rep].content \in Nat
      /\ LiveRecordsHold
  BY DEF IInv, TypeOK, Run, Row, ClaimInvariant, InHand
<1>2. ASSUME UNCHANGED <<mail, live>>
      PROVE  /\ \A r \in Reports :
                   /\ Len(mail'[r]) >= Len(mail[r])
                   /\ mail[r] # <<>> => mail'[r] # <<>>
             /\ LiveRecordsHold'
  <2>1. \A r \in Reports : Len(mail[r]) \in Nat
    BY <1>1
  <2>. QED
    BY <1>1, <1>2, <2>1 DEF LiveRecordsHold
<1>3. ASSUME run.rep \in Reports, run.seen[run.rep].content \in Nat,
             Leaves(run.rep, run.seen[run.rep].content, RunKey)
      PROVE  /\ \A r \in Reports :
                   /\ Len(mail'[r]) >= Len(mail[r])
                   /\ mail[r] # <<>> => mail'[r] # <<>>
             /\ LiveRecordsHold'
             /\ mail'[run.rep] # <<>> /\ Len(mail'[run.rep]) = Len(mail[run.rep]) + 1
  <2>. DEFINE m == run.rep
  <2>1. Leaves(m, run.seen[m].content, m)
    BY <1>3 DEF RunKey, IdempotencyKey
  <2>2. /\ mail' \in [Reports -> Seq(Nat)]
        /\ Len(mail'[m]) = Len(mail[m]) + 1
        /\ \A q \in Reports \ {m} : mail'[q] = mail[q]
    BY <1>1, <1>3, <2>1, LeavesTyped
  <2>3. \A r \in Reports : Len(mail[r]) \in Nat /\ Len(mail'[r]) \in Nat
    BY <1>1, <2>2
  <2>4. mail'[m] # <<>>
    BY <1>3, <2>2, <2>3
  <2>5. \A r \in Reports : Len(mail'[r]) >= Len(mail[r])
    BY <2>2, <2>3
  <2>6. live' = live \cup {[key |-> m, rep |-> m, id |-> Len(mail[m]) + 1]}
    BY <2>1 DEF Leaves
  <2>7. ASSUME NEW e \in live' PROVE e.key = e.rep /\ e.id \in 1..Len(mail'[e.rep])
    <3>1. CASE e \in live
      <4>1. e.rep \in Reports /\ e.key = e.rep /\ e.id \in 1..Len(mail[e.rep])
        BY <1>1, <3>1 DEF LiveRecordsHold, LiveRecord
      <4>. QED
        BY <2>3, <2>5, <4>1
    <3>2. CASE e = [key |-> m, rep |-> m, id |-> Len(mail[m]) + 1]
      BY <1>3, <2>2, <2>3, <3>2
    <3>. QED
      BY <2>6, <3>1, <3>2
  <2>8. LiveRecordsHold'
    BY <2>7 DEF LiveRecordsHold
  <2>. QED
    BY <2>2, <2>4, <2>5, <2>8
<1>4. CASE SendAccepted
  BY <1>1, <1>3, <1>4 DEF SendAccepted
<1>5. CASE SendAmbiguous
  BY <1>1, <1>2, <1>3, <1>5 DEF SendAmbiguous, SendAccepted
<1>6. CASE ~(SendAccepted \/ SendAmbiguous)
  BY <1>2, <1>6 DEF RunStep, RunProgress, ReadQueue, ReadApprovedUnqueued, BeginSend,
     RefuseSend, ClaimReportForSend, ClaimFails, SendDeduplicated, SendConflict, SendRejected,
     ReleaseSendClaim, StampSent, StampFails, LaunchFlip, EndRun, RunCrash
<1>. QED
  BY <1>4, <1>5, <1>6

LEMMA RunRowsConsistent ==
  ASSUME IInv, RunStep
  PROVE  RowsConsistent'
<1>1. RunRows /\ clock' = clock
  BY RunMoves
<1>2. SUFFICES ASSUME NEW r \in Reports
               PROVE  /\ row'[r].override => row'[r].approved
                      /\ row'[r].claimed => row'[r].approved
                      /\ row'[r].sent => row'[r].approved /\ mail'[r] # <<>>
                      /\ row'[r].withdrawn => ~row'[r].approved
                      /\ row'[r].approvedAt <= clock'
                      /\ row'[r].approved <=> row'[r].approvedAt > 0
                      /\ row'[r].messageId # 0 =>
                            row'[r].sent /\ row'[r].messageId <= Len(mail'[r])
  BY DEF RowsConsistent
<1>3. /\ row[r].sent => row[r].approved /\ mail[r] # <<>>
      /\ row[r].messageId # 0 => row[r].sent /\ row[r].messageId <= Len(mail[r])
      /\ row[r].override => row[r].approved
      /\ row[r].withdrawn => ~row[r].approved
      /\ row[r].approvedAt <= clock
      /\ row[r].approved <=> row[r].approvedAt > 0
  BY DEF IInv, ClaimInvariant, RowsConsistent
<1>4. RunMove(row[r], row'[r], mail[r])
  BY <1>1 DEF RunRows
<1>5. Len(mail'[r]) >= Len(mail[r]) /\ (mail[r] # <<>> => mail'[r] # <<>>)
  BY RunMail
<1>6. Len(mail[r]) \in Nat /\ Len(mail'[r]) \in Nat /\ row'[r].messageId \in Nat
  <2>1. TypeInv'
    BY RunTyped DEF IInv, ClaimInvariant, TypeInv
  <2>. QED
    BY <2>1 DEF IInv, TypeInv, TypeOK, Row
<1>7. row'[r].sent => row'[r].approved /\ mail'[r] # <<>>
  BY <1>3, <1>4, <1>5 DEF RunMove
<1>8. row'[r].messageId # 0 => row'[r].sent /\ row'[r].messageId <= Len(mail'[r])
  <2>1. ASSUME row'[r].messageId # 0 PROVE row'[r].sent /\ row'[r].messageId <= Len(mail[r])
    BY <1>3, <1>4, <2>1 DEF RunMove
  <2>. QED
    BY <1>5, <1>6, <2>1
<1>. QED
  BY <1>1, <1>3, <1>4, <1>7, <1>8 DEF RunMove

LEMMA RunQueueReadHolds ==
  ASSUME IInv, RunStep
  PROVE  QueueReadHolds'
<1>1. RunRows /\ clock' = clock
  BY RunMoves
<1>2. /\ run \in Run /\ row \in [Reports -> Row] /\ clock \in Nat
      /\ run.pc \in {"claim", "send", "release", "stamp", "flip"} => run.rep \in Reports
      /\ QueueReadHolds
  BY DEF IInv, TypeOK, Run, ClaimInvariant, InHand
<1>3. ASSUME run'.todo \subseteq run.todo,
             \A r \in run'.todo : run'.seen[r] = run.seen[r]
      PROVE  QueueReadHolds'
  <2>1. run.todo \subseteq Reports
    BY <1>2 DEF Run
  <2>. QED
    BY <1>1, <1>2, <1>3, <2>1 DEF QueueReadHolds, RunRows, RunMove
<1>4. ASSUME ReadQueue PROVE QueueReadHolds'
  <2>. DEFINE queue == {r \in Reports : InSendQueue(row[r])}
              seen == [r \in Reports |-> IF r \in queue THEN row[r] ELSE NewRow(FALSE)]
  <2>1. run' = [IdleRun EXCEPT !.pc = "unqueued", !.todo = queue, !.seen = seen] /\ row' = row
    BY <1>4 DEF ReadQueue
  <2>2. run'.todo = queue /\ run'.seen = seen
    BY <2>1 DEF IdleRun
  <2>3. ASSUME NEW r \in queue PROVE seen[r] = row[r] /\ row[r].approvedAt \in 1..clock
    <3>1. row[r].approved /\ row[r].approvedAt \in Nat
      BY <1>2, <2>3 DEF InSendQueue, Row
    <3>2. row[r].approvedAt > 0 /\ row[r].approvedAt <= clock
      BY <2>3, <3>1 DEF IInv, ClaimInvariant, RowsConsistent
    <3>. QED
      BY <1>2, <2>3, <3>1, <3>2
  <2>. HIDE DEF queue, seen
  <2>. QED
    BY <1>1, <2>1, <2>2, <2>3 DEF QueueReadHolds
<1>5. ASSUME NEW r \in Reports, NEW red \in BOOLEAN, NextReport(r, red) PROVE QueueReadHolds'
  BY <1>2, <1>3, <1>5, NextReportTyped
<1>6. ASSUME run.pc = "stamp", NEW red \in BOOLEAN, AfterStamp(red) PROVE QueueReadHolds'
  BY <1>2, <1>3, <1>6, AfterStampTyped
<1>7. CASE \/ ReadApprovedUnqueued \/ (\E r \in Reports : BeginSend(r)) \/ SendAccepted
           \/ SendDeduplicated \/ SendConflict \/ SendRejected \/ EndRun \/ RunCrash
  <2>1. CASE ReadApprovedUnqueued
    BY <1>2, <1>3, <2>1 DEF ReadApprovedUnqueued, Run
  <2>2. CASE \E r \in Reports : BeginSend(r)
    BY <1>2, <1>3, <2>2 DEF BeginSend, Run
  <2>3. CASE SendAccepted \/ SendDeduplicated \/ SendConflict \/ SendRejected \/ EndRun
    BY <1>2, <1>3, <2>3 DEF SendAccepted, SendDeduplicated, SendConflict, SendRejected,
       EndRun, Run
  <2>4. CASE RunCrash
    BY <1>2, <1>3, <2>4 DEF RunCrash, IdleRun
  <2>. QED
    BY <1>7, <2>1, <2>2, <2>3, <2>4
<1>8. CASE ClaimReportForSend
  BY <1>2, <1>3, <1>5, <1>8 DEF ClaimReportForSend, Run
<1>9. CASE (\E r \in Reports : RefuseSend(r)) \/ ClaimFails \/ SendAmbiguous
           \/ ReleaseSendClaim \/ LaunchFlip
  BY <1>2, <1>5, <1>9 DEF RefuseSend, ClaimFails, SendAmbiguous, ReleaseSendClaim, LaunchFlip
<1>10. CASE StampSent \/ StampFails
  BY <1>6, <1>10 DEF StampSent, StampFails
<1>. QED
  BY <1>4, <1>7, <1>8, <1>9, <1>10 DEF RunStep, RunProgress

LEMMA RunClaimHolds ==
  ASSUME IInv, RunStep
  PROVE  ClaimHolds'
<1>1. /\ run \in Run /\ row \in [Reports -> Row] /\ mail \in [Reports -> Seq(Nat)]
      /\ run.pc \in {"claim", "send", "release", "stamp", "flip"} =>
            run.rep \in Reports /\ run.rep \in run.todo
      /\ ClaimHolds /\ QueueReadHolds /\ LiveRecordsHold /\ live \subseteq LiveRecord
  BY DEF IInv, TypeOK, Run, ClaimInvariant, InHand
<1>2. ASSUME run'.pc \notin {"claim", "send", "stamp"} PROVE ClaimHolds'
  BY <1>2 DEF ClaimHolds
<1>3. ASSUME NEW r \in Reports, NEW red \in BOOLEAN, NextReport(r, red) PROVE ClaimHolds'
  BY <1>1, <1>2, <1>3, NextReportTyped
<1>4. CASE \E r \in Reports : BeginSend(r)
  BY <1>1, <1>4 DEF BeginSend, ClaimHolds, Run, RunPc
<1>5. CASE ClaimReportForSend
  <2>. DEFINE m == run.rep
  <2>1. m \in Reports /\ m \in run.todo /\ row[m] \in Row
    BY <1>1, <1>5 DEF ClaimReportForSend
  <2>2. CASE Claimable(row[m], run.seen[m])
    <3>1. row' = [row EXCEPT ![m].claimed = TRUE] /\ run'.pc = "send" /\ run'.rep = m
      BY <1>1, <1>5, <2>2 DEF ClaimReportForSend, Run
    <3>2. row'[m].claimed /\ row'[m].sent = row[m].sent
          /\ row'[m].clear = row[m].clear /\ row'[m].override = row[m].override
      BY <1>1, <2>1, <3>1 DEF Row
    <3>3. PassesHealthGate(run.seen[m])
      BY <1>1, <1>5 DEF ClaimHolds, ClaimReportForSend
    <3>4. row[m].clear = run.seen[m].clear /\ (run.seen[m].override => row[m].override)
      BY <1>1, <2>1, <2>2 DEF QueueReadHolds, Claimable
    <3>5. ~row[m].sent
      BY <2>2 DEF Claimable, InSendQueue
    <3>. QED
      BY <3>1, <3>2, <3>3, <3>4, <3>5 DEF ClaimHolds, PassesHealthGate
  <2>3. CASE ~Claimable(row[m], run.seen[m])
    BY <1>3, <1>5, <2>1, <2>3 DEF ClaimReportForSend
  <2>. QED
    BY <2>2, <2>3
<1>6. ASSUME run.pc = "send", row' = row, run'.pc = "stamp", run'.rep = run.rep,
             mail'[run.rep] # <<>>, run'.gotId <= Len(mail'[run.rep])
      PROVE  ClaimHolds'
  BY <1>1, <1>6 DEF ClaimHolds, PassesHealthGate
<1>7. CASE SendAccepted
  <2>1. run.rep \in Reports /\ run.pc = "send" /\ row' = row
    BY <1>1, <1>7 DEF SendAccepted
  <2>2. run'.pc = "stamp" /\ run'.rep = run.rep /\ run'.gotId = Len(mail[run.rep]) + 1
    BY <1>1, <1>7 DEF SendAccepted, Run
  <2>3. mail'[run.rep] # <<>> /\ Len(mail'[run.rep]) = Len(mail[run.rep]) + 1
    BY <1>7, RunMail
  <2>4. Len(mail[run.rep]) \in Nat
    BY <1>1, <2>1
  <2>. QED
    BY <1>6, <2>1, <2>2, <2>3, <2>4
<1>8. ASSUME run.pc = "send", NEW e \in live, e \in LiveFor(RunKey)
      PROVE  mail[run.rep] # <<>> /\ e.id <= Len(mail[run.rep]) /\ Len(mail[run.rep]) >= 0
  <2>1. e.rep = run.rep
    BY <1>1, <1>8 DEF LiveRecordsHold, LiveFor, RunKey, IdempotencyKey
  <2>2. e.id \in 1..Len(mail[run.rep]) /\ run.rep \in Reports
    BY <1>1, <1>8, <2>1 DEF LiveRecordsHold
  <2>3. mail[run.rep] \in Seq(Nat) /\ Len(mail[run.rep]) \in Nat
    BY <1>1, <2>2
  <2>. QED
    BY <2>2, <2>3
<1>9. CASE SendDeduplicated
  <2>1. PICK e \in LiveFor(RunKey) : run' = [run EXCEPT !.pc = "stamp", !.gotId = e.id]
    BY <1>9 DEF SendDeduplicated
  <2>2. /\ run'.pc = "stamp" /\ run'.rep = run.rep /\ run'.gotId = e.id
        /\ run.pc = "send" /\ row' = row /\ mail' = mail
    BY <1>1, <1>9, <2>1 DEF SendDeduplicated, Run
  <2>3. mail[run.rep] # <<>> /\ e.id <= Len(mail[run.rep])
    BY <1>8, <2>1, <2>2 DEF LiveFor
  <2>. QED
    BY <1>6, <2>2, <2>3
<1>10. CASE SendConflict
  <2>1. PICK e \in LiveFor(RunKey) : TRUE
    BY <1>10 DEF SendConflict
  <2>2. /\ run'.pc = "stamp" /\ run'.rep = run.rep /\ run'.gotId = 0
        /\ run.pc = "send" /\ row' = row /\ mail' = mail
    BY <1>1, <1>10 DEF SendConflict, Run
  <2>3. mail[run.rep] # <<>> /\ 0 <= Len(mail[run.rep])
    BY <1>8, <2>1, <2>2 DEF LiveFor
  <2>. QED
    BY <1>6, <2>2, <2>3
<1>11. CASE ReadQueue \/ ReadApprovedUnqueued \/ SendRejected \/ EndRun \/ RunCrash
  <2>1. CASE ReadQueue
    BY <1>2, <2>1 DEF ReadQueue, IdleRun
  <2>2. CASE ReadApprovedUnqueued
    BY <1>1, <1>2, <2>2 DEF ReadApprovedUnqueued, Run
  <2>3. CASE SendRejected \/ EndRun
    BY <1>1, <1>2, <2>3 DEF SendRejected, EndRun, Run
  <2>4. CASE RunCrash
    BY <1>2, <2>4 DEF RunCrash, IdleRun
  <2>. QED
    BY <1>11, <2>1, <2>2, <2>3, <2>4
<1>12. CASE (\E r \in Reports : RefuseSend(r)) \/ ClaimFails \/ SendAmbiguous
            \/ ReleaseSendClaim \/ LaunchFlip
  BY <1>1, <1>3, <1>12 DEF RefuseSend, ClaimFails, SendAmbiguous, ReleaseSendClaim, LaunchFlip
<1>13. ASSUME run.pc = "stamp", NEW red \in BOOLEAN, AfterStamp(red) PROVE ClaimHolds'
  BY <1>1, <1>2, <1>13, AfterStampTyped
<1>14. CASE StampSent \/ StampFails
  BY <1>13, <1>14 DEF StampSent, StampFails
<1>. QED
  BY <1>4, <1>5, <1>7, <1>9, <1>10, <1>11, <1>12, <1>14 DEF RunStep, RunProgress

LEMMA RunGreenSoFar ==
  ASSUME IInv, RunStep
  PROVE  GreenSoFar'
<1>1. /\ run \in Run /\ row \in [Reports -> Row]
      /\ run.mailed \subseteq Reports /\ run.red \in BOOLEAN
      /\ run.pc \in {"claim", "send", "release", "stamp", "flip"} => run.rep \in Reports
      /\ GreenSoFar
  BY DEF IInv, TypeOK, Run, ClaimInvariant, InHand
<1>2. \A r \in Reports : row[r].sent => row'[r].sent
  BY RunMoves DEF RunRows, RunMove
<1>3. ASSUME run.pc # "flip", run'.mailed = run.mailed, run.red => run'.red, launched' = launched
      PROVE  GreenSoFar'
  BY <1>1, <1>2, <1>3 DEF GreenSoFar
<1>4. ASSUME NEW r \in Reports, NEW red \in BOOLEAN, NextReport(r, red),
             run.pc # "flip", launched' = launched
      PROVE  GreenSoFar'
  BY <1>1, <1>3, <1>4, NextReportTyped
<1>5. CASE ReadQueue \/ RunCrash
  <2>1. CASE ReadQueue
    <3>1. run'.mailed = IdleRun.mailed
      BY <2>1 DEF ReadQueue, IdleRun
    <3>. QED
      BY <3>1 DEF GreenSoFar, IdleRun
  <2>2. CASE RunCrash
    BY <2>2 DEF RunCrash, GreenSoFar, IdleRun
  <2>. QED
    BY <1>5, <2>1, <2>2
<1>6. CASE ReadApprovedUnqueued
  BY <1>1, <1>3, <1>6 DEF ReadApprovedUnqueued, Run
<1>7. CASE \E r \in Reports : BeginSend(r)
  BY <1>1, <1>3, <1>7 DEF BeginSend, Run
<1>8. CASE SendAccepted \/ SendDeduplicated \/ SendConflict \/ SendRejected \/ EndRun
  BY <1>1, <1>3, <1>8 DEF SendAccepted, SendDeduplicated, SendConflict, SendRejected, EndRun, Run
<1>9. CASE ClaimReportForSend
  <2>1. CASE Claimable(row[run.rep], run.seen[run.rep])
    BY <1>1, <1>3, <1>9, <2>1 DEF ClaimReportForSend, Run
  <2>2. CASE ~Claimable(row[run.rep], run.seen[run.rep])
    BY <1>1, <1>4, <1>9, <2>2 DEF ClaimReportForSend
  <2>. QED
    BY <2>1, <2>2
<1>10. CASE (\E r \in Reports : RefuseSend(r)) \/ ClaimFails \/ SendAmbiguous \/ ReleaseSendClaim
  BY <1>1, <1>4, <1>10 DEF RefuseSend, ClaimFails, SendAmbiguous, ReleaseSendClaim
<1>11. ASSUME run.pc = "stamp", NEW red \in BOOLEAN, AfterStamp(red), launched' = launched,
              row'[run.rep].sent \/ red
       PROVE  GreenSoFar'
  <2>1. SUFFICES ASSUME ~run'.red, NEW r \in run'.mailed
                 PROVE  /\ row'[r].sent
                        /\ r \in Launches => r \in launched' \/ (run'.pc = "flip" /\ run'.rep = r)
    BY DEF GreenSoFar
  <2>2. /\ run'.mailed = run.mailed \cup {run.rep}
        /\ ~run.red /\ ~red
        /\ run.rep \in Launches => run'.pc = "flip" /\ run'.rep = run.rep
    BY <1>1, <1>11, <2>1, AfterStampTyped
  <2>3. CASE r = run.rep
    BY <1>11, <2>2, <2>3
  <2>4. CASE r \in run.mailed
    BY <1>1, <1>2, <1>11, <2>2, <2>4 DEF GreenSoFar
  <2>. QED
    BY <2>2, <2>3, <2>4
<1>12. CASE StampFails
  BY <1>11, <1>12 DEF StampFails
<1>13. CASE StampSent
  <2>1. run.rep \in Reports /\ row' = [row EXCEPT ![run.rep] = Stamped(row[run.rep], run.gotId)]
    BY <1>1, <1>13 DEF StampSent
  <2>2. row[run.rep] \in Row /\ row'[run.rep] = Stamped(row[run.rep], run.gotId)
    BY <1>1, <2>1
  <2>3. row'[run.rep].sent
    BY <2>2 DEF Stamped, Row
  <2>. QED
    BY <1>11, <1>13, <2>3 DEF StampSent
<1>14. CASE LaunchFlip
  <2>1. run.rep \in Reports /\ run.pc = "flip"
    BY <1>1, <1>14 DEF LaunchFlip
  <2>2. CASE launched' = launched \cup {run.rep} /\ NextReport(run.rep, FALSE)
    <3>1. run'.mailed = run.mailed /\ run'.red = (run.red \/ FALSE)
      BY <1>1, <2>1, <2>2, NextReportTyped
    <3>. QED
      BY <1>1, <1>2, <2>2, <3>1 DEF GreenSoFar
  <2>3. CASE NextReport(run.rep, TRUE)
    <3>1. run'.red = (run.red \/ TRUE)
      BY <1>1, <2>1, <2>3, NextReportTyped
    <3>. QED
      BY <3>1 DEF GreenSoFar
  <2>. QED
    BY <1>14, <2>2, <2>3 DEF LaunchFlip
<1>. QED
  BY <1>5, <1>6, <1>7, <1>8, <1>9, <1>10, <1>12, <1>13, <1>14 DEF RunStep, RunProgress

LEMMA OtherKeeps ==
  ASSUME IInv, (\E e \in live : KeyLapses(e)) \/ UNCHANGED <<row, launched, run, mail, live, clock>>,
         TypeInv'
  PROVE  ClaimInvariant'
<1>1. UNCHANGED <<row, launched, run, mail, clock>> /\ live' \subseteq live
  BY DEF KeyLapses
<1>2. /\ RowsConsistent /\ QueueReadHolds /\ ClaimHolds /\ LiveRecordsHold /\ GreenSoFar
  BY DEF IInv, ClaimInvariant
<1>3. RowsConsistent' /\ QueueReadHolds'
  BY <1>1, <1>2 DEF RowsConsistent, QueueReadHolds
<1>4. ClaimHolds' /\ LiveRecordsHold' /\ GreenSoFar'
  BY <1>1, <1>2 DEF ClaimHolds, LiveRecordsHold, GreenSoFar, PassesHealthGate
<1>. QED
  BY <1>3, <1>4 DEF ClaimInvariant, TypeInv

LEMMA InvariantInductive == IInv /\ [Next]_vars => IInv'
<1>1. SUFFICES ASSUME IInv, [Next]_vars PROVE IInv'
  OBVIOUS
<1>2. TypeInv /\ RowsConsistent
  BY <1>1 DEF IInv, TypeInv, ClaimInvariant
<1>3. TypeInv'
  BY <1>1, <1>2, TypeInvInductive
<1>4. CASE \E s \in Sessions : SessionStep(s)
  <2>1. OutsideStep \/ UNCHANGED <<row, launched, run, mail, live, clock>>
    BY <1>2, <1>4, SessionMoves
  <2>. QED
    BY <1>1, <1>3, <2>1, OutsideKeeps, OtherKeeps DEF IInv, TypeInv
<1>5. CASE RunStep
  BY <1>1, <1>3, <1>5, RunRowsConsistent, RunQueueReadHolds, RunClaimHolds, RunMail, RunGreenSoFar
     DEF IInv, TypeInv, ClaimInvariant
<1>6. CASE (\E e \in live : KeyLapses(e)) \/ UNCHANGED vars
  <2>1. (\E e \in live : KeyLapses(e)) \/ UNCHANGED <<row, launched, run, mail, live, clock>>
    BY <1>6 DEF vars
  <2>. QED
    BY <1>1, <1>3, <2>1, OtherKeeps DEF IInv, TypeInv
<1>. QED
  BY <1>1, <1>4, <1>5, <1>6 DEF Next

\* The claim, the approval it was taken under and the evidence that cleared the
\* gate stand together from the queue read to the stamp, whatever the sessions do
\* meanwhile (claimReportForSend, unapproveReportIfUnsent, patchReportIfOpen and
\* the refresh's guards).
THEOREM InvariantHolds == Spec => []ClaimInvariant
<1>1. IInv => ClaimInvariant
  BY DEF IInv
<1>. QED
  BY InitInvariant, InvariantInductive, <1>1, PTL DEF Spec

-----------------------------------------------------------------------------
(* The properties *)

\* A row stamped as sent had its email accepted by Resend, and its message id is
\* that of one of its emails (sendOne's catch, reportSentMirror).
THEOREM StampsAreTrue == Spec => []SentMeansEmailed
<1>1. IInv => SentMeansEmailed
  BY DEF IInv, ClaimInvariant, RowsConsistent, SentMeansEmailed
<1>. QED
  BY InitInvariant, InvariantInductive, <1>1, PTL DEF Spec

\* A run that ends green stamped every report it mailed and flipped the site of
\* every Launch among them (sendApprovedReports' anyFailed).
THEOREM GreenMeansRecorded == Spec => []GreenRunIsRecorded
<1>1. IInv => GreenRunIsRecorded
  BY DEF IInv, ClaimInvariant, GreenSoFar, GreenRunIsRecorded
<1>. QED
  BY InitInvariant, InvariantInductive, <1>1, PTL DEF Spec

\* An email leaves only for a row that is approved, claimed, open and past the
\* health gate at that very moment (sendOne, claimReportForSend).
THEOREM EmailsNeedApproval == Spec => EmailsOnlyUnderApproval
<1>. DEFINE Step == \A r \in Reports :
                       mail'[r] # mail[r] =>
                           /\ row[r].approved
                           /\ row[r].claimed
                           /\ ~row[r].sent
                           /\ ~row[r].withdrawn
                           /\ PassesHealthGate(row[r])
<1>1. ASSUME IInv, [Next]_vars PROVE Step
  <2>1. ASSUME mail' = mail PROVE Step
    BY <2>1
  <2>2. ASSUME run.pc = "send", Leaves(run.rep, run.seen[run.rep].content, RunKey) PROVE Step
    <3>1. run.rep \in Reports /\ mail \in [Reports -> Seq(Nat)]
      BY <1>1, <2>2 DEF IInv, TypeOK, Run, ClaimInvariant, InHand
    <3>2. \A r \in Reports \ {run.rep} : mail'[r] = mail[r]
      BY <2>2, <3>1 DEF Leaves
    <3>3. row[run.rep].claimed /\ ~row[run.rep].sent /\ PassesHealthGate(row[run.rep])
      BY <1>1, <2>2 DEF IInv, ClaimInvariant, ClaimHolds
    <3>4. row[run.rep].approved /\ ~row[run.rep].withdrawn
      BY <1>1, <3>1, <3>3 DEF IInv, ClaimInvariant, RowsConsistent
    <3>. QED
      BY <3>2, <3>3, <3>4
  <2>3. CASE \E s \in Sessions : SessionStep(s)
    <3>1. TypeInv /\ RowsConsistent
      BY <1>1 DEF IInv, TypeInv, ClaimInvariant
    <3>. QED
      BY <2>1, <2>3, <3>1, SessionMoves DEF OutsideStep
  <2>4. CASE SendAccepted
    BY <2>2, <2>4 DEF SendAccepted
  <2>5. CASE SendAmbiguous
    BY <2>1, <2>2, <2>5 DEF SendAmbiguous
  <2>6. CASE RunStep /\ ~SendAccepted /\ ~SendAmbiguous
    BY <2>1, <2>6 DEF RunStep, RunProgress, ReadQueue, ReadApprovedUnqueued, BeginSend,
       RefuseSend, ClaimReportForSend, ClaimFails, SendDeduplicated, SendConflict,
       SendRejected, ReleaseSendClaim, StampSent, StampFails, LaunchFlip, EndRun, RunCrash
  <2>7. CASE (\E e \in live : KeyLapses(e)) \/ UNCHANGED vars
    BY <2>1, <2>7 DEF KeyLapses, vars
  <2>. QED
    BY <1>1, <2>3, <2>4, <2>5, <2>6, <2>7 DEF Next
<1>2. IInv /\ [Next]_vars => [Step]_vars
  BY <1>1
<1>. QED
  BY InitInvariant, InvariantInductive, <1>2, PTL DEF Spec, EmailsOnlyUnderApproval

\* A sent or withdrawn report is closed for good (patchReportIfOpen,
\* unapproveReportIfUnsent, claimReportForSend, releaseSendClaim).
THEOREM ClosedIsClosed == Spec => ClosedReportsStayClosed
<1>. DEFINE Kept(w, x) == /\ x.approved = w.approved
                          /\ x.approvedAt = w.approvedAt
                          /\ x.override = w.override
                          /\ x.claimed = w.claimed
                          /\ x.sent = w.sent
                          /\ x.messageId = w.messageId
                          /\ x.withdrawn = w.withdrawn
            Step == \A r \in Reports : row[r].sent \/ row[r].withdrawn => Kept(row[r], row'[r])
<1>1. ASSUME IInv, [Next]_vars PROVE Step
  <2>1. ASSUME row' = row PROVE Step
    BY <2>1
  <2>2. CASE \E s \in Sessions : SessionStep(s)
    <3>1. TypeInv /\ RowsConsistent
      BY <1>1 DEF IInv, TypeInv, ClaimInvariant
    <3>2. ASSUME OutsideStep PROVE Step
      <4>1. PICK m \in Reports :
              OutsideMove(row[m], row'[m]) /\ \A q \in Reports \ {m} : row'[q] = row[q]
        BY <3>2 DEF OutsideStep
      <4>. QED
        BY <4>1 DEF OutsideMove
    <3>. QED
      BY <2>1, <2>2, <3>1, <3>2, SessionMoves
  <2>3. CASE RunStep
    <3>1. SUFFICES ASSUME NEW r \in Reports, row[r].sent \/ row[r].withdrawn
                   PROVE  Kept(row[r], row'[r])
      OBVIOUS
    <3>2. RunMove(row[r], row'[r], mail[r])
      BY <1>1, <2>3, RunMoves DEF RunRows
    <3>3. row[r].withdrawn => ~row[r].approved
      BY <1>1 DEF IInv, ClaimInvariant, RowsConsistent
    <3>. QED
      BY <3>1, <3>2, <3>3 DEF RunMove
  <2>4. CASE (\E e \in live : KeyLapses(e)) \/ UNCHANGED vars
    BY <2>1, <2>4 DEF KeyLapses, vars
  <2>. QED
    BY <1>1, <2>2, <2>3, <2>4 DEF Next
<1>2. IInv /\ [Next]_vars => [Step]_vars
  BY <1>1
<1>. QED
  BY InitInvariant, InvariantInductive, <1>2, PTL DEF Spec, ClosedReportsStayClosed

-----------------------------------------------------------------------------
(* The loop implements ReportDelivery: every step is a step of the abstract  *)
(* report or changes none of its three variables.                            *)

Phases == [r \in Reports |-> Phase(row[r])]
Delivered == [r \in Reports |-> Len(mail[r])]
Window == [r \in Reports |-> \E e \in live : e.rep = r]

LEMMA InitDelivers == Init => Delivery!Init
<1>1. SUFFICES ASSUME Init PROVE Delivery!Init
  OBVIOUS
<1>2. \A r \in Reports : Phase(row[r]) = "open"
  <2>1. ASSUME NEW r \in Reports PROVE ~row[r].sent /\ ~row[r].withdrawn /\ ~row[r].approved
    <3>1. row[r] = NewRow(TRUE) \/ row[r] = NewRow(FALSE)
      BY <1>1 DEF Init
    <3>. QED
      BY <3>1 DEF NewRow
  <2>. QED
    BY <2>1 DEF Phase
<1>3. \A r \in Reports : Len(mail[r]) = 0
  BY <1>1 DEF Init
<1>4. \A r \in Reports : (\E e \in live : e.rep = r) = FALSE
  BY <1>1 DEF Init
<1>. QED
  BY <1>2, <1>3, <1>4 DEF Delivery!Init

\* A move of the dashboard or the drafting path opens, approves or withdraws one
\* report at most.
LEMMA OutsideDelivers ==
  ASSUME IInv, TypeInv', OutsideStep
  PROVE  Delivery!Next \/ UNCHANGED <<Phases, Delivered, Window>>
<1>1. PICK m \in Reports :
         OutsideMove(row[m], row'[m]) /\ \A q \in Reports \ {m} : row'[q] = row[q]
  BY DEF OutsideStep
<1>2. Delivered' = Delivered /\ Window' = Window
  BY DEF OutsideStep, Delivered, Window
<1>3. \A q \in Reports \ {m} : Phase(row'[q]) = Phase(row[q])
  BY <1>1
<1>4. row[m] \in Row /\ row'[m] \in Row
  BY DEF IInv, TypeInv, TypeOK
<1>5. row[m].withdrawn => ~row[m].approved
  BY DEF IInv, ClaimInvariant, RowsConsistent
<1>6. \/ Phase(row'[m]) = Phase(row[m])
      \/ Phase(row[m]) = "open" /\ Phase(row'[m]) \in {"approved", "withdrawn"}
      \/ Phase(row[m]) = "approved" /\ Phase(row'[m]) = "open"
  BY <1>1, <1>4, <1>5 DEF OutsideMove, Phase, Row
<1>7. CASE Phase(row'[m]) = Phase(row[m])
  BY <1>2, <1>3, <1>7 DEF Phases
<1>8. ASSUME NEW from, NEW to, Phase(row[m]) = from, Phase(row'[m]) = to
      PROVE  Delivery!Move(m, from, to)
  <2>1. Phases' = [Phases EXCEPT ![m] = to] /\ Phases[m] = from
    BY <1>3, <1>8 DEF Phases
  <2>. QED
    BY <1>2, <2>1 DEF Delivery!Move, Phases, Delivered, Window
<1>. QED
  BY <1>6, <1>7, <1>8 DEF Delivery!Next, Delivery!Approve, Delivery!Unapprove, Delivery!Withdraw

\* The email that leaves is a delivery under an approval and outside the window.
LEMMA LeavesDelivers ==
  ASSUME IInv, run.pc = "send", row' = row, LiveFor(RunKey) = {},
         Leaves(run.rep, run.seen[run.rep].content, RunKey)
  PROVE  Delivery!Next
<1>0. run.rep \in Reports
  BY DEF IInv, TypeOK, Run, ClaimInvariant, InHand
<1>. PICK m \in Reports : m = run.rep
  BY <1>0
<1>1. /\ m \in Reports /\ mail \in [Reports -> Seq(Nat)] /\ live \subseteq LiveRecord
      /\ run.seen[m].content \in Nat /\ LiveRecordsHold
  BY DEF IInv, TypeOK, Run, Row, ClaimInvariant, InHand
<1>2. Leaves(m, run.seen[m].content, m) /\ LiveFor(m) = {}
  BY DEF RunKey, IdempotencyKey
<1>3. /\ Len(mail'[m]) = Len(mail[m]) + 1
      /\ \A q \in Reports \ {m} : mail'[q] = mail[q]
  BY <1>1, <1>2, LeavesTyped
<1>4. live' = live \cup {[key |-> m, rep |-> m, id |-> Len(mail[m]) + 1]}
  BY <1>2 DEF Leaves
<1>5. Delivered' = [Delivered EXCEPT ![m] = @ + 1]
  BY <1>1, <1>3 DEF Delivered
<1>6. Window' = [Window EXCEPT ![m] = TRUE]
  <2>1. \A q \in Reports : (\E e \in live' : e.rep = q) <=> (q = m \/ \E e \in live : e.rep = q)
    <3>. DEFINE new == [key |-> m, rep |-> m, id |-> Len(mail[m]) + 1]
    <3>1. live' = live \cup {new}
      BY <1>4
    <3>2. new.rep = m
      OBVIOUS
    <3>. HIDE DEF new
    <3>. QED
      BY <3>1, <3>2
  <2>. QED
    BY <1>1, <2>1 DEF Window
<1>7. ~Window[m]
  <2>1. \A e \in live : e.rep # m
    BY <1>1, <1>2 DEF LiveRecordsHold, LiveFor
  <2>. QED
    BY <1>1, <2>1 DEF Window
<1>8. Phases[m] = "approved"
  <2>1. row[m].claimed /\ ~row[m].sent
    BY DEF IInv, ClaimInvariant, ClaimHolds
  <2>2. row[m].approved /\ ~row[m].withdrawn
    BY <1>1, <2>1 DEF IInv, ClaimInvariant, RowsConsistent
  <2>. QED
    BY <1>1, <2>1, <2>2 DEF Phases, Phase
<1>9. Phases' = Phases
  BY DEF Phases
<1>10. Delivery!Deliver(m)
  BY <1>5, <1>6, <1>7, <1>8, <1>9 DEF Delivery!Deliver, Phases, Delivered, Window
<1>. QED
  BY <1>1, <1>10 DEF Delivery!Next

\* The run delivers, records, or does neither.
LEMMA RunDelivers ==
  ASSUME IInv, RunStep
  PROVE  Delivery!Next \/ UNCHANGED <<Phases, Delivered, Window>>
<1>1. RunRows /\ row \in [Reports -> Row]
  BY RunMoves DEF IInv, TypeOK
<1>2. ASSUME UNCHANGED <<mail, live>>, \A r \in Reports : row'[r].sent = row[r].sent
      PROVE  UNCHANGED <<Phases, Delivered, Window>>
  <2>1. \A r \in Reports : Phase(row'[r]) = Phase(row[r])
    BY <1>1, <1>2 DEF RunRows, RunMove, Phase
  <2>. QED
    BY <1>2, <2>1 DEF Phases, Delivered, Window
<1>3. CASE SendAccepted
  BY <1>3, LeavesDelivers DEF SendAccepted
<1>4. CASE SendAmbiguous
  BY <1>2, <1>4, LeavesDelivers DEF SendAmbiguous
<1>5. CASE ClaimReportForSend \/ ClaimFails \/ ReleaseSendClaim
  <2>1. UNCHANGED <<mail, live>>
    BY <1>5 DEF ClaimReportForSend, ClaimFails, ReleaseSendClaim
  <2>2. \A r \in Reports : row'[r].sent = row[r].sent
    <3>1. ASSUME NEW b \in BOOLEAN, row' = [row EXCEPT ![run.rep].claimed = b]
          PROVE  \A r \in Reports : row'[r].sent = row[r].sent
      BY <1>1, <3>1 DEF Row
    <3>. QED
      BY <1>5, <3>1 DEF ClaimReportForSend, ClaimFails, ReleaseSendClaim
  <2>. QED
    BY <1>2, <2>1, <2>2
<1>6. CASE StampSent
  <2>0. run.rep \in Reports
    BY <1>6 DEF StampSent, IInv, TypeOK, Run, ClaimInvariant, InHand
  <2>. PICK m \in Reports : m = run.rep
    BY <2>0
  <2>1. /\ m \in Reports /\ row[m] \in Row /\ row[m].approved /\ ~row[m].sent
        /\ ~row[m].withdrawn /\ mail[m] # <<>> /\ mail \in [Reports -> Seq(Nat)]
    BY <1>1, <1>6 DEF StampSent, IInv, TypeOK, Run, ClaimInvariant, InHand, ClaimHolds,
       RowsConsistent
  <2>2. row' = [row EXCEPT ![m] = Stamped(row[m], run.gotId)] /\ UNCHANGED <<mail, live>>
    BY <1>6 DEF StampSent
  <2>3. Stamped(row[m], run.gotId).sent
    BY <2>1 DEF Stamped, Row
  <2>4. Phase(row[m]) = "approved" /\ Phase(row'[m]) = "sent"
    <3>1. row'[m] = Stamped(row[m], run.gotId)
      BY <1>1, <2>1, <2>2
    <3>2. row'[m].sent
      BY <2>3, <3>1
    <3>3. Phase(row[m]) = "approved"
      BY <2>1 DEF Phase
    <3>4. Phase(row'[m]) = "sent"
      BY <3>2 DEF Phase
    <3>. QED
      BY <3>3, <3>4
  <2>5. Phases' = [Phases EXCEPT ![m] = "sent"] /\ Phases[m] = "approved"
    BY <1>1, <2>1, <2>2, <2>4 DEF Phases
  <2>6. Delivered[m] > 0
    BY <2>1 DEF Delivered
  <2>7. Delivery!Record(m)
    BY <2>2, <2>5, <2>6 DEF Delivery!Record, Delivery!Move, Phases, Delivered, Window
  <2>. QED
    BY <2>1, <2>7 DEF Delivery!Next
<1>7. CASE ~(SendAccepted \/ SendAmbiguous \/ ClaimReportForSend \/ ClaimFails
             \/ ReleaseSendClaim \/ StampSent)
  <2>1. UNCHANGED <<row, mail, live>>
    BY <1>7 DEF RunStep, RunProgress, ReadQueue, ReadApprovedUnqueued, BeginSend, RefuseSend,
       SendDeduplicated, SendConflict, SendRejected, StampFails, LaunchFlip, EndRun, RunCrash
  <2>. QED
    BY <1>2, <2>1
<1>. QED
  BY <1>3, <1>4, <1>5, <1>6, <1>7

\* A key that runs out ends a report's window, unless it has a younger record.
LEMMA LapseDelivers ==
  ASSUME IInv, NEW e \in live, KeyLapses(e)
  PROVE  Delivery!Next \/ UNCHANGED <<Phases, Delivered, Window>>
<1>1. /\ live' = live \ {e} /\ UNCHANGED <<row, mail>> /\ e.rep \in Reports
  BY DEF KeyLapses, IInv, TypeOK, LiveRecord
<1>2. Phases' = Phases /\ Delivered' = Delivered
  BY <1>1 DEF Phases, Delivered
<1>3. \A q \in Reports \ {e.rep} : (\E d \in live' : d.rep = q) <=> (\E d \in live : d.rep = q)
  BY <1>1
<1>4. CASE \E d \in live' : d.rep = e.rep
  <2>1. Window' = Window
    BY <1>1, <1>3, <1>4 DEF Window
  <2>. QED
    BY <1>2, <2>1
<1>5. CASE ~\E d \in live' : d.rep = e.rep
  <2>1. Window' = [Window EXCEPT ![e.rep] = FALSE]
    BY <1>1, <1>3, <1>5 DEF Window
  <2>2. Delivery!Forget(e.rep)
    BY <1>2, <2>1 DEF Delivery!Forget, Phases, Delivered, Window
  <2>. QED
    BY <1>1, <2>2 DEF Delivery!Next
<1>. QED
  BY <1>4, <1>5

\* The send loop, the dashboard and the drafting path together implement the
\* abstract delivery: under a standing approval, at most once per window, sent
\* only after a delivery, sent and withdrawn for good.
THEOREM ImplementsDelivery == Spec => DeliverySpec
<1>1. ASSUME IInv, [Next]_vars
      PROVE  Delivery!Next \/ UNCHANGED <<Phases, Delivered, Window>>
  <2>1. IInv' /\ TypeInv /\ TypeInv' /\ RowsConsistent
    BY <1>1, InvariantInductive DEF IInv, TypeInv, ClaimInvariant
  <2>2. CASE \E s \in Sessions : SessionStep(s)
    <3>1. OutsideStep \/ UNCHANGED <<row, launched, run, mail, live, clock>>
      BY <2>1, <2>2, SessionMoves
    <3>. QED
      BY <1>1, <2>1, <3>1, OutsideDelivers DEF Phases, Delivered, Window
  <2>3. CASE RunStep
    BY <1>1, <2>3, RunDelivers
  <2>4. CASE \E e \in live : KeyLapses(e)
    BY <1>1, <2>4, LapseDelivers
  <2>5. CASE UNCHANGED vars
    BY <2>5 DEF vars, Phases, Delivered, Window
  <2>. QED
    BY <1>1, <2>2, <2>3, <2>4, <2>5 DEF Next
<1>2. IInv /\ [Next]_vars => [Delivery!Next]_(Delivery!vars)
  BY <1>1 DEF Delivery!vars, Phases, Delivered, Window
<1>. QED
  BY InitInvariant, InitDelivers, InvariantInductive, <1>2, PTL
     DEF Spec, DeliverySpec, Delivery!Spec
=============================================================================
