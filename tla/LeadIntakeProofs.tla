-------------------------- MODULE LeadIntakeProofs --------------------------
(***************************************************************************)
(* Theorems about LeadIntake, for every fleet, every set of leads and of   *)
(* requests, and every number of posts and failures.  They rest on what a  *)
(* handler under way carries: the row it made, the letter it replays, the  *)
(* verdict it reached, and the rows its scans have dealt with.             *)
(***************************************************************************)
EXTENDS LeadIntake, FiniteSetTheorems, TLAPS

-----------------------------------------------------------------------------
(* The inductive invariant *)

\* A handler past its insert has its row; the replay has its letter, which nobody
\* else will place, and the letters still to come are queued ones.
Underway ==
    /\ \A h \in Handlers : handler[h].pc \in {"mark", "reject"} => h = "replay"
    /\ \A h \in Handlers : handler[h].pc \in {"tail", "mark"} =>
          /\ handler[h].sub \in DOMAIN submissions
          /\ submissions[handler[h].sub].lead = handler[h].lead
          /\ submissions[handler[h].sub].letter = handler[h].letter
    /\ ~At("replay", "idle") =>
          /\ handler["replay"].letter \in DOMAIN letters \ queue
          /\ letters[handler["replay"].letter].lead = handler["replay"].lead
          /\ letters[handler["replay"].letter].outcome = "queued"
    /\ \A d \in queue : letters[d].outcome = "queued"

Posted(l) == visitor[l] # [awaits |-> "none", told |-> "nothing"]

\* What is stored or under way was posted by a visitor.
AllPosted ==
    /\ \A i \in DOMAIN submissions : Posted(submissions[i].lead)
    /\ \A d \in DOMAIN letters : Posted(letters[d].lead)
    /\ \A h \in Handlers : ~At(h, "idle") => Posted(handler[h].lead)

\* What SpamHasEvidence asks of a lead.
Evident(l) ==
    \/ Lead[l].spam /\ Lead[l].site \notin Building
    \/ \E k \in Leads : /\ Posted(k)
                        /\ Spray(k, l)
                        /\ ~({Lead[k].site, Lead[l].site} \subseteq Building)

\* A verdict of spam, stored or under way, has its evidence; so has every row a scan
\* is about to re-bucket.
Evidence ==
    /\ \A i \in DOMAIN submissions :
          submissions[i].status = "spam_auto" => Evident(submissions[i].lead)
    /\ \A h \in Handlers : ~At(h, "idle") =>
          /\ handler[h].status = "spam_auto" => Evident(handler[h].lead)
          /\ handler[h].pc \in {"retro_sender", "retro_body"} =>
                \A i \in handler[h].retro : Evident(submissions[i].lead)
          /\ handler[h].pc \in {"sender", "retro_sender", "body", "retro_body"} =>
                LeadOf(h).site \notin Building

\* A row whose letter has an earlier one.
Duplicates ==
    {i \in DOMAIN submissions :
        /\ submissions[i].letter # 0
        /\ \E j \in PlacedFrom(submissions[i].letter) : j < i}

\* The letter of a replay that has made its row and is to mark it.
ToMark(d) ==
    /\ handler["replay"].pc \in {"tail", "mark"}
    /\ handler["replay"].letter = d

\* Letters placed that no mark says so of, now or soon.
Loose ==
    {d \in DOMAIN letters :
        letters[d].outcome # "accepted" /\ PlacedFrom(d) # {} /\ ~ToMark(d)}

\* Every duplicate, and every letter that may yet make one, cost a failure.
Paid ==
    /\ \A i \in DOMAIN submissions : submissions[i].letter \in {0} \union DOMAIN letters
    /\ Cardinality(Duplicates) + Cardinality(Loose) <= faults

\* Row i is out of the inbox, but for the operator since the newest row was made, or
\* handler h is about to take it out.
Leaves(h, retroPc, i) ==
    OutSince(i, Len(submissions)) \/ (At(h, retroPc) /\ i \in handler[h].retro)

\* What the sender scan, once done, has done; and the body scan.
SenderDone(h) ==
    handler[h].pc \in {"retro_sender", "body", "retro_body", "create"} =>
        \A i \in SenderMatches(handler[h].lead) :
            handler[h].status = "spam_auto" /\ Leaves(h, "retro_sender", i)

BodyDone(h) ==
    handler[h].pc \in {"retro_body", "create"} /\ Lead[handler[h].lead].body # NoBody =>
        \A i \in BodyMatches(handler[h].lead) :
            /\ handler[h].status = "spam_auto"
            /\ Lead[handler[h].lead].mayRetro => Leaves(h, "retro_body", i)

\* What SprayIsCaught asks of two rows.
PairCaught(i, j) ==
    LET l == submissions[j].lead
        sender == i \in SenderMatches(l)
        body == Lead[l].body # NoBody /\ i \in BodyMatches(l)
    IN  i < j /\ IsContact(l) /\ Lead[l].site \notin Building /\ (sender \/ body) =>
          /\ OutSince(j, j)
          /\ sender \/ Lead[l].mayRetro => OutSince(i, j - 1)

\* As long as no handlers overlapped and nothing failed.
Caught ==
    ~disturbed =>
        /\ \A h, g \in Handlers : At(h, "idle") \/ At(g, "idle") \/ h = g
        /\ \A h \in Handlers :
              ~At(h, "idle") /\ LeadOf(h).site \notin Building /\ IsContact(handler[h].lead)
                 => SenderDone(h) /\ BodyDone(h)
        /\ \A i, j \in DOMAIN submissions : PairCaught(i, j)

IInv ==
    /\ TypeOK
    /\ Underway
    /\ AcceptedLeadsAreKept
    /\ AllPosted
    /\ Evidence
    /\ Paid
    /\ Caught

-----------------------------------------------------------------------------
(* Types *)

Becomes(h, x) == handler' = [handler EXCEPT ![h] = x]

LEMMA HandlerIs ==
  ASSUME TypeOK, NEW h \in Handlers
  PROVE  /\ At(h, "idle") => handler[h] = Idle
         /\ ~At(h, "idle") => handler[h] \in Running
         /\ handler[h].pc \in {"lookup", "sender", "retro_sender", "body", "retro_body",
                               "create", "tail", "mark", "reject", "idle"}
         /\ ~At(h, "idle") =>
               /\ LeadOf(h).site \in Sites
               /\ handler[h].sub \in 0..Len(submissions)
               /\ handler[h].retro \subseteq DOMAIN submissions
               /\ h = "replay" <=> handler[h].letter # 0
BY LeadIntakeAssumption DEF TypeOK, At, Idle, Running, LeadOf

LEMMA BecomesIs ==
  ASSUME TypeOK, NEW h \in Handlers, NEW x, Becomes(h, x)
  PROVE  /\ handler'[h] = x
         /\ \A g \in Handlers : g # h => handler'[g] = handler[g]
         /\ \A g \in Handlers : g # h => \A pc : At(g, pc)' = At(g, pc)
         /\ \A pc : At(h, pc)' = (x.pc = pc)
BY DEF TypeOK, Becomes, At

LEMMA HandlersFit ==
  ASSUME TypeOK, NEW h \in Handlers, NEW x \in {Idle} \union Running, Becomes(h, x),
         submissions' \in Seq(Submission), Len(submissions) <= Len(submissions'),
         x.pc # "idle" => /\ x.sub \in 0..Len(submissions')
                          /\ x.retro \subseteq DOMAIN submissions'
                          /\ h = "replay" <=> x.letter # 0
  PROVE  /\ handler' \in [Handlers -> {Idle} \union Running]
         /\ \A g \in Handlers : ~At(g, "idle")' =>
               /\ handler'[g].sub \in 0..Len(submissions')
               /\ handler'[g].retro \subseteq DOMAIN submissions'
               /\ (g = "replay") = (handler'[g].letter # 0)
<1>1. handler' \in [Handlers -> {Idle} \union Running]
  BY DEF TypeOK, Becomes
<1>2. submissions \in Seq(Submission)
  BY DEF TypeOK
<1>3. /\ Len(submissions) \in Nat /\ DOMAIN submissions = 1..Len(submissions)
      /\ Len(submissions') \in Nat /\ DOMAIN submissions' = 1..Len(submissions')
  BY <1>2
<1>4. DOMAIN submissions \subseteq DOMAIN submissions'
  BY <1>3
<1>5. ASSUME NEW g \in Handlers, ~At(g, "idle")'
      PROVE  /\ handler'[g].sub \in 0..Len(submissions')
             /\ handler'[g].retro \subseteq DOMAIN submissions'
             /\ (g = "replay") = (handler'[g].letter # 0)
  <2>1. CASE g = h
    <3>0. handler'[h] = x
      BY BecomesIs
    <3>1. handler'[g] = x /\ x.pc # "idle"
      BY <2>1, <1>5, <3>0 DEF At
    <3>2. /\ x.sub \in 0..Len(submissions')
          /\ x.retro \subseteq DOMAIN submissions'
          /\ h = "replay" <=> x.letter # 0
      BY <3>1
    <3>. QED
      BY <2>1, <3>1, <3>2
  <2>2. CASE g # h
    <3>1. handler'[g] = handler[g] /\ ~At(g, "idle")
      BY <2>2, <1>5, BecomesIs
    <3>2. /\ handler[g].sub \in 0..Len(submissions)
          /\ handler[g].retro \subseteq DOMAIN submissions
          /\ (g = "replay") = (handler[g].letter # 0)
      BY <3>1 DEF TypeOK
    <3>. QED
      BY <3>1, <3>2, <1>3, <1>4
  <2>. QED
    BY <2>1, <2>2
<1>. QED
  BY <1>1, <1>5

\* A handler that goes on, stops, or begins.
LEMMA GotoBecomes ==
  ASSUME TypeOK, NEW h \in Handlers, ~At(h, "idle"), NEW pc, Goto(h, pc)
  PROVE  Becomes(h, [handler[h] EXCEPT !.pc = pc])
BY DEF TypeOK, Goto, Becomes

LEMMA StopBecomes ==
  ASSUME NEW h, Stop(h)
  PROVE  Becomes(h, Idle)
BY DEF Stop, Becomes

LEMMA BeginIs ==
  ASSUME NEW l \in Leads, NEW d \in Nat
  PROVE  /\ Begin(l, d) \in Running
         /\ Begin(l, d).pc = "lookup" /\ Begin(l, d).lead = l /\ Begin(l, d).letter = d
         /\ Begin(l, d).status = "new" /\ Begin(l, d).retro = {} /\ Begin(l, d).sub = 0
BY DEF Begin, Running

LEMMA InsertedIs ==
  ASSUME TypeOK, NEW h \in Handlers, ~At(h, "idle")
  PROVE  LET rows == Inserted(h)
             n == Len(submissions) + 1
         IN  /\ rows \in Seq(Submission)
             /\ Len(rows) = n /\ n \in Nat
             /\ DOMAIN rows = DOMAIN submissions \union {n}
             /\ n \notin DOMAIN submissions
             /\ \A i \in DOMAIN submissions : rows[i] = submissions[i] /\ i < n
             /\ rows[n].lead = handler[h].lead /\ rows[n].letter = handler[h].letter
             /\ rows[n].status = handler[h].status
<1>1. handler[h] \in Running
  BY HandlerIs
<1>. DEFINE r == [lead |-> handler[h].lead, status |-> handler[h].status,
                  notify |-> "skipped", fanout |-> FALSE, letter |-> handler[h].letter,
                  restored |-> 0]
<1>2. r \in Submission
  BY <1>1 DEF Running, Submission
<1>3. submissions \in Seq(Submission) /\ Inserted(h) = Append(submissions, r)
  BY DEF TypeOK, Inserted
<1>4. r.lead = handler[h].lead /\ r.letter = handler[h].letter /\ r.status = handler[h].status
  OBVIOUS
<1>. HIDE DEF r
<1>. QED
  BY <1>2, <1>3, <1>4

LEMMA LetterAppended ==
  ASSUME TypeOK, NEW l \in Leads
  PROVE  LET new == Append(letters, NewLetter(l))
             n == Len(letters) + 1
         IN  /\ new \in Seq(Letter)
             /\ n \in Nat \ {0}
             /\ DOMAIN new = DOMAIN letters \union {n}
             /\ n \notin DOMAIN letters
             /\ \A d \in DOMAIN letters : new[d] = letters[d]
             /\ new[n].lead = l /\ new[n].outcome = "queued"
<1>1. /\ NewLetter(l) \in Letter
      /\ NewLetter(l).lead = l /\ NewLetter(l).outcome = "queued"
  BY DEF NewLetter, Letter
<1>2. letters \in Seq(Letter)
  BY DEF TypeOK
<1>. QED
  BY <1>1, <1>2

Visitor == [awaits : Requests \union {"none"}, told : {"nothing", "accepted", "failed"}]

LEMMA ToldIs ==
  ASSUME TypeOK, NEW h \in Handlers, ~At(h, "idle"), NEW what \in {"accepted", "failed"}
  PROVE  /\ Told(h, what) \in [Leads -> Visitor]
         /\ \A l \in Leads : Posted(l) =>
               Told(h, what)[l] # [awaits |-> "none", told |-> "nothing"]
         /\ \A l \in Leads : Told(h, what)[l].told = "accepted" =>
               \/ visitor[l].told = "accepted"
               \/ what = "accepted" /\ l = handler[h].lead
<1>1. handler[h].lead \in Leads
  BY HandlerIs DEF Running
<1>2. visitor \in [Leads -> Visitor]
  BY DEF TypeOK, Visitor
<1>. DEFINE v == [awaits |-> "none", told |-> what]
<1>3. v \in Visitor /\ v.told = what /\ v # [awaits |-> "none", told |-> "nothing"]
  <2>1. v.told # [awaits |-> "none", told |-> "nothing"].told
    OBVIOUS
  <2>. QED
    BY <2>1 DEF Visitor
<1>4. Told(h, what) \in {visitor, [visitor EXCEPT ![handler[h].lead] = v]}
  BY DEF Told
<1>. HIDE DEF v
<1>5. CASE Told(h, what) = visitor
  BY <1>2, <1>5 DEF Posted
<1>6. CASE Told(h, what) = [visitor EXCEPT ![handler[h].lead] = v]
  BY <1>1, <1>2, <1>3, <1>6 DEF Posted
<1>. QED
  BY <1>4, <1>5, <1>6

\* The parts of TypeOK other than the handlers', for the steps that touch few of them.
Stored ==
    /\ fleet \subseteq Sites
    /\ accepted \subseteq Leads
    /\ submissions \in Seq(Submission)
    /\ letters \in Seq(Letter)
    /\ visitor \in [Leads -> Visitor]
    /\ queue \subseteq DOMAIN letters
    /\ posts \in 0..MaxPosts /\ faults \in 0..MaxFaults /\ disturbed \in BOOLEAN

LEMMA Counted ==
  ASSUME TypeOK, Fault \/ NoFault
  PROVE  /\ faults' \in 0..MaxFaults /\ disturbed' \in BOOLEAN
         /\ faults <= faults' /\ (disturbed => disturbed')
<1>1. faults \in 0..MaxFaults /\ MaxFaults \in Nat /\ disturbed \in BOOLEAN
  BY LeadIntakeAssumption DEF TypeOK
<1>2. CASE Fault
  BY <1>1, <1>2 DEF Fault
<1>3. CASE NoFault
  BY <1>1, <1>3 DEF NoFault
<1>. QED
  BY <1>2, <1>3

LEMMA StopFits ==
  ASSUME TypeOK, NEW h \in Handlers, Stop(h), Stored',
         Len(submissions) <= Len(submissions')
  PROVE  TypeOK'
<1>1. Becomes(h, Idle)
  BY StopBecomes
<1>2. Idle.pc = "idle" /\ Idle \in {Idle} \union Running
  BY DEF Idle
<1>3. submissions' \in Seq(Submission)
  BY DEF Stored
<1>. QED
  BY <1>1, <1>2, <1>3, HandlersFit DEF Stored, Visitor, TypeOK

\* A handler that is under way and stays so, on a table that did not grow.
LEMMA GoesOnFits ==
  ASSUME TypeOK, NEW h \in Handlers, NEW x \in Running, Becomes(h, x), Stored',
         Len(submissions') = Len(submissions), ~At(h, "idle"),
         x.letter = handler[h].letter, x.sub = handler[h].sub,
         x.retro \subseteq DOMAIN submissions
  PROVE  TypeOK'
<1>1. submissions \in Seq(Submission) /\ submissions' \in Seq(Submission)
  BY DEF Stored, TypeOK
<1>2. /\ Len(submissions) <= Len(submissions') /\ DOMAIN submissions = DOMAIN submissions'
      /\ 0..Len(submissions) = 0..Len(submissions')
  BY <1>1
<1>3. /\ x.sub \in 0..Len(submissions')
      /\ x.retro \subseteq DOMAIN submissions'
      /\ h = "replay" <=> x.letter # 0
  BY <1>2, HandlerIs
<1>4. x \in {Idle} \union Running
  OBVIOUS
<1>. QED
  BY <1>1, <1>2, <1>3, <1>4, HandlersFit DEF Stored, Visitor, TypeOK

-----------------------------------------------------------------------------
(* What each step does *)

Rest == <<fleet, accepted, queue, posts>>

LEMMA TurnedAwayIs ==
  ASSUME TypeOK, NEW h \in Handlers, UnknownSite(h) \/ LookupThrows(h) \/ DeadLetterFails(h)
  PROVE  /\ At(h, "lookup") /\ ~At(h, "idle")
         /\ Stop(h)
         /\ UNCHANGED <<Rest, submissions>>
         /\ Fault \/ NoFault
         /\ \/ letters' = letters
            \/ letters' = Append(letters, NewLetter(handler[h].lead)) /\ handler[h].letter = 0
         /\ \/ visitor' = visitor
            \/ visitor' = Told(h, "failed")
            \/ /\ visitor' = Told(h, "accepted")
               /\ letters' = Append(letters, NewLetter(handler[h].lead))
<1>1. CASE UnknownSite(h)
  BY <1>1 DEF UnknownSite, At, Rest
<1>2. CASE LookupThrows(h)
  BY <1>2 DEF LookupThrows, At, Rest
<1>3. CASE DeadLetterFails(h)
  BY <1>3 DEF DeadLetterFails, At, Rest
<1>. QED
  BY <1>1, <1>2, <1>3

LEMMA SiteFoundIs ==
  ASSUME TypeOK, NEW h \in Handlers, SiteFound(h)
  PROVE  /\ At(h, "lookup") /\ ~At(h, "idle")
         /\ NoFault /\ UNCHANGED <<Rest, submissions, letters, visitor>>
         /\ \E x \in Running :
               /\ Becomes(h, x)
               /\ x.lead = handler[h].lead /\ x.letter = handler[h].letter
               /\ x.sub = handler[h].sub /\ x.retro = handler[h].retro
               /\ IF LeadOf(h).site \in Building THEN x.pc = "create" ELSE x.pc = "sender"
               /\ x.status = "spam_auto" => Lead[x.lead].spam /\ LeadOf(h).site \notin Building
<1>1. /\ At(h, "lookup") /\ ~At(h, "idle")
      /\ NoFault /\ UNCHANGED <<Rest, submissions, letters, visitor>>
  BY DEF SiteFound, At, Rest
<1>2. handler[h] \in Running
  BY <1>1, HandlerIs
<1>. DEFINE p == IF LeadOf(h).site \in Building THEN "create" ELSE "sender"
            s == IF LeadOf(h).spam /\ LeadOf(h).site \notin Building THEN "spam_auto" ELSE "new"
            x == [handler[h] EXCEPT !.pc = p, !.status = s]
<1>3. Becomes(h, x)
  BY DEF SiteFound, TypeOK, Becomes
<1>4. p \in {"create", "sender"} /\ s \in {"spam_auto", "new"}
  OBVIOUS
<1>5. s = "spam_auto" => LeadOf(h).spam /\ LeadOf(h).site \notin Building
  OBVIOUS
<1>6. IF LeadOf(h).site \in Building THEN p = "create" ELSE p = "sender"
  OBVIOUS
<1>. HIDE DEF p, s
<1>7. /\ x \in Running
      /\ x.lead = handler[h].lead /\ x.letter = handler[h].letter
      /\ x.sub = handler[h].sub /\ x.retro = handler[h].retro
      /\ x.pc = p /\ x.status = s
  BY <1>2, <1>4 DEF Running
<1>. HIDE DEF x
<1>. QED
  BY <1>1, <1>3, <1>5, <1>6, <1>7 DEF LeadOf

\* What a scan that found the rows of `matches` leaves of its handler.
AfterMatches(h, x, matches, mayRetro, retroPc, nextPc) ==
    /\ Becomes(h, x)
    /\ x.lead = handler[h].lead /\ x.letter = handler[h].letter /\ x.sub = handler[h].sub
    /\ x.retro = IF mayRetro THEN StillNew(matches) ELSE {}
    /\ x.pc = IF x.retro # {} THEN retroPc ELSE nextPc
    /\ x.status = IF matches # {} THEN "spam_auto" ELSE handler[h].status
    /\ x.retro \subseteq DOMAIN submissions

LEMMA ScannedIs ==
  ASSUME TypeOK, NEW h \in Handlers, ~At(h, "idle"),
         NEW matches \in SUBSET DOMAIN submissions, NEW mayRetro \in BOOLEAN,
         NEW retroPc \in {"retro_sender", "retro_body"}, NEW nextPc \in {"body", "create"},
         Scanned(h, matches, mayRetro, retroPc, nextPc)
  PROVE  \E x \in Running : AfterMatches(h, x, matches, mayRetro, retroPc, nextPc)
<1>1. handler[h] \in Running
  BY HandlerIs
<1>. DEFINE r == IF mayRetro THEN StillNew(matches) ELSE {}
            s == IF matches # {} THEN "spam_auto" ELSE handler[h].status
            p == IF r # {} THEN retroPc ELSE nextPc
            x == [handler[h] EXCEPT !.status = s, !.retro = r, !.pc = p]
<1>2. Becomes(h, x)
  BY DEF Scanned, TypeOK, Becomes
<1>3. r \subseteq DOMAIN submissions
  BY DEF StillNew
<1>4. DOMAIN submissions \subseteq Nat
  <2>1. submissions \in Seq(Submission)
    BY DEF TypeOK
  <2>. QED
    BY <2>1
<1>5. s \in {"spam_auto", "new"}
  BY <1>1 DEF Running
<1>6. p \in {"retro_sender", "retro_body", "body", "create"}
  OBVIOUS
<1>7. r \in SUBSET Nat
  BY <1>3, <1>4
<1>8. p = IF r # {} THEN retroPc ELSE nextPc
  OBVIOUS
<1>9. /\ r = IF mayRetro THEN StillNew(matches) ELSE {}
      /\ s = IF matches # {} THEN "spam_auto" ELSE handler[h].status
  OBVIOUS
<1>. HIDE DEF r, s, p
<1>10. /\ x \in Running
       /\ x.lead = handler[h].lead /\ x.letter = handler[h].letter
       /\ x.sub = handler[h].sub /\ x.retro = r
       /\ x.pc = p /\ x.status = s
  BY <1>1, <1>5, <1>6, <1>7 DEF Running
<1>. HIDE DEF x
<1>. QED
  BY <1>2, <1>3, <1>8, <1>9, <1>10 DEF AfterMatches

LEMMA MatchesAreRows ==
  ASSUME NEW l
  PROVE  /\ SenderMatches(l) \subseteq DOMAIN submissions
         /\ BodyMatches(l) \subseteq DOMAIN submissions
BY DEF SenderMatches, BodyMatches

SenderFound(h) ==
    IF IsContact(handler[h].lead) THEN SenderMatches(handler[h].lead) ELSE {}

LEMMA ScanSenderIs ==
  ASSUME TypeOK, NEW h \in Handlers, ScanSender(h)
  PROVE  /\ At(h, "sender") /\ ~At(h, "idle")
         /\ NoFault /\ UNCHANGED <<Rest, submissions, letters, visitor>>
         /\ \E x \in Running : AfterMatches(h, x, SenderFound(h), TRUE, "retro_sender", "body")
<1>1. /\ At(h, "sender") /\ ~At(h, "idle")
      /\ NoFault /\ UNCHANGED <<Rest, submissions, letters, visitor>>
  BY DEF ScanSender, At, Rest, Store
<1>2. Scanned(h, SenderFound(h), TRUE, "retro_sender", "body")
  BY DEF ScanSender, SenderFound
<1>3. SenderFound(h) \in SUBSET DOMAIN submissions
  BY MatchesAreRows DEF SenderFound
<1>. QED
  BY <1>1, <1>2, <1>3, ScannedIs

BodyFound(h) ==
    IF IsContact(handler[h].lead) /\ Lead[handler[h].lead].body # NoBody
    THEN BodyMatches(handler[h].lead) ELSE {}

LEMMA ScanBodyIs ==
  ASSUME TypeOK, NEW h \in Handlers, ScanBody(h)
  PROVE  /\ At(h, "body") /\ ~At(h, "idle")
         /\ NoFault /\ UNCHANGED <<Rest, submissions, letters, visitor>>
         /\ \E x \in Running :
               AfterMatches(h, x, BodyFound(h), Lead[handler[h].lead].mayRetro,
                            "retro_body", "create")
<1>1. /\ At(h, "body") /\ ~At(h, "idle")
      /\ NoFault /\ UNCHANGED <<Rest, submissions, letters, visitor>>
  BY DEF ScanBody, At, Rest, Store
<1>2. Scanned(h, BodyFound(h), Lead[handler[h].lead].mayRetro, "retro_body", "create")
  BY DEF ScanBody, BodyFound
<1>3. BodyFound(h) \in SUBSET DOMAIN submissions
  BY MatchesAreRows DEF BodyFound
<1>4. Lead[handler[h].lead].mayRetro \in BOOLEAN
  BY <1>1, HandlerIs, LeadIntakeAssumption DEF Running
<1>. QED
  BY <1>1, <1>2, <1>3, <1>4, ScannedIs

\* A step that only moves its handler on.
MovesTo(h, pc) ==
    \E x \in Running :
        /\ Becomes(h, x)
        /\ x.pc = pc
        /\ x.lead = handler[h].lead /\ x.letter = handler[h].letter
        /\ x.sub = handler[h].sub /\ x.retro = handler[h].retro
        /\ x.status = handler[h].status

LEMMA GotoMoves ==
  ASSUME TypeOK, NEW h \in Handlers, ~At(h, "idle"),
         NEW pc \in {"body", "create", "mark"}, Goto(h, pc)
  PROVE  MovesTo(h, pc)
<1>1. handler[h] \in Running
  BY HandlerIs
<1>. DEFINE x == [handler[h] EXCEPT !.pc = pc]
<1>2. Becomes(h, x)
  BY GotoBecomes
<1>3. /\ x \in Running
      /\ x.pc = pc /\ x.lead = handler[h].lead /\ x.letter = handler[h].letter
      /\ x.status = handler[h].status /\ x.retro = handler[h].retro
      /\ x.sub = handler[h].sub
  BY <1>1 DEF Running
<1>. HIDE DEF x
<1>. QED
  BY <1>2, <1>3 DEF MovesTo

LEMMA ScanFailsIs ==
  ASSUME TypeOK, NEW h \in Handlers, ScanFails(h)
  PROVE  /\ handler[h].pc \in {"sender", "retro_sender", "body", "retro_body"}
         /\ ~At(h, "idle")
         /\ Fault /\ UNCHANGED <<Rest, submissions, letters, visitor>>
         /\ MovesTo(h, AfterScan(h)) /\ AfterScan(h) \in {"body", "create"}
<1>1. /\ handler[h].pc \in {"sender", "retro_sender", "body", "retro_body"}
      /\ ~At(h, "idle")
      /\ Fault /\ UNCHANGED <<Rest, submissions, letters, visitor>>
  BY DEF ScanFails, At, Rest, Store
<1>2. Goto(h, AfterScan(h))
  BY DEF ScanFails
<1>3. AfterScan(h) \in {"body", "create"}
  BY DEF AfterScan
<1>. QED
  BY <1>1, <1>2, <1>3, GotoMoves

LEMMA RetroBucketIs ==
  ASSUME TypeOK, NEW h \in Handlers, RetroBucket(h)
  PROVE  /\ handler[h].pc \in {"retro_sender", "retro_body"} /\ ~At(h, "idle")
         /\ NoFault /\ UNCHANGED <<Rest, letters, visitor>>
         /\ MovesTo(h, AfterScan(h)) /\ AfterScan(h) \in {"body", "create"}
         /\ submissions' \in Seq(Submission) /\ Len(submissions') = Len(submissions)
         /\ \A i \in DOMAIN submissions :
               /\ submissions'[i].lead = submissions[i].lead
               /\ submissions'[i].letter = submissions[i].letter
               /\ submissions'[i].restored = submissions[i].restored
               /\ submissions'[i].status = IF i \in handler[h].retro
                                              /\ submissions[i].status = "new"
                                           THEN "spam_auto" ELSE submissions[i].status
<1>1. /\ handler[h].pc \in {"retro_sender", "retro_body"} /\ ~At(h, "idle")
      /\ NoFault /\ UNCHANGED <<Rest, letters, visitor>>
  BY DEF RetroBucket, At, Rest, Store
<1>2. Goto(h, AfterScan(h))
  BY DEF RetroBucket
<1>3. AfterScan(h) \in {"body", "create"}
  BY DEF AfterScan
<1>4. submissions \in Seq(Submission)
  BY DEF TypeOK
<1>5. /\ DOMAIN submissions = 1..Len(submissions) /\ Len(submissions) \in Nat
      /\ \A i \in DOMAIN submissions : submissions[i] \in Submission
  BY <1>4
<1>. DEFINE R == handler[h].retro
            rows == [i \in DOMAIN submissions |->
                        IF i \in StillNew(R)
                        THEN [submissions[i] EXCEPT !.status = "spam_auto"]
                        ELSE submissions[i]]
<1>6. submissions' = rows
  BY DEF RetroBucket
<1>7. ASSUME NEW i \in DOMAIN submissions
      PROVE  /\ rows[i] \in Submission
             /\ rows[i].lead = submissions[i].lead
             /\ rows[i].letter = submissions[i].letter
             /\ rows[i].restored = submissions[i].restored
             /\ rows[i].status = IF i \in R /\ submissions[i].status = "new"
                                 THEN "spam_auto" ELSE submissions[i].status
  <2>1. i \in StillNew(R) <=> i \in R /\ submissions[i].status = "new"
    BY DEF StillNew
  <2>2. submissions[i] \in Submission
    BY <1>5
  <2>. QED
    BY <2>1, <2>2 DEF Submission
<1>8. rows \in [1..Len(submissions) -> Submission]
  BY <1>5, <1>7
<1>9. rows \in Seq(Submission) /\ Len(rows) = Len(submissions)
  BY <1>5, <1>8
<1>. HIDE DEF rows
<1>. QED
  BY <1>1, <1>2, <1>3, <1>6, <1>7, <1>9, GotoMoves

\* A step that writes a field of rows that no other handler's steps depend on.
KeepsRows ==
    /\ submissions' \in Seq(Submission) /\ Len(submissions') = Len(submissions)
    /\ \A i \in DOMAIN submissions :
          /\ submissions'[i].lead = submissions[i].lead
          /\ submissions'[i].letter = submissions[i].letter

LEMMA CreateIs ==
  ASSUME TypeOK, NEW h \in Handlers, CreateSubmission(h)
  PROVE  /\ At(h, "create") /\ ~At(h, "idle")
         /\ NoFault /\ UNCHANGED <<Rest, letters>>
         /\ submissions' = Inserted(h)
         /\ visitor' \in {visitor, Told(h, "accepted")}
         /\ \E x \in Running :
               /\ Becomes(h, x)
               /\ x.pc = "tail" /\ x.lead = handler[h].lead
               /\ x.letter = handler[h].letter /\ x.status = handler[h].status
               /\ x.retro = {} /\ x.sub = Len(submissions) + 1
<1>1. /\ At(h, "create") /\ ~At(h, "idle")
      /\ NoFault /\ UNCHANGED <<Rest, letters>>
      /\ submissions' = Inserted(h)
      /\ visitor' \in {visitor, Told(h, "accepted")}
  BY DEF CreateSubmission, At, Rest
<1>2. handler[h] \in Running
  BY <1>1, HandlerIs
<1>3. Len(submissions) + 1 \in Nat
  BY <1>1, InsertedIs
<1>. DEFINE x == [handler[h] EXCEPT !.pc = "tail", !.retro = {}, !.sub = Len(submissions) + 1]
<1>4. Becomes(h, x)
  BY DEF CreateSubmission, TypeOK, Becomes
<1>5. /\ x \in Running
      /\ x.pc = "tail" /\ x.lead = handler[h].lead
      /\ x.letter = handler[h].letter /\ x.status = handler[h].status
      /\ x.retro = {} /\ x.sub = Len(submissions) + 1
  BY <1>2, <1>3 DEF Running
<1>. HIDE DEF x
<1>. QED
  BY <1>1, <1>4, <1>5

LEMMA CreateFailsIs ==
  ASSUME TypeOK, NEW h \in Handlers, CreateFails(h)
  PROVE  /\ At(h, "create") /\ ~At(h, "idle")
         /\ Fault /\ UNCHANGED <<Rest, letters>>
         /\ Stop(h)
         /\ submissions' \in {submissions, Inserted(h)}
         /\ visitor' \in {visitor, Told(h, "failed")}
BY DEF CreateFails, At, Rest

LEMMA RunTailIs ==
  ASSUME TypeOK, NEW h \in Handlers, RunTail(h)
  PROVE  /\ At(h, "tail") /\ ~At(h, "idle")
         /\ Fault \/ NoFault
         /\ UNCHANGED <<Rest, letters, visitor>>
         /\ IF h = "replay" THEN MovesTo(h, "mark") ELSE Stop(h)
         /\ KeepsRows
         /\ \A i \in DOMAIN submissions :
               /\ submissions'[i].status = submissions[i].status
               /\ submissions'[i].restored = submissions[i].restored
<1>1. /\ At(h, "tail") /\ ~At(h, "idle")
      /\ UNCHANGED <<Rest, letters, visitor>>
  BY DEF RunTail, At, Rest, Store
<1>2. IF h = "replay" THEN Goto(h, "mark") ELSE Stop(h)
  BY DEF RunTail, Finish
<1>3. IF h = "replay" THEN MovesTo(h, "mark") ELSE Stop(h)
  BY <1>1, <1>2, GotoMoves
<1>. DEFINE k == handler[h].sub
<1>4. PICK notify \in {"sent", "failed", "skipped"}, fanout \in BOOLEAN :
           /\ Fault \/ NoFault
           /\ submissions' = [submissions EXCEPT ![k].notify = notify, ![k].fanout = fanout]
  <2>1. IsSpam(h) \in BOOLEAN /\ IsContact(handler[h].lead) \in BOOLEAN
    BY DEF IsSpam, IsContact
  <2>. QED
    BY <2>1 DEF RunTail
<1>5. submissions \in Seq(Submission)
  BY DEF TypeOK
<1>6. /\ DOMAIN submissions = 1..Len(submissions) /\ Len(submissions) \in Nat
      /\ \A i \in DOMAIN submissions : submissions[i] \in Submission
  BY <1>5
<1>. DEFINE r == [[submissions[k] EXCEPT !.notify = notify] EXCEPT !.fanout = fanout]
            rows == [submissions EXCEPT ![k] = r]
<1>7. submissions' = rows
  BY <1>4, <1>6
<1>8. ASSUME k \in DOMAIN submissions
      PROVE  /\ r \in Submission /\ r.lead = submissions[k].lead
             /\ r.letter = submissions[k].letter /\ r.status = submissions[k].status
             /\ r.restored = submissions[k].restored
  <2>1. submissions[k] \in Submission
    BY <1>6, <1>8
  <2>. QED
    BY <2>1 DEF Submission
<1>. HIDE DEF r
<1>9. rows \in [1..Len(submissions) -> Submission]
  BY <1>6, <1>8
<1>10. rows \in Seq(Submission) /\ Len(rows) = Len(submissions)
  BY <1>6, <1>9
<1>11. \A i \in DOMAIN submissions :
          /\ rows[i].lead = submissions[i].lead
          /\ rows[i].letter = submissions[i].letter
          /\ rows[i].status = submissions[i].status
          /\ rows[i].restored = submissions[i].restored
  BY <1>8
<1>. HIDE DEF rows
<1>. QED
  BY <1>1, <1>3, <1>4, <1>7, <1>10, <1>11 DEF KeepsRows

LEMMA DiesIs ==
  ASSUME TypeOK, NEW h \in Handlers, Dies(h)
  PROVE  /\ ~At(h, "idle")
         /\ Fault /\ Stop(h)
         /\ UNCHANGED <<fleet, accepted, submissions, letters, posts>>
         /\ queue' \in {{}, queue}
         /\ visitor' \in {visitor, Told(h, "failed")}
BY DEF Dies

LEMMA NextLetterIs ==
  ASSUME TypeOK, NextLetter
  PROVE  /\ At("replay", "idle")
         /\ disturbed' = (disturbed \/ ~Quiet)
         /\ UNCHANGED <<fleet, accepted, submissions, letters, visitor, posts, faults>>
         /\ \E d \in queue, x \in Running :
               /\ d \in DOMAIN letters /\ d \in Nat \ {0} /\ letters[d].lead \in Leads
               /\ queue' = queue \ {d}
               /\ Becomes("replay", x)
               /\ x.pc \in {"lookup", "reject"}
               /\ x.lead = letters[d].lead /\ x.letter = d
               /\ x.status = "new" /\ x.retro = {} /\ x.sub = 0
<1>1. /\ At("replay", "idle")
      /\ disturbed' = (disturbed \/ ~Quiet)
      /\ UNCHANGED <<fleet, accepted, submissions, letters, visitor, posts, faults>>
  BY DEF NextLetter
<1>2. PICK d \in queue :
         /\ queue' = queue \ {d}
         /\ handler' = [handler EXCEPT
               !["replay"] = [Begin(letters[d].lead, d) EXCEPT
                   !.pc = IF letters[d].lead \in accepted THEN "lookup" ELSE "reject"]]
  BY DEF NextLetter
<1>3. letters \in Seq(Letter) /\ d \in DOMAIN letters
  BY DEF TypeOK
<1>4. d \in Nat \ {0} /\ letters[d].lead \in Leads
  <2>1. d \in 1..Len(letters) /\ letters[d] \in Letter
    BY <1>3
  <2>. QED
    BY <2>1 DEF Letter
<1>. DEFINE b == Begin(letters[d].lead, d)
            p == IF letters[d].lead \in accepted THEN "lookup" ELSE "reject"
            x == [b EXCEPT !.pc = p]
<1>5. /\ b \in Running
      /\ b.lead = letters[d].lead /\ b.letter = d
      /\ b.status = "new" /\ b.retro = {} /\ b.sub = 0
  BY <1>4, BeginIs
<1>6. p \in {"lookup", "reject"}
  OBVIOUS
<1>7. Becomes("replay", x)
  BY <1>2 DEF Becomes
<1>. HIDE DEF b, p
<1>8. /\ x \in Running /\ x.pc = p
      /\ x.lead = letters[d].lead /\ x.letter = d
      /\ x.status = "new" /\ x.retro = {} /\ x.sub = 0
  BY <1>5, <1>6 DEF Running
<1>. HIDE DEF x
<1>. QED
  BY <1>1, <1>2, <1>3, <1>4, <1>6, <1>7, <1>8

LEMMA MarkIs ==
  ASSUME TypeOK, MarkReplayed
  PROVE  /\ handler["replay"].pc \in {"mark", "reject"} /\ ~At("replay", "idle")
         /\ Stop("replay")
         /\ Fault \/ NoFault
         /\ UNCHANGED <<Rest, submissions, visitor>>
         /\ letters' \in Seq(Letter) /\ Len(letters') = Len(letters)
         /\ DOMAIN letters' = DOMAIN letters
         /\ \A d \in DOMAIN letters :
               /\ letters'[d].lead = letters[d].lead
               /\ \/ letters'[d] = letters[d]
                  \/ /\ d = handler["replay"].letter
                     /\ NoFault
                     /\ letters'[d].sub = handler["replay"].sub
                     /\ letters'[d].outcome =
                           IF At("replay", "mark") THEN "accepted" ELSE "rejected"
         /\ Fault => letters' = letters
         /\ NoFault => \A d \in DOMAIN letters : d = handler["replay"].letter =>
               letters'[d].outcome = IF At("replay", "mark") THEN "accepted" ELSE "rejected"
<1>1. /\ handler["replay"].pc \in {"mark", "reject"} /\ ~At("replay", "idle")
      /\ Stop("replay")
      /\ UNCHANGED <<Rest, submissions, visitor>>
  BY DEF MarkReplayed, At, Rest
<1>2. letters \in Seq(Letter)
  BY DEF TypeOK
<1>3. /\ DOMAIN letters = 1..Len(letters) /\ Len(letters) \in Nat
      /\ \A d \in DOMAIN letters : letters[d] \in Letter
  BY <1>2
<1>4. ~(Fault /\ NoFault)
  BY DEF Fault, NoFault, TypeOK
<1>. DEFINE k == handler["replay"].letter
            o == IF At("replay", "mark") THEN "accepted" ELSE "rejected"
            u == handler["replay"].sub
<1>5. CASE Fault /\ UNCHANGED letters
  BY <1>1, <1>2, <1>4, <1>5
<1>6. CASE NoFault /\ letters' = [letters EXCEPT ![k].outcome = o, ![k].sub = u]
  <2>1. u \in Nat /\ o \in {"accepted", "rejected"}
    BY <1>1, HandlerIs DEF Running, Handlers
  <2>. DEFINE r == [[letters[k] EXCEPT !.outcome = o] EXCEPT !.sub = u]
              new == [letters EXCEPT ![k] = r]
  <2>2. letters' = new
    BY <1>6, <1>3
  <2>. HIDE DEF o, u
  <2>3. ASSUME k \in DOMAIN letters
        PROVE  /\ r \in Letter /\ r.lead = letters[k].lead
               /\ r.outcome = o /\ r.sub = u
    <3>1. letters[k] \in Letter
      BY <1>3, <2>3
    <3>. QED
      BY <3>1, <2>1 DEF Letter
  <2>. HIDE DEF r
  <2>4. new \in [1..Len(letters) -> Letter]
    BY <1>3, <2>3
  <2>5. new \in Seq(Letter) /\ Len(new) = Len(letters) /\ DOMAIN new = DOMAIN letters
    BY <1>3, <2>4
  <2>6. \A d \in DOMAIN letters :
           /\ new[d].lead = letters[d].lead
           /\ \/ new[d] = letters[d]
              \/ d = k /\ new[d].sub = u /\ new[d].outcome = o
           /\ d = k => new[d].outcome = o
    BY <2>3
  <2>. HIDE DEF new
  <2>. QED
    BY <1>1, <1>4, <1>6, <2>2, <2>5, <2>6 DEF o, u
<1>7. \/ Fault /\ UNCHANGED letters
      \/ NoFault /\ letters' = [letters EXCEPT ![k].outcome = o, ![k].sub = u]
  BY DEF MarkReplayed
<1>. QED
  BY <1>5, <1>6, <1>7

LEMMA PostIs ==
  ASSUME TypeOK, NEW q \in Requests, NEW l \in Leads, Post(q, l)
  PROVE  /\ q \in Handlers /\ q # "replay" /\ At(q, "idle")
         /\ Becomes(q, Begin(l, 0))
         /\ disturbed' = (disturbed \/ ~Quiet)
         /\ UNCHANGED <<fleet, accepted, submissions, letters, queue, faults>>
         /\ posts' \in 0..MaxPosts
         /\ visitor' \in [Leads -> Visitor]
         /\ \A k \in Leads :
               /\ visitor'[k].told = visitor[k].told
               /\ k # l => visitor'[k] = visitor[k]
         /\ visitor'[l].awaits # "none"
<1>1. /\ q \in Handlers /\ At(q, "idle")
      /\ Becomes(q, Begin(l, 0))
      /\ disturbed' = (disturbed \/ ~Quiet)
      /\ UNCHANGED <<fleet, accepted, submissions, letters, queue, faults>>
  BY DEF Post, Becomes, Handlers
<1>2. q # "replay" /\ q # "none"
  BY LeadIntakeAssumption
<1>3. posts' \in 0..MaxPosts
  BY LeadIntakeAssumption DEF Post, TypeOK
<1>4. visitor \in [Leads -> Visitor] /\ visitor' = [visitor EXCEPT ![l].awaits = q]
  BY DEF Post, TypeOK, Visitor
<1>. DEFINE v == [visitor[l] EXCEPT !.awaits = q]
<1>5. v \in Visitor /\ v.told = visitor[l].told /\ v.awaits = q
  BY <1>4 DEF Visitor
<1>6. visitor' = [visitor EXCEPT ![l] = v]
  BY <1>4
<1>. HIDE DEF v
<1>7. /\ visitor' \in [Leads -> Visitor]
      /\ \A k \in Leads : /\ visitor'[k].told = visitor[k].told
                          /\ k # l => visitor'[k] = visitor[k]
      /\ visitor'[l].awaits = q
  BY <1>4, <1>5, <1>6
<1>. QED
  BY <1>1, <1>2, <1>3, <1>7

\* The operator takes a row out of the inbox, or puts it back.
Decides(i) == Triage(i) \/ Restore(i)

LEMMA DecidesIs ==
  ASSUME TypeOK, NEW i \in DOMAIN submissions, Decides(i)
  PROVE  /\ UNCHANGED <<Rest, letters, visitor, handler, faults, disturbed>>
         /\ KeepsRows
         /\ \A j \in DOMAIN submissions :
               /\ j # i => /\ submissions'[j].status = submissions[j].status
                          /\ submissions'[j].restored = submissions[j].restored
               /\ j = i => \/ /\ submissions'[j].status = "read"
                              /\ submissions'[j].restored = submissions[j].restored
                           \/ /\ submissions'[j].status = "new"
                              /\ submissions'[j].restored = Len(submissions)
<1>1. submissions \in Seq(Submission)
  BY DEF TypeOK
<1>2. /\ DOMAIN submissions = 1..Len(submissions) /\ Len(submissions) \in Nat
      /\ \A j \in DOMAIN submissions : submissions[j] \in Submission
  BY <1>1
<1>3. /\ UNCHANGED <<Rest, letters, visitor, handler, faults, disturbed>>
      /\ \/ submissions' = [submissions EXCEPT ![i].status = "read"]
         \/ submissions' = [submissions EXCEPT ![i].status = "new",
                                               ![i].restored = Len(submissions)]
  BY DEF Decides, Triage, Restore, Rest, Store
<1>4. PICK r \in Submission :
        /\ submissions' = [submissions EXCEPT ![i] = r]
        /\ r.lead = submissions[i].lead /\ r.letter = submissions[i].letter
        /\ \/ r.status = "read" /\ r.restored = submissions[i].restored
           \/ r.status = "new" /\ r.restored = Len(submissions)
  <2>. DEFINE out == [submissions[i] EXCEPT !.status = "read"]
              back == [[submissions[i] EXCEPT !.status = "new"]
                          EXCEPT !.restored = Len(submissions)]
  <2>1. /\ out \in Submission /\ back \in Submission
        /\ out.lead = submissions[i].lead /\ out.letter = submissions[i].letter
        /\ out.status = "read" /\ out.restored = submissions[i].restored
        /\ back.lead = submissions[i].lead /\ back.letter = submissions[i].letter
        /\ back.status = "new" /\ back.restored = Len(submissions)
    BY <1>2 DEF Submission
  <2>2. \/ submissions' = [submissions EXCEPT ![i] = out]
        \/ submissions' = [submissions EXCEPT ![i] = back]
    BY <1>2, <1>3
  <2>. HIDE DEF out, back
  <2>. QED
    BY <2>1, <2>2
<1>. DEFINE rows == [submissions EXCEPT ![i] = r]
<1>5. rows \in [1..Len(submissions) -> Submission]
  BY <1>2
<1>6. rows \in Seq(Submission) /\ Len(rows) = Len(submissions)
  BY <1>2, <1>5
<1>7. \A j \in DOMAIN submissions : rows[j] = IF j = i THEN r ELSE submissions[j]
  BY <1>2
<1>8. submissions' = rows
  BY <1>4
<1>. HIDE DEF rows
<1>. QED
  BY <1>3, <1>4, <1>6, <1>7, <1>8 DEF KeepsRows

LEMMA AbandonIs ==
  ASSUME TypeOK, NEW d \in DOMAIN letters, Abandon(d)
  PROVE  /\ UNCHANGED <<Rest, submissions, visitor, handler, faults, disturbed>>
         /\ letters' \in Seq(Letter) /\ Len(letters') = Len(letters)
         /\ DOMAIN letters' = DOMAIN letters
         /\ \A e \in DOMAIN letters :
               /\ letters'[e].lead = letters[e].lead
               /\ letters'[e].outcome = letters[e].outcome
               /\ letters'[e].sub = letters[e].sub
<1>1. /\ UNCHANGED <<Rest, submissions, visitor, handler, faults, disturbed>>
      /\ letters' = [letters EXCEPT ![d].abandoned = TRUE]
  BY DEF Abandon, Rest
<1>2. letters \in Seq(Letter)
  BY DEF TypeOK
<1>3. /\ DOMAIN letters = 1..Len(letters) /\ Len(letters) \in Nat
      /\ \A e \in DOMAIN letters : letters[e] \in Letter
  BY <1>2
<1>. DEFINE r == [letters[d] EXCEPT !.abandoned = TRUE]
            new == [letters EXCEPT ![d] = r]
<1>4. letters' = new
  BY <1>1, <1>3
<1>5. /\ r \in Letter /\ r.lead = letters[d].lead
      /\ r.outcome = letters[d].outcome /\ r.sub = letters[d].sub
  <2>1. letters[d] \in Letter
    BY <1>3
  <2>. QED
    BY <2>1 DEF Letter
<1>. HIDE DEF r
<1>6. new \in [1..Len(letters) -> Letter]
  BY <1>3, <1>5
<1>7. new \in Seq(Letter) /\ Len(new) = Len(letters) /\ DOMAIN new = DOMAIN letters
  BY <1>3, <1>6
<1>8. \A e \in DOMAIN letters :
         /\ new[e].lead = letters[e].lead
         /\ new[e].outcome = letters[e].outcome
         /\ new[e].sub = letters[e].sub
  BY <1>5
<1>. HIDE DEF new
<1>. QED
  BY <1>1, <1>4, <1>7, <1>8

LEMMA TimesOutIs ==
  ASSUME TypeOK, NEW l \in Leads, VisitorTimesOut(l)
  PROVE  /\ UNCHANGED <<Rest, submissions, letters, handler>> /\ Fault
         /\ visitor' \in [Leads -> Visitor]
         /\ \A k \in Leads : k # l => visitor'[k] = visitor[k]
         /\ visitor'[l].told = "failed"
<1>1. /\ UNCHANGED <<Rest, submissions, letters, handler>> /\ Fault
      /\ visitor' = [visitor EXCEPT ![l] = [awaits |-> "none", told |-> "failed"]]
  BY DEF VisitorTimesOut, Rest
<1>2. visitor \in [Leads -> Visitor] /\ [awaits |-> "none", told |-> "failed"] \in Visitor
  BY DEF TypeOK, Visitor
<1>. QED
  BY <1>1, <1>2

\* The steps that touch no row, letter, visitor or handler.
Aside ==
    /\ UNCHANGED <<submissions, letters, visitor, handler, posts, faults, disturbed>>
    /\ fleet' \subseteq Sites /\ accepted' \subseteq Leads
    /\ queue' = queue \/ (queue' = LiveQueue /\ At("replay", "idle"))

LEMMA AsideIs ==
  ASSUME TypeOK,
         \/ StartReplay
         \/ \E s \in Sites : EnsureSite(s)
         \/ \E l \in Leads : RetireForm(l)
         \/ UNCHANGED vars
  PROVE  Aside
BY DEF StartReplay, EnsureSite, RetireForm, vars, Aside, TypeOK

TurnedAway(h) == UnknownSite(h) \/ LookupThrows(h) \/ DeadLetterFails(h)

LEMMA StepCases ==
  ASSUME TypeOK, [Next]_vars
  PROVE  \/ \E q \in Requests, l \in Leads : Post(q, l)
         \/ \E l \in Leads : VisitorTimesOut(l)
         \/ \E h \in Handlers :
               \/ TurnedAway(h) \/ SiteFound(h) \/ ScanSender(h) \/ ScanBody(h)
               \/ ScanFails(h) \/ RetroBucket(h) \/ CreateSubmission(h) \/ CreateFails(h)
               \/ RunTail(h) \/ Dies(h)
         \/ NextLetter
         \/ MarkReplayed
         \/ \E i \in DOMAIN submissions : Decides(i)
         \/ \E d \in DOMAIN letters : Abandon(d)
         \/ Aside
<1>1. CASE \E h \in Handlers : Work(h) \/ Fails(h)
  BY <1>1 DEF Work, Fails, TurnedAway
<1>2. CASE Replay
  BY <1>2, AsideIs DEF Replay
<1>3. CASE \E s \in Sites : EnsureSite(s)
  BY <1>3, AsideIs
<1>4. CASE \E l \in Leads : RetireForm(l)
  BY <1>4, AsideIs
<1>5. CASE UNCHANGED vars
  BY <1>5, AsideIs
<1>. QED
  BY <1>1, <1>2, <1>3, <1>4, <1>5 DEF Next, Decides

LEMMA RestTyped ==
  ASSUME TypeOK, UNCHANGED <<Rest, letters>>
  PROVE  /\ fleet' \subseteq Sites /\ accepted' \subseteq Leads /\ posts' \in 0..MaxPosts
         /\ queue' \subseteq DOMAIN letters' /\ letters' \in Seq(Letter)
BY DEF Rest, TypeOK

LEMMA MovesFits ==
  ASSUME TypeOK, NEW h \in Handlers, ~At(h, "idle"), NEW pc, MovesTo(h, pc), Stored',
         Len(submissions') = Len(submissions)
  PROVE  TypeOK'
<1>1. PICK x \in Running :
        /\ Becomes(h, x)
        /\ x.letter = handler[h].letter
        /\ x.sub = handler[h].sub /\ x.retro = handler[h].retro
  BY DEF MovesTo
<1>2. x.retro \subseteq DOMAIN submissions
  BY <1>1, HandlerIs
<1>. QED
  BY <1>1, <1>2, GoesOnFits

LEMMA RowsTyped ==
  ASSUME TypeOK
  PROVE  /\ \A i \in DOMAIN submissions : submissions[i] \in Submission
         /\ \A d \in DOMAIN letters : letters[d] \in Letter
         /\ \A i \in DOMAIN submissions : submissions[i].lead \in Leads
         /\ \A d \in DOMAIN letters : letters[d].lead \in Leads
<1>1. submissions \in Seq(Submission) /\ letters \in Seq(Letter)
  BY DEF TypeOK
<1>2. /\ \A i \in DOMAIN submissions : submissions[i] \in Submission
      /\ \A d \in DOMAIN letters : letters[d] \in Letter
  BY <1>1
<1>. QED
  BY <1>2 DEF Submission, Letter

LEMMA TypesKept ==
  ASSUME TypeOK, [Next]_vars
  PROVE  TypeOK'
<1>0. /\ submissions \in Seq(Submission) /\ letters \in Seq(Letter)
      /\ visitor \in [Leads -> Visitor]
      /\ faults \in 0..MaxFaults /\ disturbed \in BOOLEAN /\ posts \in 0..MaxPosts
      /\ Len(submissions) \in Nat
  BY DEF TypeOK, Visitor
<1>1. ASSUME NEW q \in Requests, NEW l \in Leads, Post(q, l) PROVE TypeOK'
  <2>1. Stored'
    BY <1>1, PostIs, <1>0 DEF Stored, TypeOK
  <2>. DEFINE x == Begin(l, 0)
  <2>2. x \in Running /\ x.sub = 0 /\ x.retro = {} /\ x.letter = 0
    BY BeginIs
  <2>. HIDE DEF x
  <2>3. /\ q \in Handlers /\ q # "replay" /\ Becomes(q, x) /\ submissions' = submissions
    BY <1>1, PostIs DEF x
  <2>4. x.sub \in 0..Len(submissions')
    BY <2>2, <2>3, <1>0
  <2>. QED
    BY <1>0, <2>1, <2>2, <2>3, <2>4, HandlersFit DEF Stored, Visitor, TypeOK
<1>2. ASSUME NEW l \in Leads, VisitorTimesOut(l) PROVE TypeOK'
  <2>1. Stored'
    BY <1>2, TimesOutIs, Counted, RestTyped, <1>0 DEF Stored, Rest
  <2>. QED
    BY <2>1, <1>2, TimesOutIs DEF Stored, Visitor, TypeOK, At
<1>3. ASSUME NEW h \in Handlers, TurnedAway(h) PROVE TypeOK'
  <2>1. /\ At(h, "lookup") /\ ~At(h, "idle")
        /\ Stop(h)
        /\ UNCHANGED <<Rest, submissions>>
        /\ Fault \/ NoFault
        /\ letters' \in {letters, Append(letters, NewLetter(handler[h].lead))}
        /\ visitor' \in {visitor, Told(h, "failed"), Told(h, "accepted")}
    BY <1>3, TurnedAwayIs DEF TurnedAway
  <2>2. handler[h].lead \in Leads
    BY <2>1, HandlerIs DEF Running
  <2>3. letters' \in Seq(Letter) /\ DOMAIN letters \subseteq DOMAIN letters'
    BY <2>1, <2>2, <1>0, LetterAppended
  <2>4. visitor' \in [Leads -> Visitor]
    BY <2>1, ToldIs, <1>0
  <2>5. Stored'
    BY <2>1, <2>3, <2>4, Counted DEF Stored, TypeOK, Rest
  <2>6. Len(submissions) <= Len(submissions')
    BY <2>1, <1>0
  <2>. QED
    BY <2>1, <2>5, <2>6, StopFits
<1>4. ASSUME NEW h \in Handlers, SiteFound(h) PROVE TypeOK'
  <2>1. PICK x \in Running :
               /\ Becomes(h, x)
               /\ x.letter = handler[h].letter
               /\ x.sub = handler[h].sub /\ x.retro = handler[h].retro
    BY <1>4, SiteFoundIs
  <2>2. /\ ~At(h, "idle") /\ NoFault /\ UNCHANGED <<Rest, submissions, letters, visitor>>
    BY <1>4, SiteFoundIs
  <2>3. Stored'
    BY <2>2, Counted, RestTyped, <1>0 DEF Stored
  <2>4. x.retro \subseteq DOMAIN submissions
    BY <2>1, <2>2, HandlerIs
  <2>. QED
    BY <2>1, <2>2, <2>3, <2>4, GoesOnFits
<1>5. ASSUME NEW h \in Handlers, ScanSender(h) \/ ScanBody(h) PROVE TypeOK'
  <2>1. /\ ~At(h, "idle") /\ NoFault /\ UNCHANGED <<Rest, submissions, letters, visitor>>
    BY <1>5, ScanSenderIs, ScanBodyIs
  <2>2. \E x \in Running : \E m, r, p, n : AfterMatches(h, x, m, r, p, n)
    BY <1>5, ScanSenderIs, ScanBodyIs
  <2>3. PICK x \in Running : /\ Becomes(h, x)
                             /\ x.letter = handler[h].letter /\ x.sub = handler[h].sub
                             /\ x.retro \subseteq DOMAIN submissions
    BY <2>2 DEF AfterMatches
  <2>4. Stored'
    BY <2>1, Counted, RestTyped, <1>0 DEF Stored
  <2>. QED
    BY <2>1, <2>3, <2>4, GoesOnFits
<1>6. ASSUME NEW h \in Handlers, ScanFails(h) PROVE TypeOK'
  <2>1. Stored'
    BY <1>6, ScanFailsIs, Counted, RestTyped, <1>0 DEF Stored
  <2>. QED
    BY <1>6, <2>1, ScanFailsIs, MovesFits
<1>7. ASSUME NEW h \in Handlers, RetroBucket(h) PROVE TypeOK'
  <2>1. Stored'
    BY <1>7, RetroBucketIs, Counted, RestTyped, <1>0 DEF Stored
  <2>. QED
    BY <1>7, <2>1, RetroBucketIs, MovesFits
<1>8. ASSUME NEW h \in Handlers, CreateSubmission(h) PROVE TypeOK'
  <2>1. /\ ~At(h, "idle") /\ NoFault /\ UNCHANGED <<Rest, letters>>
        /\ submissions' = Inserted(h)
        /\ visitor' \in {visitor, Told(h, "accepted")}
    BY <1>8, CreateIs
  <2>2. PICK x \in Running : /\ Becomes(h, x) /\ x.letter = handler[h].letter
                             /\ x.retro = {} /\ x.sub = Len(submissions) + 1
    BY <1>8, CreateIs
  <2>3. /\ submissions' \in Seq(Submission) /\ Len(submissions') = Len(submissions) + 1
    BY <2>1, InsertedIs
  <2>4. visitor' \in [Leads -> Visitor]
    BY <2>1, ToldIs, <1>0
  <2>5. Stored'
    BY <2>1, <2>3, <2>4, Counted, RestTyped DEF Stored
  <2>6. /\ x.sub \in 0..Len(submissions') /\ x.retro \subseteq DOMAIN submissions'
        /\ Len(submissions) <= Len(submissions')
    BY <2>2, <2>3, <1>0
  <2>7. h = "replay" <=> x.letter # 0
    BY <2>1, <2>2, HandlerIs
  <2>. QED
    BY <2>2, <2>3, <2>5, <2>6, <2>7, HandlersFit DEF Stored, Visitor, TypeOK
<1>9. ASSUME NEW h \in Handlers, CreateFails(h) PROVE TypeOK'
  <2>1. /\ ~At(h, "idle") /\ Fault /\ Stop(h) /\ UNCHANGED <<Rest, letters>>
        /\ submissions' \in {submissions, Inserted(h)}
        /\ visitor' \in {visitor, Told(h, "failed")}
    BY <1>9, CreateFailsIs
  <2>3. submissions' \in Seq(Submission) /\ Len(submissions) <= Len(submissions')
    BY <2>1, InsertedIs, <1>0
  <2>4. visitor' \in [Leads -> Visitor]
    BY <2>1, ToldIs, <1>0
  <2>5. Stored'
    BY <2>1, <2>3, <2>4, Counted, RestTyped DEF Stored
  <2>. QED
    BY <2>1, <2>3, <2>5, StopFits
<1>10. ASSUME NEW h \in Handlers, RunTail(h) PROVE TypeOK'
  <2>1. Stored' /\ Len(submissions) <= Len(submissions') /\ Len(submissions') = Len(submissions)
    BY <1>10, RunTailIs, Counted, RestTyped, <1>0 DEF Stored, KeepsRows
  <2>. QED
    BY <1>10, <2>1, RunTailIs, MovesFits, StopFits
<1>11. ASSUME NEW h \in Handlers, Dies(h) PROVE TypeOK'
  <2>1. visitor' \in [Leads -> Visitor]
    BY <1>11, DiesIs, ToldIs, <1>0
  <2>2. Stored' /\ Len(submissions) <= Len(submissions')
    BY <1>11, <2>1, <1>0, DiesIs, Counted DEF Stored, TypeOK
  <2>. QED
    BY <1>11, <2>2, DiesIs, StopFits
<1>12. ASSUME NextLetter PROVE TypeOK'
  <2>1. PICK d \in queue, x \in Running :
               /\ d \in Nat \ {0} /\ queue' = queue \ {d}
               /\ Becomes("replay", x)
               /\ x.letter = d /\ x.retro = {} /\ x.sub = 0
    BY <1>12, NextLetterIs
  <2>2. /\ disturbed' = (disturbed \/ ~Quiet)
        /\ UNCHANGED <<fleet, accepted, submissions, letters, visitor, posts, faults>>
    BY <1>12, NextLetterIs
  <2>3. Stored'
    BY <2>1, <2>2, <1>0 DEF Stored, TypeOK
  <2>4. /\ submissions' \in Seq(Submission) /\ Len(submissions) <= Len(submissions')
        /\ x.sub \in 0..Len(submissions')
        /\ "replay" \in Handlers
    BY <2>1, <2>2, <1>0 DEF Handlers
  <2>. QED
    BY <2>1, <2>3, <2>4, HandlersFit DEF Stored, Visitor, TypeOK
<1>13. ASSUME MarkReplayed PROVE TypeOK'
  <2>1. Stored' /\ Len(submissions) <= Len(submissions') /\ "replay" \in Handlers
    BY <1>13, MarkIs, Counted, <1>0 DEF Stored, TypeOK, Rest, Handlers
  <2>. QED
    BY <1>13, <2>1, MarkIs, StopFits
<1>14. ASSUME NEW i \in DOMAIN submissions, Decides(i) PROVE TypeOK'
  <2>1. Stored' /\ handler' = handler /\ Len(submissions') = Len(submissions)
    BY <1>14, DecidesIs, <1>0 DEF Stored, TypeOK, Rest, KeepsRows
  <2>2. DOMAIN submissions' = DOMAIN submissions
    BY <2>1, <1>0 DEF Stored
  <2>. QED
    BY <2>1, <2>2 DEF Stored, Visitor, TypeOK, At
<1>15. ASSUME NEW d \in DOMAIN letters, Abandon(d) PROVE TypeOK'
  BY <1>15, AbandonIs DEF TypeOK, At, Rest
<1>16. ASSUME Aside PROVE TypeOK'
  <2>1. queue' \subseteq DOMAIN letters'
    BY <1>16 DEF Aside, LiveQueue, TypeOK
  <2>. QED
    BY <1>16, <2>1 DEF Aside, TypeOK, At
<1>. QED
  BY StepCases, <1>1, <1>2, <1>3, <1>4, <1>5, <1>6, <1>7, <1>8, <1>9, <1>10, <1>11,
     <1>12, <1>13, <1>14, <1>15, <1>16

-----------------------------------------------------------------------------
(* What any step leaves of the rows, the letters and the visitors *)

Rebucketing(h, i) ==
    handler[h].pc \in {"retro_sender", "retro_body"} /\ i \in handler[h].retro

RowsStay ==
    \A i \in DOMAIN submissions :
        /\ i \in DOMAIN submissions'
        /\ submissions'[i].lead = submissions[i].lead
        /\ submissions'[i].letter = submissions[i].letter
        /\ submissions[i].status = "read" => submissions'[i].status \in {"read", "new"}
        /\ submissions[i].status # "new" /\ submissions'[i].status = "new" =>
              submissions'[i].restored = Len(submissions)
        /\ submissions'[i].restored \in {submissions[i].restored, Len(submissions)}
        /\ submissions'[i].status = "spam_auto" =>
              \/ submissions[i].status = "spam_auto"
              \/ \E h \in Handlers : Rebucketing(h, i)

\* Row i is the one row that handler h makes.
Makes(h, i) ==
    /\ At(h, "create") /\ (CreateSubmission(h) \/ CreateFails(h))
    /\ i = Len(submissions) + 1 /\ DOMAIN submissions' = DOMAIN submissions \union {i}
    /\ \A j \in DOMAIN submissions : j < i
    /\ submissions' = Inserted(h)
    /\ submissions'[i].lead = handler[h].lead
    /\ submissions'[i].letter = handler[h].letter
    /\ submissions'[i].status = handler[h].status

RowsAreMade ==
    \A i \in DOMAIN submissions' : i \notin DOMAIN submissions => \E h \in Handlers : Makes(h, i)

LEMMA SameRows ==
  ASSUME TypeOK, UNCHANGED submissions
  PROVE  RowsStay /\ RowsAreMade
BY DEF RowsStay, RowsAreMade

LEMMA InsertMakes ==
  ASSUME TypeOK, NEW h \in Handlers, At(h, "create"), CreateSubmission(h) \/ CreateFails(h),
         submissions' = Inserted(h)
  PROVE  RowsStay /\ RowsAreMade /\ Makes(h, Len(submissions) + 1)
<1>. DEFINE n == Len(submissions) + 1
            rows == Inserted(h)
<1>1. /\ DOMAIN rows = DOMAIN submissions \union {n}
      /\ \A i \in DOMAIN submissions : rows[i] = submissions[i] /\ i < n
      /\ rows[n].lead = handler[h].lead /\ rows[n].letter = handler[h].letter
      /\ rows[n].status = handler[h].status
  BY InsertedIs DEF At
<1>2. submissions' = rows /\ n = Len(submissions) + 1
  OBVIOUS
<1>. HIDE DEF rows, n
<1>3. Makes(h, n)
  BY <1>1, <1>2 DEF Makes, rows
<1>4. RowsAreMade
  BY <1>1, <1>2, <1>3 DEF RowsAreMade
<1>5. RowsStay
  BY <1>1, <1>2 DEF RowsStay
<1>. QED
  BY <1>2, <1>3, <1>4, <1>5

LEMMA SameDomain ==
  ASSUME TypeOK, KeepsRows
  PROVE  DOMAIN submissions' = DOMAIN submissions
BY DEF TypeOK, KeepsRows

LEMMA RowsStep ==
  ASSUME TypeOK, [Next]_vars
  PROVE  RowsStay /\ RowsAreMade
<1>1. ASSUME NEW h \in Handlers, RetroBucket(h) PROVE RowsStay /\ RowsAreMade
  <2>1. KeepsRows
    BY <1>1, RetroBucketIs DEF KeepsRows
  <2>2. DOMAIN submissions' = DOMAIN submissions
    BY <2>1, SameDomain
  <2>3. ASSUME NEW i \in DOMAIN submissions
        PROVE  /\ submissions'[i].lead = submissions[i].lead
               /\ submissions'[i].letter = submissions[i].letter
               /\ submissions[i].status # "new" => submissions'[i].status = submissions[i].status
               /\ submissions'[i].restored = submissions[i].restored
               /\ submissions'[i].status = "spam_auto" =>
                     submissions[i].status = "spam_auto" \/ Rebucketing(h, i)
    <3>1. /\ submissions'[i].lead = submissions[i].lead
          /\ submissions'[i].letter = submissions[i].letter
          /\ submissions'[i].restored = submissions[i].restored
          /\ submissions'[i].status = IF i \in handler[h].retro /\ submissions[i].status = "new"
                                      THEN "spam_auto" ELSE submissions[i].status
          /\ handler[h].pc \in {"retro_sender", "retro_body"}
      BY <1>1, RetroBucketIs
    <3>. QED
      BY <3>1 DEF Rebucketing
  <2>. QED
    BY <2>2, <2>3 DEF RowsStay, RowsAreMade
<1>2. ASSUME NEW h \in Handlers, CreateSubmission(h) PROVE RowsStay /\ RowsAreMade
  BY <1>2, CreateIs, InsertMakes
<1>3. ASSUME NEW h \in Handlers, CreateFails(h) PROVE RowsStay /\ RowsAreMade
  BY <1>3, CreateFailsIs, InsertMakes, SameRows
<1>4. ASSUME NEW h \in Handlers, RunTail(h) PROVE RowsStay /\ RowsAreMade
  BY <1>4, RunTailIs, SameDomain DEF RowsStay, RowsAreMade, KeepsRows
<1>5. ASSUME NEW i \in DOMAIN submissions, Decides(i) PROVE RowsStay /\ RowsAreMade
  BY <1>5, DecidesIs, SameDomain DEF RowsStay, RowsAreMade, KeepsRows
<1>6. ASSUME NEW q \in Requests, NEW l \in Leads, Post(q, l) PROVE RowsStay /\ RowsAreMade
  BY <1>6, PostIs, SameRows
<1>7. ASSUME NEW l \in Leads, VisitorTimesOut(l) PROVE RowsStay /\ RowsAreMade
  BY <1>7, TimesOutIs, SameRows
<1>8. ASSUME NEW h \in Handlers, TurnedAway(h) PROVE RowsStay /\ RowsAreMade
  BY <1>8, TurnedAwayIs, SameRows DEF TurnedAway
<1>9. ASSUME NEW h \in Handlers,
             SiteFound(h) \/ ScanSender(h) \/ ScanBody(h) \/ ScanFails(h) \/ Dies(h)
      PROVE  RowsStay /\ RowsAreMade
  BY <1>9, SiteFoundIs, ScanSenderIs, ScanBodyIs, ScanFailsIs, DiesIs, SameRows
<1>10. ASSUME NextLetter \/ MarkReplayed PROVE RowsStay /\ RowsAreMade
  BY <1>10, NextLetterIs, MarkIs, SameRows
<1>11. ASSUME NEW d \in DOMAIN letters, Abandon(d) PROVE RowsStay /\ RowsAreMade
  BY <1>11, AbandonIs, SameRows
<1>12. ASSUME Aside PROVE RowsStay /\ RowsAreMade
  BY <1>12, SameRows DEF Aside
<1>. QED
  BY StepCases, <1>1, <1>2, <1>3, <1>4, <1>5, <1>6, <1>7, <1>8, <1>9, <1>10, <1>11, <1>12

\* The replay marks letter d placed.
Marks(d) ==
    /\ At("replay", "mark") /\ d = handler["replay"].letter
    /\ letters'[d].sub = handler["replay"].sub

LettersStay ==
    \A d \in DOMAIN letters :
        /\ d \in DOMAIN letters'
        /\ letters'[d].lead = letters[d].lead
        /\ letters'[d].outcome = "accepted" =>
              \/ letters[d].outcome = "accepted" /\ letters'[d].sub = letters[d].sub
              \/ Marks(d)
        /\ \/ letters'[d].outcome = letters[d].outcome
           \/ ~At("replay", "idle") /\ d = handler["replay"].letter /\ Stop("replay")

LettersAreMade ==
    \A d \in DOMAIN letters' : d \notin DOMAIN letters =>
        /\ letters'[d].outcome = "queued"
        /\ \E h \in Handlers : ~At(h, "idle") /\ letters'[d].lead = handler[h].lead

LEMMA SameLetters ==
  ASSUME UNCHANGED letters
  PROVE  LettersStay /\ LettersAreMade
BY DEF LettersStay, LettersAreMade

LEMMA LettersStep ==
  ASSUME TypeOK, [Next]_vars
  PROVE  LettersStay /\ LettersAreMade
<1>1. ASSUME NEW h \in Handlers, TurnedAway(h) PROVE LettersStay /\ LettersAreMade
  <2>1. /\ ~At(h, "idle")
        /\ letters' \in {letters, Append(letters, NewLetter(handler[h].lead))}
    BY <1>1, TurnedAwayIs DEF TurnedAway
  <2>. DEFINE new == Append(letters, NewLetter(handler[h].lead))
              n == Len(letters) + 1
  <2>2. handler[h].lead \in Leads
    BY <2>1, HandlerIs DEF Running
  <2>3. /\ DOMAIN new = DOMAIN letters \union {n}
        /\ \A d \in DOMAIN letters : new[d] = letters[d]
        /\ new[n].lead = handler[h].lead /\ new[n].outcome = "queued"
    BY <2>2, LetterAppended
  <2>4. letters' \in {letters, new}
    BY <2>1
  <2>. HIDE DEF new, n
  <2>5. CASE letters' = new
    BY <2>1, <2>3, <2>5 DEF LettersStay, LettersAreMade
  <2>. QED
    BY <2>4, <2>5, SameLetters
<1>2. ASSUME MarkReplayed PROVE LettersStay /\ LettersAreMade
  <2>1. /\ DOMAIN letters' = DOMAIN letters
        /\ ~At("replay", "idle") /\ Stop("replay")
    BY <1>2, MarkIs
  <2>2. \A d \in DOMAIN letters :
               /\ letters'[d].lead = letters[d].lead
               /\ \/ letters'[d] = letters[d]
                  \/ /\ d = handler["replay"].letter
                     /\ letters'[d].sub = handler["replay"].sub
                     /\ letters'[d].outcome =
                           IF At("replay", "mark") THEN "accepted" ELSE "rejected"
    BY <1>2, MarkIs
  <2>3. LettersAreMade
    BY <2>1 DEF LettersAreMade
  <2>4. LettersStay
    BY <2>1, <2>2 DEF LettersStay, Marks
  <2>. QED
    BY <2>3, <2>4
<1>3. ASSUME NEW e \in DOMAIN letters, Abandon(e) PROVE LettersStay /\ LettersAreMade
  BY <1>3, AbandonIs DEF LettersStay, LettersAreMade
<1>4. ASSUME NEW q \in Requests, NEW l \in Leads, Post(q, l)
      PROVE  LettersStay /\ LettersAreMade
  BY <1>4, PostIs, SameLetters
<1>5. ASSUME NEW l \in Leads, VisitorTimesOut(l) PROVE LettersStay /\ LettersAreMade
  BY <1>5, TimesOutIs, SameLetters
<1>6. ASSUME NEW h \in Handlers,
             SiteFound(h) \/ ScanSender(h) \/ ScanBody(h) \/ ScanFails(h) \/ Dies(h)
      PROVE  LettersStay /\ LettersAreMade
  BY <1>6, SiteFoundIs, ScanSenderIs, ScanBodyIs, ScanFailsIs, DiesIs, SameLetters
<1>7. ASSUME NEW h \in Handlers,
             RetroBucket(h) \/ CreateSubmission(h) \/ CreateFails(h) \/ RunTail(h)
      PROVE  LettersStay /\ LettersAreMade
  BY <1>7, RetroBucketIs, CreateIs, CreateFailsIs, RunTailIs, SameLetters
<1>8. ASSUME NextLetter \/ Aside PROVE LettersStay /\ LettersAreMade
  BY <1>8, NextLetterIs, SameLetters DEF Aside
<1>9. ASSUME NEW i \in DOMAIN submissions, Decides(i) PROVE LettersStay /\ LettersAreMade
  BY <1>9, DecidesIs, SameLetters
<1>. QED
  BY StepCases, <1>1, <1>2, <1>3, <1>4, <1>5, <1>6, <1>7, <1>8, <1>9

VisitorsStay == \A l \in Leads : Posted(l) => Posted(l)'

VisitorsAreTold ==
    \A l \in Leads : visitor'[l].told = "accepted" =>
        \/ visitor[l].told = "accepted"
        \/ \E i \in DOMAIN submissions' : submissions'[i].lead = l
        \/ \E d \in DOMAIN letters' : letters'[d].lead = l

LEMMA SameVisitors ==
  ASSUME UNCHANGED visitor
  PROVE  VisitorsStay /\ VisitorsAreTold
BY DEF VisitorsStay, VisitorsAreTold, Posted

LEMMA VisitorsStep ==
  ASSUME TypeOK, [Next]_vars
  PROVE  VisitorsStay /\ VisitorsAreTold
<1>1. ASSUME NEW q \in Requests, NEW l \in Leads, Post(q, l)
      PROVE  VisitorsStay /\ VisitorsAreTold
  <2>1. /\ \A k \in Leads : /\ visitor'[k].told = visitor[k].told
                            /\ k # l => visitor'[k] = visitor[k]
        /\ visitor'[l].awaits # "none"
    BY <1>1, PostIs
  <2>2. visitor'[l] # [awaits |-> "none", told |-> "nothing"]
    BY <2>1
  <2>. QED
    BY <2>1, <2>2 DEF VisitorsStay, VisitorsAreTold, Posted
<1>2. ASSUME NEW l \in Leads, VisitorTimesOut(l) PROVE VisitorsStay /\ VisitorsAreTold
  <2>1. /\ \A k \in Leads : k # l => visitor'[k] = visitor[k]
        /\ visitor'[l].told = "failed"
    BY <1>2, TimesOutIs
  <2>2. visitor'[l] # [awaits |-> "none", told |-> "nothing"]
    BY <2>1
  <2>. QED
    BY <2>1, <2>2 DEF VisitorsStay, VisitorsAreTold, Posted
<1>3. ASSUME NEW h \in Handlers, ~At(h, "idle"), visitor' \in {visitor, Told(h, "failed")}
      PROVE  VisitorsStay /\ VisitorsAreTold
  BY <1>3, ToldIs, SameVisitors DEF VisitorsStay, VisitorsAreTold, Posted
<1>4. ASSUME NEW h \in Handlers, TurnedAway(h) PROVE VisitorsStay /\ VisitorsAreTold
  <2>1. /\ ~At(h, "idle")
        /\ \/ visitor' = visitor
           \/ visitor' = Told(h, "failed")
           \/ /\ visitor' = Told(h, "accepted")
              /\ letters' = Append(letters, NewLetter(handler[h].lead))
    BY <1>4, TurnedAwayIs DEF TurnedAway
  <2>2. CASE /\ visitor' = Told(h, "accepted")
             /\ letters' = Append(letters, NewLetter(handler[h].lead))
    <3>1. handler[h].lead \in Leads
      BY <2>1, HandlerIs DEF Running
    <3>2. \E d \in DOMAIN letters' : letters'[d].lead = handler[h].lead
      BY <2>2, <3>1, LetterAppended
    <3>. QED
      BY <2>1, <2>2, <3>2, ToldIs DEF VisitorsStay, VisitorsAreTold, Posted
  <2>. QED
    BY <2>1, <2>2, <1>3
<1>5. ASSUME NEW h \in Handlers, CreateSubmission(h) PROVE VisitorsStay /\ VisitorsAreTold
  <2>1. /\ ~At(h, "idle")
        /\ visitor' \in {visitor, Told(h, "accepted")}
        /\ submissions' = Inserted(h)
    BY <1>5, CreateIs
  <2>2. \E i \in DOMAIN submissions' : submissions'[i].lead = handler[h].lead
    BY <2>1, InsertedIs
  <2>3. CASE visitor' = Told(h, "accepted")
    BY <2>1, <2>2, <2>3, ToldIs DEF VisitorsStay, VisitorsAreTold, Posted
  <2>. QED
    BY <2>1, <2>3, SameVisitors
<1>6. ASSUME NEW h \in Handlers, CreateFails(h) \/ Dies(h)
      PROVE  VisitorsStay /\ VisitorsAreTold
  BY <1>6, <1>3, CreateFailsIs, DiesIs
<1>7. ASSUME NEW h \in Handlers,
             SiteFound(h) \/ ScanSender(h) \/ ScanBody(h) \/ ScanFails(h)
      PROVE  VisitorsStay /\ VisitorsAreTold
  BY <1>7, SiteFoundIs, ScanSenderIs, ScanBodyIs, ScanFailsIs, SameVisitors
<1>8. ASSUME NEW h \in Handlers, RetroBucket(h) \/ RunTail(h)
      PROVE  VisitorsStay /\ VisitorsAreTold
  BY <1>8, RetroBucketIs, RunTailIs, SameVisitors
<1>9. ASSUME NextLetter \/ MarkReplayed \/ Aside PROVE VisitorsStay /\ VisitorsAreTold
  BY <1>9, NextLetterIs, MarkIs, SameVisitors DEF Aside
<1>10. ASSUME NEW i \in DOMAIN submissions, Decides(i) PROVE VisitorsStay /\ VisitorsAreTold
  BY <1>10, DecidesIs, SameVisitors
<1>11. ASSUME NEW d \in DOMAIN letters, Abandon(d) PROVE VisitorsStay /\ VisitorsAreTold
  BY <1>11, AbandonIs, SameVisitors
<1>. QED
  BY StepCases, <1>1, <1>2, <1>4, <1>5, <1>6, <1>7, <1>8, <1>9, <1>10, <1>11

-----------------------------------------------------------------------------
(* What any step leaves of the handlers *)

\* Handler g takes up a post or a letter.
Begins(g) ==
    /\ At(g, "idle")
    /\ handler'[g] \in Running
    /\ handler'[g].pc \in {"lookup", "reject"}
    /\ handler'[g].status = "new"
    /\ handler'[g].retro = {}
    /\ disturbed' = (disturbed \/ ~Quiet)
    /\ \/ /\ g # "replay" /\ handler'[g].pc = "lookup" /\ queue' = queue
          /\ \E l \in Leads : l = handler'[g].lead /\ Posted(l)'
       \/ /\ g = "replay"
          /\ handler'[g].letter \in queue
          /\ queue' = queue \ {handler'[g].letter}
          /\ handler'[g].lead = letters[handler'[g].letter].lead

\* Handler g, under way, moves on to another step.
Continues(g) ==
    /\ ~At(g, "idle")
    /\ handler'[g] \in Running
    /\ handler'[g].lead = handler[g].lead
    /\ handler'[g].letter = handler[g].letter
    /\ queue' = queue
    /\ \/ SiteFound(g) \/ ScanSender(g) \/ ScanBody(g) \/ ScanFails(g) \/ RetroBucket(g)
       \/ CreateSubmission(g) \/ RunTail(g)

\* A step is one handler's, which the other handlers do not see, or nobody's.
OthersStay(g) == \A h \in Handlers : h # g => handler'[h] = handler[h]

HandlersStep ==
    \/ /\ handler' = handler /\ DOMAIN submissions' = DOMAIN submissions
       /\ queue' = queue \/ (queue' = LiveQueue /\ At("replay", "idle"))
    \/ \E g \in Handlers :
          /\ OthersStay(g)
          /\ \/ Begins(g)
             \/ Continues(g)
             \/ ~At(g, "idle") /\ handler'[g] = Idle /\ queue' \in {{}, queue}

\* A handler's move is one of its own steps.
LEMMA MoveContinues ==
  ASSUME TypeOK, NEW h \in Handlers, ~At(h, "idle"), NEW x \in Running, Becomes(h, x),
         x.lead = handler[h].lead, x.letter = handler[h].letter, queue' = queue,
         \/ SiteFound(h) \/ ScanSender(h) \/ ScanBody(h) \/ ScanFails(h) \/ RetroBucket(h)
         \/ CreateSubmission(h) \/ RunTail(h)
  PROVE  Continues(h) /\ OthersStay(h)
BY BecomesIs DEF Continues, OthersStay

LEMMA StopStays ==
  ASSUME TypeOK, NEW h \in Handlers, Stop(h)
  PROVE  handler'[h] = Idle /\ OthersStay(h)
BY DEF Stop, OthersStay, TypeOK

LEMMA StepOfHandler ==
  ASSUME TypeOK, NEW h \in Handlers,
         \/ SiteFound(h) \/ ScanSender(h) \/ ScanBody(h) \/ ScanFails(h) \/ RetroBucket(h)
         \/ CreateSubmission(h) \/ (RunTail(h) /\ h = "replay")
  PROVE  Continues(h) /\ OthersStay(h)
<1>1. /\ ~At(h, "idle") /\ queue' = queue
      /\ \E x \in Running : /\ Becomes(h, x)
                            /\ x.lead = handler[h].lead /\ x.letter = handler[h].letter
  <2>1. CASE SiteFound(h)
    BY <2>1, SiteFoundIs DEF Rest
  <2>2. CASE ScanSender(h)
    BY <2>2, ScanSenderIs DEF Rest, AfterMatches
  <2>3. CASE ScanBody(h)
    BY <2>3, ScanBodyIs DEF Rest, AfterMatches
  <2>4. CASE ScanFails(h)
    BY <2>4, ScanFailsIs DEF Rest, MovesTo
  <2>5. CASE RetroBucket(h)
    BY <2>5, RetroBucketIs DEF Rest, MovesTo
  <2>6. CASE CreateSubmission(h)
    BY <2>6, CreateIs DEF Rest
  <2>7. CASE RunTail(h) /\ h = "replay"
    BY <2>7, RunTailIs DEF Rest, MovesTo
  <2>. QED
    BY <2>1, <2>2, <2>3, <2>4, <2>5, <2>6, <2>7
<1>. QED
  BY <1>1, MoveContinues

LEMMA HandlersMove ==
  ASSUME TypeOK, [Next]_vars
  PROVE  HandlersStep
<1>1. ASSUME NEW q \in Requests, NEW l \in Leads, Post(q, l) PROVE HandlersStep
  <2>1. /\ q \in Handlers /\ q # "replay" /\ At(q, "idle")
        /\ Becomes(q, Begin(l, 0))
        /\ disturbed' = (disturbed \/ ~Quiet) /\ queue' = queue
        /\ visitor'[l].awaits # "none"
    BY <1>1, PostIs
  <2>2. /\ Begin(l, 0) \in Running /\ Begin(l, 0).pc = "lookup" /\ Begin(l, 0).lead = l
        /\ Begin(l, 0).status = "new" /\ Begin(l, 0).retro = {}
    BY BeginIs
  <2>3. visitor'[l] # [awaits |-> "none", told |-> "nothing"]
    BY <2>1
  <2>4. handler'[q] = Begin(l, 0) /\ OthersStay(q)
    BY <2>1, BecomesIs DEF OthersStay
  <2>5. Begins(q)
    BY <2>1, <2>2, <2>3, <2>4 DEF Begins, Posted
  <2>. QED
    BY <2>1, <2>4, <2>5 DEF HandlersStep
<1>2. ASSUME NextLetter PROVE HandlersStep
  <2>1. /\ At("replay", "idle") /\ "replay" \in Handlers
        /\ disturbed' = (disturbed \/ ~Quiet)
    BY <1>2, NextLetterIs DEF Handlers
  <2>2. PICK d \in queue, x \in Running :
               /\ queue' = queue \ {d}
               /\ Becomes("replay", x)
               /\ x.pc \in {"lookup", "reject"}
               /\ x.lead = letters[d].lead /\ x.letter = d
               /\ x.status = "new" /\ x.retro = {}
    BY <1>2, NextLetterIs
  <2>3. handler'["replay"] = x /\ OthersStay("replay")
    BY <2>1, <2>2, BecomesIs DEF OthersStay
  <2>4. Begins("replay")
    BY <2>1, <2>2, <2>3 DEF Begins
  <2>. QED
    BY <2>1, <2>3, <2>4 DEF HandlersStep
<1>3. ASSUME NEW h \in Handlers,
             \/ SiteFound(h) \/ ScanSender(h) \/ ScanBody(h) \/ ScanFails(h) \/ RetroBucket(h)
             \/ CreateSubmission(h) \/ (RunTail(h) /\ h = "replay")
      PROVE  HandlersStep
  BY <1>3, StepOfHandler DEF HandlersStep
<1>4. ASSUME NEW h \in Handlers,
             \/ TurnedAway(h) \/ CreateFails(h) \/ Dies(h) \/ (RunTail(h) /\ h # "replay")
      PROVE  HandlersStep
  <2>1. ~At(h, "idle") /\ Stop(h) /\ queue' \in {{}, queue}
    BY <1>4, TurnedAwayIs, CreateFailsIs, DiesIs, RunTailIs DEF TurnedAway, Rest
  <2>. QED
    BY <2>1, StopStays DEF HandlersStep
<1>5. ASSUME MarkReplayed PROVE HandlersStep
  <2>1. ~At("replay", "idle") /\ Stop("replay") /\ queue' = queue /\ "replay" \in Handlers
    BY <1>5, MarkIs DEF Rest, Handlers
  <2>. QED
    BY <2>1, StopStays DEF HandlersStep
<1>6. ASSUME NEW l \in Leads, VisitorTimesOut(l) PROVE HandlersStep
  BY <1>6, TimesOutIs DEF HandlersStep, Rest
<1>7. ASSUME NEW i \in DOMAIN submissions, Decides(i) PROVE HandlersStep
  BY <1>7, DecidesIs, SameDomain DEF HandlersStep, Rest
<1>8. ASSUME NEW d \in DOMAIN letters, Abandon(d) PROVE HandlersStep
  BY <1>8, AbandonIs DEF HandlersStep, Rest
<1>9. ASSUME Aside PROVE HandlersStep
  BY <1>9 DEF HandlersStep, Aside
<1>. QED
  BY StepCases, <1>1, <1>2, <1>3, <1>4, <1>5, <1>6, <1>7, <1>8, <1>9

\* Where a handler that moved on may be, and which step took it there.
LEMMA WhereTo ==
  ASSUME TypeOK, NEW g \in Handlers, Continues(g)
  PROVE  /\ handler'[g].pc \notin {"idle", "lookup", "reject"}
         /\ handler'[g].pc = "tail" => CreateSubmission(g)
         /\ handler'[g].pc = "mark" =>
               RunTail(g) /\ g = "replay" /\ handler'[g].sub = handler[g].sub
<1>1. CASE SiteFound(g)
  BY <1>1, SiteFoundIs, BecomesIs
<1>2. CASE ScanSender(g)
  BY <1>2, ScanSenderIs, BecomesIs DEF AfterMatches
<1>3. CASE ScanBody(g)
  BY <1>3, ScanBodyIs, BecomesIs DEF AfterMatches
<1>4. CASE ScanFails(g)
  BY <1>4, ScanFailsIs, BecomesIs DEF MovesTo
<1>5. CASE RetroBucket(g)
  BY <1>5, RetroBucketIs, BecomesIs DEF MovesTo
<1>6. CASE CreateSubmission(g)
  BY <1>6, CreateIs, BecomesIs
<1>7. CASE RunTail(g)
  <2>1. g = "replay"
    BY <1>7, RunTailIs, StopStays DEF Continues, Idle, Running
  <2>. QED
    BY <1>7, <2>1, RunTailIs, BecomesIs DEF MovesTo
<1>. QED
  BY <1>1, <1>2, <1>3, <1>4, <1>5, <1>6, <1>7 DEF Continues

-----------------------------------------------------------------------------
(* What is under way *)

LEMMA QueueStep ==
  ASSUME TypeOK, HandlersStep
  PROVE  queue' \subseteq queue \/ (queue' = LiveQueue /\ At("replay", "idle"))
BY DEF HandlersStep, Begins, Continues

LEMMA UnderwayKept ==
  ASSUME TypeOK, Underway, [Next]_vars
  PROVE  Underway'
<1>0. /\ TypeOK' /\ RowsStay /\ RowsAreMade /\ LettersStay /\ HandlersStep
      /\ "replay" \in Handlers
  BY TypesKept, RowsStep, LettersStep, HandlersMove DEF Handlers
<1>1. ASSUME NEW h \in Handlers, handler'[h].pc \in {"mark", "reject"} PROVE h = "replay"
  <2>1. CASE handler'[h] = handler[h]
    BY <2>1, <1>1 DEF Underway
  <2>2. CASE handler'[h] # handler[h]
    <3>1. Begins(h) \/ Continues(h) \/ handler'[h] = Idle
      BY <1>0, <2>2 DEF HandlersStep, OthersStay
    <3>. QED
      BY <3>1, <1>1, WhereTo DEF Begins, Idle
  <2>. QED
    BY <2>1, <2>2
<1>2. ASSUME NEW h \in Handlers, handler'[h].pc \in {"tail", "mark"}
      PROVE  /\ handler'[h].sub \in DOMAIN submissions'
             /\ submissions'[handler'[h].sub].lead = handler'[h].lead
             /\ submissions'[handler'[h].sub].letter = handler'[h].letter
  <2>1. ASSUME handler[h].pc \in {"tail", "mark"},
               handler'[h].sub = handler[h].sub, handler'[h].lead = handler[h].lead,
               handler'[h].letter = handler[h].letter
        PROVE  /\ handler'[h].sub \in DOMAIN submissions'
               /\ submissions'[handler'[h].sub].lead = handler'[h].lead
               /\ submissions'[handler'[h].sub].letter = handler'[h].letter
    BY <1>0, <2>1 DEF Underway, RowsStay
  <2>2. CASE handler'[h] = handler[h]
    BY <2>1, <2>2, <1>2
  <2>3. CASE handler'[h] # handler[h]
    <3>1. Begins(h) \/ Continues(h) \/ handler'[h] = Idle
      BY <1>0, <2>3 DEF HandlersStep, OthersStay
    <3>2. Continues(h)
      BY <3>1, <1>2 DEF Begins, Idle
    <3>3. CASE handler'[h].pc = "mark"
      <4>1. At(h, "tail") /\ handler'[h].sub = handler[h].sub
        BY <3>2, <3>3, WhereTo, RunTailIs
      <4>. QED
        BY <4>1, <2>1, <3>2 DEF Continues, At
    <3>4. CASE handler'[h].pc = "tail"
      <4>1. CreateSubmission(h)
        BY <3>2, <3>4, WhereTo
      <4>2. /\ ~At(h, "idle") /\ submissions' = Inserted(h)
            /\ handler'[h].sub = Len(submissions) + 1
        BY <4>1, CreateIs, BecomesIs
      <4>3. handler'[h].lead = handler[h].lead /\ handler'[h].letter = handler[h].letter
        BY <3>2 DEF Continues
      <4>. QED
        BY <4>2, <4>3, InsertedIs
    <3>. QED
      BY <3>3, <3>4, <1>2
  <2>. QED
    BY <2>2, <2>3
<1>3. ASSUME NEW d \in queue' PROVE letters'[d].outcome = "queued"
  <2>1. queue' \subseteq queue \/ (queue' = LiveQueue /\ At("replay", "idle"))
    BY <1>0, QueueStep
  <2>2. CASE d \in queue
    <3>1. d \in DOMAIN letters /\ letters[d].outcome = "queued"
      BY <2>2 DEF TypeOK, Underway
    <3>2. ~At("replay", "idle") => d # handler["replay"].letter
      BY <2>2 DEF Underway
    <3>. QED
      BY <1>0, <3>1, <3>2 DEF LettersStay
  <2>3. CASE d \in LiveQueue /\ At("replay", "idle")
    BY <1>0, <2>3 DEF LettersStay, LiveQueue, Live
  <2>. QED
    BY <1>3, <2>1, <2>2, <2>3
<1>4. ASSUME handler'["replay"].pc # "idle"
      PROVE  /\ handler'["replay"].letter \in DOMAIN letters' \ queue'
             /\ letters'[handler'["replay"].letter].lead = handler'["replay"].lead
             /\ letters'[handler'["replay"].letter].outcome = "queued"
  <2>. DEFINE d == handler'["replay"].letter
  <2>1. ~Stop("replay")
    BY <1>4, StopStays, <1>0 DEF Idle
  <2>2. CASE Begins("replay")
    <3>1. /\ At("replay", "idle") /\ d \in queue
          /\ queue' = queue \ {d}
          /\ handler'["replay"].lead = letters[d].lead
      BY <2>2 DEF Begins
    <3>2. d \in DOMAIN letters /\ letters[d].outcome = "queued"
      BY <3>1 DEF TypeOK, Underway
    <3>. QED
      BY <3>1, <3>2, <1>0 DEF LettersStay
  <2>3. CASE ~At("replay", "idle") /\ d = handler["replay"].letter
             /\ handler'["replay"].lead = handler["replay"].lead
    <3>1. /\ d \in DOMAIN letters \ queue
          /\ letters[d].lead = handler'["replay"].lead
          /\ letters[d].outcome = "queued"
      BY <2>3 DEF Underway
    <3>2. queue' \subseteq queue
      BY <2>3, <1>0, QueueStep
    <3>. QED
      BY <3>1, <3>2, <2>1, <1>0 DEF LettersStay
  <2>4. CASE Continues("replay")
    BY <2>4, <2>3 DEF Continues
  <2>5. CASE handler'["replay"] = handler["replay"]
    BY <2>5, <2>3, <1>4 DEF At
  <2>6. handler'["replay"] # Idle
    BY <1>4 DEF Idle
  <2>7. Begins("replay") \/ Continues("replay") \/ handler'["replay"] = handler["replay"]
    BY <1>0, <2>6 DEF HandlersStep, OthersStay
  <2>. QED
    BY <2>2, <2>4, <2>5, <2>7
<1>. QED
  BY <1>1, <1>2, <1>3, <1>4 DEF Underway, At

-----------------------------------------------------------------------------
(* Accepted leads are kept *)

LEMMA LeadsKept ==
  ASSUME TypeOK, Underway, AcceptedLeadsAreKept, [Next]_vars
  PROVE  AcceptedLeadsAreKept'
<1>0. /\ RowsStay /\ LettersStay /\ LettersAreMade /\ VisitorsAreTold
  BY RowsStep, LettersStep, VisitorsStep
<1>1. ASSUME NEW l \in Leads, visitor'[l].told = "accepted"
      PROVE  (RowsOf(l) # {} \/ LettersOf(l) # {})'
  <2>1. CASE visitor[l].told = "accepted"
    <3>1. \/ \E i \in DOMAIN submissions : submissions[i].lead = l
          \/ \E d \in DOMAIN letters : letters[d].lead = l
      BY <2>1 DEF AcceptedLeadsAreKept, RowsOf, LettersOf
    <3>2. \/ \E i \in DOMAIN submissions' : submissions'[i].lead = l
          \/ \E d \in DOMAIN letters' : letters'[d].lead = l
      BY <3>1, <1>0 DEF RowsStay, LettersStay
    <3>. QED
      BY <3>2 DEF RowsOf, LettersOf
  <2>2. CASE visitor[l].told # "accepted"
    BY <1>0, <1>1, <2>2 DEF VisitorsAreTold, RowsOf, LettersOf
  <2>. QED
    BY <2>1, <2>2
<1>2. ASSUME NEW d \in DOMAIN letters', letters'[d].outcome = "accepted"
      PROVE  /\ letters'[d].sub \in DOMAIN submissions'
             /\ submissions'[letters'[d].sub].lead = letters'[d].lead
  <2>1. d \in DOMAIN letters
    BY <1>0, <1>2 DEF LettersAreMade
  <2>2. \/ letters[d].outcome = "accepted" /\ letters'[d].sub = letters[d].sub
        \/ Marks(d)
    BY <2>1, <1>2, <1>0 DEF LettersStay
  <2>3. letters'[d].sub \in DOMAIN submissions
        /\ submissions[letters'[d].sub].lead = letters[d].lead
    <3>1. CASE letters[d].outcome = "accepted" /\ letters'[d].sub = letters[d].sub
      BY <3>1, <2>1 DEF AcceptedLeadsAreKept
    <3>2. CASE Marks(d)
      BY <3>2 DEF Marks, Underway, At, Handlers
    <3>. QED
      BY <2>2, <3>1, <3>2
  <2>. QED
    BY <2>1, <2>3, <1>0 DEF RowsStay, LettersStay
<1>. QED
  BY <1>1, <1>2 DEF AcceptedLeadsAreKept

-----------------------------------------------------------------------------
(* Everything was posted, and every spam verdict has its evidence *)

LEMMA PostedKept ==
  ASSUME TypeOK, Underway, AllPosted, [Next]_vars
  PROVE  AllPosted'
<1>0. /\ RowsStay /\ RowsAreMade /\ LettersStay /\ LettersAreMade /\ VisitorsStay
      /\ HandlersStep /\ TypeOK'
  BY TypesKept, RowsStep, LettersStep, VisitorsStep, HandlersMove
<1>1. ASSUME NEW l \in Leads, Posted(l) PROVE Posted(l)'
  BY <1>0, <1>1 DEF VisitorsStay
<1>2. \A h \in Handlers : ~At(h, "idle") => handler[h].lead \in Leads
  BY HandlerIs DEF Running
<1>3. ASSUME NEW i \in DOMAIN submissions'
      PROVE  \E l \in Leads : l = submissions'[i].lead /\ Posted(l)
  <2>1. CASE i \in DOMAIN submissions
    <3>1. submissions[i].lead \in Leads /\ submissions'[i].lead = submissions[i].lead
      BY <2>1, <1>0, RowsTyped DEF RowsStay
    <3>. QED
      BY <2>1, <3>1 DEF AllPosted
  <2>2. CASE i \notin DOMAIN submissions
    <3>1. PICK h \in Handlers : Makes(h, i)
      BY <1>0, <2>2 DEF RowsAreMade
    <3>2. ~At(h, "idle") /\ submissions'[i].lead = handler[h].lead
      BY <3>1 DEF Makes, At
    <3>. QED
      BY <3>2, <1>2 DEF AllPosted
  <2>. QED
    BY <2>1, <2>2
<1>4. \A d \in DOMAIN letters : letters[d].lead \in Leads
  BY RowsTyped
<1>5. ASSUME NEW d \in DOMAIN letters'
      PROVE  \E l \in Leads : l = letters'[d].lead /\ Posted(l)
  BY <1>0, <1>2, <1>4 DEF AllPosted, LettersStay, LettersAreMade
<1>6. ASSUME NEW h \in Handlers, handler'[h].pc # "idle"
      PROVE  \E l \in Leads : l = handler'[h].lead /\ Posted(l)'
  <2>1. CASE handler'[h].lead = handler[h].lead /\ ~At(h, "idle")
    BY <2>1, <1>1, <1>2 DEF AllPosted
  <2>2. CASE Begins(h)
    <3>1. CASE \E l \in Leads : l = handler'[h].lead /\ Posted(l)'
      BY <3>1
    <3>2. CASE /\ handler'[h].letter \in queue
               /\ handler'[h].lead = letters[handler'[h].letter].lead
      <4>1. handler'[h].letter \in DOMAIN letters
        BY <3>2 DEF TypeOK
      <4>. QED
        BY <3>2, <4>1, <1>1, <1>4 DEF AllPosted
    <3>. QED
      BY <2>2, <3>1, <3>2 DEF Begins
  <2>3. handler'[h] # Idle
    BY <1>6 DEF Idle
  <2>4. Begins(h) \/ Continues(h) \/ handler'[h] = handler[h]
    BY <1>0, <2>3 DEF HandlersStep, OthersStay
  <2>. QED
    BY <2>1, <2>2, <2>4, <1>6 DEF Continues, At
<1>7. /\ \A i \in DOMAIN submissions' : Posted(submissions[i].lead)'
      /\ \A d \in DOMAIN letters' : Posted(letters[d].lead)'
      /\ \A h \in Handlers : handler'[h].pc # "idle" => Posted(handler[h].lead)'
  BY <1>1, <1>3, <1>5, <1>6 DEF Posted
<1>. QED
  BY <1>7 DEF AllPosted, At

\* A copy is evidence against both.
LEMMA CopiesAreEvidence ==
  ASSUME TypeOK, AllPosted, NEW l \in Leads, Posted(l), IsContact(l),
         Lead[l].site \notin Building, NEW i \in DOMAIN submissions,
         \/ i \in SenderMatches(l)
         \/ Lead[l].body # NoBody /\ i \in BodyMatches(l)
  PROVE  Evident(l) /\ Evident(submissions[i].lead)
<1>. DEFINE k == submissions[i].lead
<1>1. k \in Leads /\ Posted(k)
  BY RowsTyped DEF AllPosted
<1>2. \/ IsContact(k) /\ Lead[k].sender = Lead[l].sender /\ Lead[k].site # Lead[l].site
      \/ /\ Lead[l].body # NoBody /\ Lead[k].body = Lead[l].body
         /\ ~(Lead[k].sender = Lead[l].sender /\ Lead[k].site = Lead[l].site)
  BY DEF SenderMatches, BodyMatches, OwnResend
<1>. HIDE DEF k
<1>3. Spray(k, l) /\ Spray(l, k)
  BY <1>2 DEF Spray
<1>4. /\ ~({Lead[k].site, Lead[l].site} \subseteq Building)
      /\ ~({Lead[l].site, Lead[k].site} \subseteq Building)
  OBVIOUS
<1>. QED
  BY <1>1, <1>3, <1>4 DEF Evident, k

\* What Evidence asks of a handler.
HandlerEvidence(h) ==
    /\ handler[h].status = "spam_auto" => Evident(handler[h].lead)
    /\ handler[h].pc \in {"retro_sender", "retro_body"} =>
          \A i \in handler[h].retro : Evident(submissions[i].lead)
    /\ handler[h].pc \in {"sender", "retro_sender", "body", "retro_body"} =>
          LeadOf(h).site \notin Building

LEMMA EvidenceParts ==
  ASSUME Evidence
  PROVE  /\ \A i \in DOMAIN submissions :
               submissions[i].status = "spam_auto" => Evident(submissions[i].lead)
         /\ \A h \in Handlers : ~At(h, "idle") => HandlerEvidence(h)
BY DEF Evidence, HandlerEvidence

\* After a scan of a copy that the site's spam handling covers.
LEMMA ScanEvidence ==
  ASSUME TypeOK, AllPosted, NEW h \in Handlers, ~At(h, "idle"), HandlerEvidence(h),
         NEW x \in Running, NEW matches, NEW mayRetro, NEW retroPc, NEW nextPc,
         AfterMatches(h, x, matches, mayRetro, retroPc, nextPc),
         handler[h].pc \in {"sender", "body"},
         matches \in {SenderFound(h), BodyFound(h)}
  PROVE  /\ x.status = "spam_auto" => Evident(x.lead)
         /\ \A i \in x.retro : i \in DOMAIN submissions /\ Evident(submissions[i].lead)
         /\ Lead[x.lead].site \notin Building
<1>. DEFINE l == handler[h].lead
<1>1. l \in Leads /\ Posted(l) /\ Lead[l].site \notin Building
  BY HandlerIs DEF Running, AllPosted, HandlerEvidence, LeadOf
<1>2. ASSUME NEW i \in matches
      PROVE  i \in DOMAIN submissions /\ Evident(l) /\ Evident(submissions[i].lead)
  <2>1. /\ IsContact(l)
        /\ \/ i \in SenderMatches(l)
           \/ Lead[l].body # NoBody /\ i \in BodyMatches(l)
    BY DEF SenderFound, BodyFound
  <2>2. i \in DOMAIN submissions
    BY <2>1, MatchesAreRows
  <2>. QED
    BY <1>1, <2>1, <2>2, CopiesAreEvidence
<1>3. /\ x.lead = l
      /\ x.retro \subseteq matches
      /\ x.status = "spam_auto" => matches # {} \/ handler[h].status = "spam_auto"
  BY DEF AfterMatches, StillNew
<1>. QED
  BY <1>1, <1>2, <1>3 DEF HandlerEvidence

LEMMA ContinuesEvidence ==
  ASSUME TypeOK, AllPosted, NEW g \in Handlers, HandlerEvidence(g), Continues(g)
  PROVE  /\ handler'[g].status = "spam_auto" => Evident(handler'[g].lead)
         /\ handler'[g].pc \in {"retro_sender", "retro_body"} =>
               \A i \in handler'[g].retro :
                   i \in DOMAIN submissions /\ Evident(submissions[i].lead)
         /\ handler'[g].pc \in {"sender", "retro_sender", "body", "retro_body"} =>
               Lead[handler'[g].lead].site \notin Building
<1>0. ~At(g, "idle")
  BY DEF Continues
<1>1. CASE SiteFound(g)
  <2>1. PICK x \in Running :
               /\ Becomes(g, x)
               /\ x.lead = handler[g].lead
               /\ IF LeadOf(g).site \in Building THEN x.pc = "create" ELSE x.pc = "sender"
               /\ x.status = "spam_auto" => Lead[x.lead].spam /\ LeadOf(g).site \notin Building
    BY <1>1, SiteFoundIs
  <2>2. handler'[g] = x
    BY <2>1, BecomesIs
  <2>. QED
    BY <2>1, <2>2 DEF Evident, LeadOf
<1>2. CASE ScanSender(g)
  <2>1. PICK x \in Running : AfterMatches(g, x, SenderFound(g), TRUE, "retro_sender", "body")
    BY <1>2, ScanSenderIs
  <2>2. handler'[g] = x /\ handler[g].pc \in {"sender", "body"}
    BY <1>2, <2>1, BecomesIs, ScanSenderIs DEF AfterMatches, At
  <2>. QED
    BY <1>0, <2>1, <2>2, ScanEvidence
<1>3. CASE ScanBody(g)
  <2>1. PICK x \in Running :
           AfterMatches(g, x, BodyFound(g), Lead[handler[g].lead].mayRetro,
                        "retro_body", "create")
    BY <1>3, ScanBodyIs
  <2>2. handler'[g] = x /\ handler[g].pc \in {"sender", "body"}
    BY <1>3, <2>1, BecomesIs, ScanBodyIs DEF AfterMatches, At
  <2>. QED
    BY <1>0, <2>1, <2>2, ScanEvidence
<1>4. CASE ScanFails(g) \/ RetroBucket(g)
  <2>1. /\ handler[g].pc \in {"sender", "retro_sender", "body", "retro_body"}
        /\ MovesTo(g, AfterScan(g)) /\ AfterScan(g) \in {"body", "create"}
    BY <1>4, ScanFailsIs, RetroBucketIs
  <2>2. /\ handler'[g].lead = handler[g].lead /\ handler'[g].status = handler[g].status
        /\ handler'[g].pc \in {"body", "create"}
    BY <2>1, BecomesIs DEF MovesTo
  <2>. QED
    BY <2>1, <2>2 DEF HandlerEvidence, LeadOf
<1>5. CASE CreateSubmission(g)
  <2>1. /\ handler'[g].lead = handler[g].lead /\ handler'[g].status = handler[g].status
        /\ handler'[g].pc = "tail"
    BY <1>5, CreateIs, BecomesIs
  <2>. QED
    BY <2>1 DEF HandlerEvidence
<1>6. CASE RunTail(g)
  <2>0. g = "replay"
    BY <1>6, RunTailIs, StopStays DEF Continues, Idle, Running
  <2>1. MovesTo(g, "mark")
    BY <1>6, <2>0, RunTailIs
  <2>2. /\ handler'[g].lead = handler[g].lead /\ handler'[g].status = handler[g].status
        /\ handler'[g].pc = "mark"
    BY <2>1, BecomesIs DEF MovesTo
  <2>. QED
    BY <2>2 DEF HandlerEvidence
<1>. QED
  BY <1>1, <1>2, <1>3, <1>4, <1>5, <1>6 DEF Continues

LEMMA EvidenceKept ==
  ASSUME TypeOK, AllPosted, Evidence, [Next]_vars
  PROVE  Evidence'
<1>0. /\ RowsStay /\ RowsAreMade /\ VisitorsStay /\ HandlersStep /\ TypeOK'
  BY TypesKept, RowsStep, VisitorsStep, HandlersMove
<1>1. ASSUME NEW l, Evident(l) PROVE Evident(l)'
  BY <1>0, <1>1 DEF VisitorsStay, Evident, Spray, IsContact
<1>2. ASSUME NEW i \in DOMAIN submissions', submissions'[i].status = "spam_auto"
      PROVE  \E l : l = submissions'[i].lead /\ Evident(l)'
  <2>1. CASE i \in DOMAIN submissions
    <3>1. \/ submissions[i].status = "spam_auto"
          \/ \E h \in Handlers : Rebucketing(h, i)
      BY <1>0, <1>2, <2>1 DEF RowsStay
    <3>2. CASE submissions[i].status = "spam_auto"
      BY <1>0, <1>1, <2>1, <3>2, EvidenceParts DEF RowsStay
    <3>3. ASSUME NEW h \in Handlers, Rebucketing(h, i)
          PROVE  Evident(submissions[i].lead)
      BY <3>3, EvidenceParts DEF Rebucketing, HandlerEvidence, At
    <3>. QED
      BY <1>0, <1>1, <2>1, <3>1, <3>2, <3>3 DEF RowsStay
  <2>2. CASE i \notin DOMAIN submissions
    <3>1. PICK h \in Handlers : Makes(h, i)
      BY <1>0, <2>2 DEF RowsAreMade
    <3>2. /\ ~At(h, "idle") /\ submissions'[i].lead = handler[h].lead
          /\ submissions'[i].status = handler[h].status
      BY <3>1 DEF Makes, At
    <3>. QED
      BY <1>1, <1>2, <3>2, EvidenceParts DEF HandlerEvidence
  <2>. QED
    BY <2>1, <2>2
<1>3. ASSUME NEW h \in Handlers, handler'[h].pc # "idle"
      PROVE  /\ handler'[h].status = "spam_auto" => Evident(handler[h].lead)'
             /\ handler'[h].pc \in {"retro_sender", "retro_body"} =>
                   \A i \in handler'[h].retro : Evident(submissions[i].lead)'
             /\ handler'[h].pc \in {"sender", "retro_sender", "body", "retro_body"} =>
                   Lead[handler'[h].lead].site \notin Building
  <2>1. ASSUME /\ handler'[h].status = "spam_auto" => Evident(handler'[h].lead)
               /\ handler'[h].pc \in {"retro_sender", "retro_body"} =>
                     \A i \in handler'[h].retro :
                         i \in DOMAIN submissions /\ Evident(submissions[i].lead)
               /\ handler'[h].pc \in {"sender", "retro_sender", "body", "retro_body"} =>
                     Lead[handler'[h].lead].site \notin Building
        PROVE  /\ handler'[h].status = "spam_auto" => Evident(handler[h].lead)'
               /\ handler'[h].pc \in {"retro_sender", "retro_body"} =>
                     \A i \in handler'[h].retro : Evident(submissions[i].lead)'
               /\ handler'[h].pc \in {"sender", "retro_sender", "body", "retro_body"} =>
                     Lead[handler'[h].lead].site \notin Building
    <3>1. \A l : Evident(l) => Evident(l)'
      BY <1>1
    <3>2. handler'[h].status = "spam_auto" => Evident(handler[h].lead)'
      BY <2>1, <3>1 DEF Evident, Posted, Spray, IsContact
    <3>3. ASSUME handler'[h].pc \in {"retro_sender", "retro_body"}, NEW i \in handler'[h].retro
          PROVE  Evident(submissions[i].lead)'
      <4>1. /\ Evident(submissions[i].lead)
            /\ submissions'[i].lead = submissions[i].lead
        BY <1>0, <2>1, <3>3 DEF RowsStay
      <4>. DEFINE k == submissions[i].lead
      <4>2. Evident(k)
        BY <4>1
      <4>. HIDE DEF k
      <4>3. \E l : l = k /\ Evident(l)'
        BY <4>2, <3>1
      <4>. QED
        BY <4>1, <4>3 DEF k, Evident, Posted, Spray, IsContact
    <3>. QED
      BY <2>1, <3>2, <3>3
  <2>2. CASE Begins(h)
    BY <2>2, <2>1 DEF Begins
  <2>3. CASE Continues(h)
    <3>1. HandlerEvidence(h)
      BY <2>3, EvidenceParts DEF Continues
    <3>. QED
      BY <2>1, <2>3, <3>1, ContinuesEvidence
  <2>4. CASE handler'[h] = handler[h]
    <3>1. HandlerEvidence(h) /\ ~At(h, "idle")
      BY <2>4, <1>3, EvidenceParts DEF At
    <3>2. handler[h].retro \subseteq DOMAIN submissions
      BY <3>1, HandlerIs
    <3>. QED
      BY <2>1, <2>4, <3>1, <3>2 DEF HandlerEvidence, LeadOf
  <2>5. handler'[h] # Idle
    BY <1>3 DEF Idle
  <2>. QED
    BY <1>0, <2>2, <2>3, <2>4, <2>5 DEF HandlersStep, OthersStay
<1>4. \A i \in DOMAIN submissions' :
         submissions'[i].status = "spam_auto" => Evident(submissions[i].lead)'
  BY <1>2 DEF Evident, Posted, Spray, IsContact
<1>. QED
  BY <1>3, <1>4 DEF Evidence, At, LeadOf

-----------------------------------------------------------------------------
(* Every duplicate cost a failure *)

LEMMA AtMostOneMore ==
  ASSUME NEW S, IsFiniteSet(S), NEW T, NEW x, T \subseteq S \union {x}
  PROVE  /\ IsFiniteSet(T) /\ Cardinality(T) \in Nat /\ Cardinality(S) \in Nat
         /\ Cardinality(T) <= Cardinality(S) + 1
         /\ T \subseteq S => Cardinality(T) <= Cardinality(S)
<1>. DEFINE U == S \union {x}
<1>1. /\ IsFiniteSet(U) /\ Cardinality(S) \in Nat
      /\ Cardinality(U) = IF x \in S THEN Cardinality(S) ELSE Cardinality(S) + 1
  BY FS_AddElement, FS_CardinalityType
<1>2. IsFiniteSet(T) /\ Cardinality(T) <= Cardinality(U)
  BY <1>1, FS_Subset
<1>3. Cardinality(T) \in Nat /\ Cardinality(U) \in Nat
  BY <1>1, <1>2, FS_CardinalityType
<1>4. T \subseteq S => Cardinality(T) <= Cardinality(S)
  BY FS_Subset
<1>5. Cardinality(U) <= Cardinality(S) + 1
  BY <1>1
<1>. HIDE DEF U
<1>6. Cardinality(T) <= Cardinality(S) + 1
  BY <1>1, <1>2, <1>3, <1>5
<1>. QED
  BY <1>1, <1>2, <1>3, <1>4, <1>6

LEMMA CountsAreFinite ==
  ASSUME TypeOK
  PROVE  IsFiniteSet(Duplicates) /\ IsFiniteSet(Loose)
<1>1. /\ DOMAIN submissions = 1..Len(submissions) /\ Len(submissions) \in Nat
      /\ DOMAIN letters = 1..Len(letters) /\ Len(letters) \in Nat
  BY DEF TypeOK
<1>2. IsFiniteSet(DOMAIN submissions) /\ IsFiniteSet(DOMAIN letters)
  BY <1>1, FS_Interval
<1>3. Duplicates \subseteq DOMAIN submissions /\ Loose \subseteq DOMAIN letters
  BY DEF Duplicates, Loose
<1>. QED
  BY <1>2, <1>3, FS_Subset

LEMMA FaultsStep ==
  ASSUME TypeOK, [Next]_vars
  PROVE  faults' = faults \/ (faults' = faults + 1 /\ disturbed')
<1>1. ASSUME Fault \/ NoFault PROVE faults' = faults \/ (faults' = faults + 1 /\ disturbed')
  BY <1>1 DEF Fault, NoFault
<1>2. ASSUME NEW h \in Handlers,
             \/ TurnedAway(h) \/ SiteFound(h) \/ ScanSender(h) \/ ScanBody(h)
             \/ ScanFails(h) \/ RetroBucket(h) \/ CreateSubmission(h) \/ CreateFails(h)
             \/ RunTail(h) \/ Dies(h)
      PROVE  Fault \/ NoFault
  BY <1>2, TurnedAwayIs, SiteFoundIs, ScanSenderIs, ScanBodyIs, ScanFailsIs, RetroBucketIs,
     CreateIs, CreateFailsIs, RunTailIs, DiesIs DEF TurnedAway
<1>3. ASSUME NEW l \in Leads, VisitorTimesOut(l) PROVE Fault \/ NoFault
  BY <1>3, TimesOutIs
<1>4. ASSUME MarkReplayed PROVE Fault \/ NoFault
  BY <1>4, MarkIs
<1>5. ASSUME NEW q \in Requests, NEW l \in Leads, Post(q, l) PROVE faults' = faults
  BY <1>5, PostIs
<1>6. ASSUME NextLetter \/ Aside PROVE faults' = faults
  BY <1>6, NextLetterIs DEF Aside
<1>7. ASSUME NEW i \in DOMAIN submissions, Decides(i) PROVE faults' = faults
  BY <1>7, DecidesIs
<1>8. ASSUME NEW d \in DOMAIN letters, Abandon(d) PROVE faults' = faults
  BY <1>8, AbandonIs
<1>. QED
  BY StepCases, <1>1, <1>2, <1>3, <1>4, <1>5, <1>6, <1>7, <1>8

\* A replay that has placed its letter marks it in the end, or a failure intervenes.
LEMMA MarkedOrFailed ==
  ASSUME TypeOK, [Next]_vars, NEW d \in DOMAIN letters, ToMark(d)
  PROVE  ToMark(d)' \/ letters'[d].outcome = "accepted" \/ Fault
<1>0. /\ "replay" \in Handlers
      /\ handler["replay"].pc \in {"tail", "mark"} /\ handler["replay"].letter = d
      /\ ~At("replay", "idle") /\ (At("replay", "tail") \/ At("replay", "mark"))
  BY DEF ToMark, Handlers, At
<1>1. ASSUME NEW g \in Handlers, Continues(g), OthersStay(g)
      PROVE  ToMark(d)'
  <2>1. CASE g # "replay"
    BY <1>0, <1>1, <2>1 DEF OthersStay, ToMark
  <2>2. CASE g = "replay"
    <3>1. RunTail(g)
      BY <1>0, <1>1, <2>2, SiteFoundIs, ScanSenderIs, ScanBodyIs, ScanFailsIs, RetroBucketIs,
         CreateIs DEF Continues, At
    <3>2. handler'["replay"].pc = "mark" /\ handler'["replay"].letter = d
      BY <1>0, <2>2, <3>1, RunTailIs, BecomesIs DEF MovesTo
    <3>. QED
      BY <3>2 DEF ToMark
  <2>. QED
    BY <2>1, <2>2
<1>2. ASSUME handler' = handler PROVE ToMark(d)'
  BY <1>0, <1>2 DEF ToMark
<1>3. ASSUME NEW g \in Handlers, g # "replay", OthersStay(g) PROVE ToMark(d)'
  BY <1>0, <1>3 DEF OthersStay, ToMark
<1>4. ASSUME NEW h \in Handlers, TurnedAway(h) \/ CreateFails(h) \/ Dies(h)
      PROVE  ToMark(d)' \/ Fault
  <2>1. Stop(h)
    BY <1>4, TurnedAwayIs, CreateFailsIs, DiesIs DEF TurnedAway
  <2>2. h = "replay" => Fault
    BY <1>0, <1>4, TurnedAwayIs, CreateFailsIs, DiesIs DEF TurnedAway, At
  <2>. QED
    BY <1>3, <2>1, <2>2, StopStays
<1>5. ASSUME MarkReplayed PROVE letters'[d].outcome = "accepted" \/ Fault
  <2>1. At("replay", "mark")
    BY <1>0, <1>5, MarkIs DEF At
  <2>. QED
    BY <1>0, <1>5, <2>1, MarkIs
<1>6. ASSUME NEW h \in Handlers,
             \/ SiteFound(h) \/ ScanSender(h) \/ ScanBody(h) \/ ScanFails(h) \/ RetroBucket(h)
             \/ CreateSubmission(h) \/ RunTail(h)
      PROVE  ToMark(d)'
  <2>1. CASE RunTail(h) /\ h # "replay"
    BY <1>3, <2>1, RunTailIs, StopStays
  <2>. QED
    BY <1>1, <1>6, <2>1, StepOfHandler
<1>7. ASSUME NEW q \in Requests, NEW l \in Leads, Post(q, l) PROVE ToMark(d)'
  <2>1. q \in Handlers /\ q # "replay" /\ OthersStay(q)
    BY <1>7, PostIs, BecomesIs DEF OthersStay
  <2>. QED
    BY <2>1, <1>3
<1>8. ASSUME NextLetter PROVE FALSE
  BY <1>0, <1>8, NextLetterIs
<1>9. ASSUME NEW l \in Leads, VisitorTimesOut(l) PROVE ToMark(d)'
  BY <1>9, <1>2, TimesOutIs
<1>10. ASSUME NEW i \in DOMAIN submissions, Decides(i) PROVE ToMark(d)'
  BY <1>10, <1>2, DecidesIs
<1>11. ASSUME NEW e \in DOMAIN letters, Abandon(e) PROVE ToMark(d)'
  BY <1>11, <1>2, AbandonIs
<1>12. ASSUME Aside PROVE ToMark(d)'
  BY <1>12, <1>2 DEF Aside
<1>. QED
  BY StepCases, <1>4, <1>5, <1>6, <1>7, <1>8, <1>9, <1>10, <1>11, <1>12

LEMMA PaidKept ==
  ASSUME TypeOK, Underway, Paid, [Next]_vars
  PROVE  Paid'
<1>0. /\ TypeOK' /\ RowsStay /\ RowsAreMade /\ LettersStay /\ LettersAreMade
      /\ "replay" \in Handlers
      /\ faults \in Nat
      /\ faults' = faults \/ faults' = faults + 1
      /\ Fault => faults' = faults + 1
  BY TypesKept, RowsStep, LettersStep, FaultsStep, LeadIntakeAssumption
  DEF Handlers, TypeOK, Fault
<1>1. DOMAIN letters \subseteq Nat \ {0}
  BY DEF TypeOK
<1>2. DOMAIN letters \subseteq DOMAIN letters'
  BY <1>0 DEF LettersStay
<1>3. /\ IsFiniteSet(Duplicates) /\ IsFiniteSet(Loose)
      /\ Cardinality(Duplicates) \in Nat /\ Cardinality(Loose) \in Nat
      /\ Cardinality(Duplicates) + Cardinality(Loose) <= faults
  BY CountsAreFinite, FS_CardinalityType DEF Paid
<1>4. ASSUME NEW i \in DOMAIN submissions'
      PROVE  submissions'[i].letter \in {0} \union DOMAIN letters'
  <2>1. CASE i \in DOMAIN submissions
    BY <2>1, <1>0, <1>2 DEF RowsStay, Paid
  <2>2. CASE i \notin DOMAIN submissions
    <3>1. PICK h \in Handlers : Makes(h, i)
      BY <1>0, <2>2 DEF RowsAreMade
    <3>2. ~At(h, "idle") /\ submissions'[i].letter = handler[h].letter
      BY <3>1 DEF Makes, At
    <3>3. h # "replay" => handler[h].letter = 0
      BY <3>2, HandlerIs
    <3>4. h = "replay" => handler[h].letter \in DOMAIN letters
      BY <3>2 DEF Underway
    <3>. QED
      BY <3>2, <3>3, <3>4, <1>2
  <2>. QED
    BY <2>1, <2>2
\* A letter placed before the step and loose after it was loose, but for a failure.
<1>5. ASSUME NEW d \in Loose', PlacedFrom(d) # {}, d # 0
      PROVE  d \in Loose \/ (Fault /\ ToMark(d))
  <2>1. d \in DOMAIN letters
    BY <1>5 DEF PlacedFrom, Paid
  <2>2. letters'[d].outcome # "accepted" /\ ~ToMark(d)'
    BY <1>5 DEF Loose
  <2>3. letters[d].outcome # "accepted"
    <3>1. \/ letters'[d].outcome = letters[d].outcome
          \/ ~At("replay", "idle") /\ d = handler["replay"].letter
      BY <2>1, <1>0 DEF LettersStay
    <3>. QED
      BY <3>1, <2>2 DEF Underway
  <2>4. ToMark(d) => Fault
    BY <2>1, <2>2, MarkedOrFailed
  <2>. QED
    BY <1>5, <2>1, <2>3, <2>4 DEF Loose
<1>6. \A d \in Loose' : d # 0
  BY <1>0 DEF Loose, TypeOK
<1>7. CASE DOMAIN submissions' = DOMAIN submissions
  <2>1. \A d : PlacedFrom(d)' = PlacedFrom(d)
    BY <1>0, <1>7 DEF PlacedFrom, RowsStay
  <2>2. Duplicates' \subseteq Duplicates
    BY <1>0, <1>7 DEF Duplicates, PlacedFrom, RowsStay
  <2>3. \A d \in Loose' : PlacedFrom(d) # {}
    BY <2>1 DEF Loose
  <2>4. /\ Loose' \subseteq Loose \union {handler["replay"].letter}
        /\ ~Fault => Loose' \subseteq Loose
    BY <1>5, <1>6, <2>3 DEF ToMark
  <2>5. /\ Cardinality(Duplicates') <= Cardinality(Duplicates)
        /\ Cardinality(Duplicates') \in Nat
    <3>1. Duplicates' \subseteq Duplicates \union {0}
      BY <2>2
    <3>. QED
      BY <1>3, <2>2, <3>1, AtMostOneMore
  <2>6. /\ Cardinality(Loose') <= Cardinality(Loose) + 1
        /\ Cardinality(Loose') \in Nat
        /\ ~Fault => Cardinality(Loose') <= Cardinality(Loose)
    BY <1>3, <2>4, AtMostOneMore
  <2>7. Cardinality(Duplicates') + Cardinality(Loose') <= faults'
    BY <1>0, <1>3, <2>5, <2>6
  <2>. QED
    BY <1>4, <2>7 DEF Paid
<1>8. CASE DOMAIN submissions' # DOMAIN submissions
  <2>1. PICK i \in DOMAIN submissions', h \in Handlers : i \notin DOMAIN submissions /\ Makes(h, i)
    BY <1>0, <1>8 DEF RowsAreMade, RowsStay
  <2>. DEFINE d == handler[h].letter
  <2>2. /\ DOMAIN submissions' = DOMAIN submissions \union {i}
        /\ \A j \in DOMAIN submissions : j < i
        /\ submissions'[i].letter = d
        /\ \A j \in DOMAIN submissions : submissions'[j].letter = submissions[j].letter
        /\ ~At(h, "idle") /\ At(h, "create")
        /\ DOMAIN submissions' \subseteq Nat
    BY <1>0, <2>1 DEF Makes, At, RowsStay, TypeOK
  <2>3. letters' = letters
    BY <2>1, CreateIs, CreateFailsIs DEF Makes
  <2>4. \A e : PlacedFrom(e)' = IF e = d THEN PlacedFrom(e) \union {i} ELSE PlacedFrom(e)
    BY <2>2 DEF PlacedFrom
  <2>5. /\ Duplicates' \subseteq Duplicates \union {i}
        /\ d = 0 \/ PlacedFrom(d) = {} => Duplicates' \subseteq Duplicates
    <3>1. ASSUME NEW j \in Duplicates'
          PROVE  j \in Duplicates \/ (j = i /\ d # 0 /\ PlacedFrom(d) # {})
      <4>1. /\ j \in DOMAIN submissions' /\ submissions'[j].letter # 0
            /\ \E k \in PlacedFrom(submissions[j].letter)' : k < j
        BY DEF Duplicates
      <4>2. PICK k \in DOMAIN submissions' :
              submissions'[k].letter = submissions'[j].letter /\ k < j
        BY <4>1 DEF PlacedFrom
      <4>3. CASE j \in DOMAIN submissions
        <5>1. k # i
          BY <4>2, <4>3, <2>2
        <5>. QED
          BY <4>1, <4>2, <4>3, <5>1, <2>2 DEF Duplicates, PlacedFrom
      <4>4. CASE j = i
        <5>1. k \in DOMAIN submissions
          BY <4>2, <4>4, <2>2
        <5>2. k \in PlacedFrom(d)
          BY <4>2, <4>4, <5>1, <2>2 DEF PlacedFrom
        <5>. QED
          BY <4>1, <4>4, <5>2, <2>2
      <4>. QED
        BY <4>1, <4>3, <4>4, <2>2
    <3>. QED
      BY <3>1
  <2>6. /\ Cardinality(Duplicates') <= Cardinality(Duplicates) + 1
        /\ Cardinality(Duplicates') \in Nat
        /\ d = 0 \/ PlacedFrom(d) = {} => Cardinality(Duplicates') <= Cardinality(Duplicates)
    BY <1>3, <2>5, AtMostOneMore
  <2>7. CASE h # "replay"
    <3>1. d = 0
      BY <2>2, <2>7, HandlerIs
    <3>2. handler'["replay"] = handler["replay"]
      <4>1. CASE CreateSubmission(h)
        BY <2>7, <4>1, <1>0, CreateIs, BecomesIs
      <4>2. CASE CreateFails(h)
        BY <2>7, <4>2, <1>0, CreateFailsIs, StopStays DEF OthersStay
      <4>. QED
        BY <2>1, <4>1, <4>2 DEF Makes
    <3>3. Loose' \subseteq Loose
      <4>1. \A e : ToMark(e)' = ToMark(e)
        BY <3>2 DEF ToMark
      <4>2. \A e \in DOMAIN letters : PlacedFrom(e)' = PlacedFrom(e)
        BY <1>1, <2>4, <3>1
      <4>. QED
        BY <2>3, <4>1, <4>2 DEF Loose
    <3>4. Cardinality(Loose') \in Nat /\ Cardinality(Loose') <= Cardinality(Loose)
      <4>1. Loose' \subseteq Loose \union {0}
        BY <3>3
      <4>. QED
        BY <1>3, <3>3, <4>1, AtMostOneMore
    <3>5. Cardinality(Duplicates') + Cardinality(Loose') <= faults'
      BY <1>0, <1>3, <2>6, <3>1, <3>4
    <3>. QED
      BY <1>4, <3>5 DEF Paid
  <2>8. CASE h = "replay"
    <3>1. /\ d \in DOMAIN letters /\ d # 0 /\ letters[d].outcome = "queued"
          /\ \A e : ~ToMark(e)
      BY <1>1, <2>2, <2>8 DEF Underway, ToMark, At
    <3>2. PlacedFrom(d) # {} => d \in Loose
      BY <3>1 DEF Loose
    <3>3. \A e \in Loose' : e # d => e \in Loose
      <4>1. ASSUME NEW e \in Loose', e # d PROVE e \in Loose
        <5>1. PlacedFrom(e) # {}
          BY <2>4, <4>1 DEF Loose
        <5>. QED
          BY <5>1, <1>5, <1>6, <3>1
      <4>. QED
        BY <4>1
    <3>4. CASE CreateSubmission(h)
      <4>1. \A e : e = d => ToMark(e)'
        BY <2>8, <3>4, CreateIs, BecomesIs DEF ToMark
      <4>2. d \notin Loose'
        BY <4>1 DEF Loose
      <4>3. CASE PlacedFrom(d) = {}
        <5>1. Loose' \subseteq Loose \union {d} /\ Loose' \subseteq Loose
          BY <3>3, <4>2
        <5>2. Cardinality(Loose') \in Nat /\ Cardinality(Loose') <= Cardinality(Loose)
          BY <1>3, <5>1, AtMostOneMore
        <5>3. Cardinality(Duplicates') + Cardinality(Loose') <= faults'
          BY <1>0, <1>3, <2>6, <4>3, <5>2
        <5>. QED
          BY <1>4, <5>3 DEF Paid
      <4>4. CASE PlacedFrom(d) # {}
        <5>. DEFINE S == Loose \ {d}
        <5>1. /\ IsFiniteSet(S) /\ Cardinality(S) = Cardinality(Loose) - 1
          BY <1>3, <3>2, <4>4, FS_RemoveElement
        <5>2. Loose' \subseteq S
          BY <3>3, <4>2
        <5>. HIDE DEF S
        <5>3. Cardinality(Loose') \in Nat /\ Cardinality(Loose') <= Cardinality(S)
          <6>1. Loose' \subseteq S \union {d}
            BY <5>2
          <6>. QED
            BY <5>1, <5>2, <6>1, AtMostOneMore
        <5>4. Cardinality(Duplicates') + Cardinality(Loose') <= faults'
          BY <1>0, <1>3, <2>6, <5>1, <5>3
        <5>. QED
          BY <1>4, <5>4 DEF Paid
      <4>. QED
        BY <4>3, <4>4
    <3>5. CASE CreateFails(h)
      <4>1. faults' = faults + 1
        BY <1>0, <3>5, CreateFailsIs
      <4>2. /\ Loose' \subseteq Loose \union {d}
            /\ PlacedFrom(d) # {} => Loose' \subseteq Loose
        BY <3>2, <3>3
      <4>3. /\ Cardinality(Loose') \in Nat /\ Cardinality(Loose') <= Cardinality(Loose) + 1
            /\ PlacedFrom(d) # {} => Cardinality(Loose') <= Cardinality(Loose)
        BY <1>3, <4>2, AtMostOneMore
      <4>4. Cardinality(Duplicates') + Cardinality(Loose') <= faults'
        BY <1>3, <2>6, <4>1, <4>3, <1>0
      <4>. QED
        BY <1>4, <4>4 DEF Paid
    <3>. QED
      BY <2>1, <3>4, <3>5 DEF Makes
  <2>. QED
    BY <2>7, <2>8
<1>. QED
  BY <1>7, <1>8

-----------------------------------------------------------------------------
(* The spray scans miss nothing as long as nothing overlaps or fails *)

LEMMA DisturbedStays ==
  ASSUME TypeOK, [Next]_vars
  PROVE  /\ disturbed => disturbed'
         /\ Fault => disturbed'
<1>1. ASSUME NEW h \in Handlers,
             \/ TurnedAway(h) \/ SiteFound(h) \/ ScanSender(h) \/ ScanBody(h)
             \/ ScanFails(h) \/ RetroBucket(h) \/ CreateSubmission(h) \/ CreateFails(h)
             \/ RunTail(h) \/ Dies(h)
      PROVE  Fault \/ NoFault
  BY <1>1, TurnedAwayIs, SiteFoundIs, ScanSenderIs, ScanBodyIs, ScanFailsIs, RetroBucketIs,
     CreateIs, CreateFailsIs, RunTailIs, DiesIs DEF TurnedAway
<1>2. ASSUME NEW l \in Leads, VisitorTimesOut(l) PROVE Fault \/ NoFault
  BY <1>2, TimesOutIs
<1>3. ASSUME MarkReplayed PROVE Fault \/ NoFault
  BY <1>3, MarkIs
<1>4. ASSUME NEW q \in Requests, NEW l \in Leads, Post(q, l) PROVE disturbed => disturbed'
  BY <1>4, PostIs
<1>5. ASSUME NextLetter \/ Aside PROVE disturbed => disturbed'
  BY <1>5, NextLetterIs DEF Aside
<1>6. ASSUME NEW i \in DOMAIN submissions, Decides(i) PROVE disturbed => disturbed'
  BY <1>6, DecidesIs
<1>7. ASSUME NEW d \in DOMAIN letters, Abandon(d) PROVE disturbed => disturbed'
  BY <1>7, AbandonIs
<1>8. disturbed => disturbed'
  BY StepCases, Counted, <1>1, <1>2, <1>3, <1>4, <1>5, <1>6, <1>7
<1>. QED
  BY <1>8 DEF Fault

\* What a scan would find among the old rows does not change.
LEMMA MatchesStay ==
  ASSUME RowsStay, NEW l, NEW i \in DOMAIN submissions
  PROVE  /\ i \in SenderMatches(l)' <=> i \in SenderMatches(l)
         /\ i \in BodyMatches(l)' <=> i \in BodyMatches(l)
BY DEF RowsStay, SenderMatches, BodyMatches, IsContact, OwnResend

\* A row stays out of the inbox but for the operator.
LEMMA OutStays ==
  ASSUME TypeOK, RowsStay, NEW i \in DOMAIN submissions, NEW n \in 0..Len(submissions),
         OutSince(i, n)
  PROVE  OutSince(i, n)'
<1>1. Len(submissions) \in Nat /\ submissions[i].restored \in Nat
  <2>1. submissions \in Seq(Submission)
    BY DEF TypeOK
  <2>2. Len(submissions) \in Nat /\ submissions[i] \in Submission
    BY <2>1
  <2>. QED
    BY <2>2 DEF Submission
<1>2. /\ submissions[i].status # "new" /\ submissions'[i].status = "new" =>
            submissions'[i].restored = Len(submissions)
      /\ submissions'[i].restored \in {submissions[i].restored, Len(submissions)}
  BY DEF RowsStay
<1>. QED
  BY <1>1, <1>2 DEF OutSince

LEMMA SameLength ==
  ASSUME TypeOK, TypeOK', DOMAIN submissions' = DOMAIN submissions
  PROVE  Len(submissions') = Len(submissions)
<1>1. /\ Len(submissions) \in Nat /\ DOMAIN submissions = 1..Len(submissions)
      /\ Len(submissions') \in Nat /\ DOMAIN submissions' = 1..Len(submissions')
  BY DEF TypeOK
<1>2. ~(Len(submissions) < Len(submissions')) /\ ~(Len(submissions') < Len(submissions))
  <2>1. ASSUME Len(submissions) < Len(submissions') PROVE FALSE
    <3>1. Len(submissions') \in DOMAIN submissions'
      BY <1>1, <2>1
    <3>. QED
      BY <1>1, <2>1, <3>1
  <2>2. ASSUME Len(submissions') < Len(submissions) PROVE FALSE
    <3>1. Len(submissions) \in DOMAIN submissions
      BY <1>1, <2>2
    <3>. QED
      BY <1>1, <2>2, <3>1
  <2>. QED
    BY <2>1, <2>2
<1>. QED
  BY <1>1, <1>2

\* What Caught asks of the one handler at work, of a contact lead on a site that
\* handles spam, with its record at hand.
Scanning(x) ==
    x.pc # "idle" /\ Lead[x.lead].site \notin Building /\ IsContact(x.lead)

SenderHandled(x) ==
    x.pc \in {"retro_sender", "body", "retro_body", "create"} =>
        \A i \in SenderMatches(x.lead) :
            /\ x.status = "spam_auto"
            /\ OutSince(i, Len(submissions)) \/ (x.pc = "retro_sender" /\ i \in x.retro)

BodyHandled(x) ==
    x.pc \in {"retro_body", "create"} /\ Lead[x.lead].body # NoBody =>
        \A i \in BodyMatches(x.lead) :
            /\ x.status = "spam_auto"
            /\ Lead[x.lead].mayRetro =>
                  OutSince(i, Len(submissions)) \/ (x.pc = "retro_body" /\ i \in x.retro)

LEMMA CaughtParts ==
  Caught <=>
    (~disturbed =>
        /\ \A h, g \in Handlers : At(h, "idle") \/ At(g, "idle") \/ h = g
        /\ \A h \in Handlers :
              Scanning(handler[h]) => SenderHandled(handler[h]) /\ BodyHandled(handler[h])
        /\ \A i, j \in DOMAIN submissions : PairCaught(i, j))
<1>1. ASSUME NEW h \in Handlers
      PROVE  /\ Scanning(handler[h]) <=> /\ ~At(h, "idle") /\ LeadOf(h).site \notin Building
                                         /\ IsContact(handler[h].lead)
             /\ SenderHandled(handler[h]) <=> SenderDone(h)
             /\ BodyHandled(handler[h]) <=> BodyDone(h)
  BY DEF Scanning, SenderHandled, BodyHandled, SenderDone, BodyDone, Leaves, At, LeadOf
<1>. QED
  BY <1>1 DEF Caught

\* The rows did not change but for re-bucketing and triage: a record handled stays so.
LEMMA HandledStays ==
  ASSUME TypeOK, TypeOK', RowsStay, DOMAIN submissions' = DOMAIN submissions, NEW x
  PROVE  /\ SenderHandled(x) => \E y : y = x /\ SenderHandled(y)'
         /\ BodyHandled(x) => \E y : y = x /\ BodyHandled(y)'
<1>1. \A l : SenderMatches(l)' = SenderMatches(l) /\ BodyMatches(l)' = BodyMatches(l)
  <2>1. ASSUME NEW l PROVE /\ SenderMatches(l)' \subseteq DOMAIN submissions
                           /\ BodyMatches(l)' \subseteq DOMAIN submissions
    BY DEF SenderMatches, BodyMatches
  <2>. QED
    BY <2>1, MatchesStay, MatchesAreRows
<1>2. \A l : SenderMatches(l) \subseteq DOMAIN submissions
             /\ BodyMatches(l) \subseteq DOMAIN submissions
  BY MatchesAreRows
<1>3. \A i \in DOMAIN submissions :
         OutSince(i, Len(submissions)) => OutSince(i, Len(submissions))'
  <2>1. Len(submissions) \in 0..Len(submissions) /\ Len(submissions') = Len(submissions)
    BY SameLength DEF TypeOK
  <2>. QED
    BY <2>1, OutStays
<1>. QED
  BY <1>1, <1>2, <1>3 DEF SenderHandled, BodyHandled

\* A handler's own step, without a failure, does what its scans found to do.
LEMMA ScansHandle ==
  ASSUME TypeOK, TypeOK', RowsStay, NEW h \in Handlers, ~Fault,
         Scanning(handler[h]) => SenderHandled(handler[h]) /\ BodyHandled(handler[h]),
         Continues(h), NEW y, y = handler'[h], Scanning(y)
  PROVE  SenderHandled(y)' /\ BodyHandled(y)'
<1>0. /\ ~At(h, "idle") /\ y \in Running /\ y.lead = handler[h].lead
      /\ Scanning(handler[h])
  BY DEF Continues, Scanning, At
<1>. DEFINE l == handler[h].lead
<1>1. CASE SiteFound(h)
  <2>1. y.pc = "sender"
    BY <1>0, <1>1, SiteFoundIs, BecomesIs DEF Scanning, LeadOf
  <2>. QED
    BY <2>1 DEF SenderHandled, BodyHandled
<1>2. CASE ScanSender(h)
  <2>1. /\ AfterMatches(h, y, SenderFound(h), TRUE, "retro_sender", "body")
        /\ submissions' = submissions
    BY <1>2, ScanSenderIs, BecomesIs DEF AfterMatches
  <2>2. SenderFound(h) = SenderMatches(l)
    BY <1>0 DEF SenderFound, Scanning
  <2>3. SenderHandled(y)
    BY <2>1, <2>2 DEF AfterMatches, SenderHandled, StillNew, OutSince
  <2>4. BodyHandled(y)
    BY <2>1 DEF AfterMatches, BodyHandled
  <2>. QED
    BY <2>1, <2>3, <2>4
    DEF SenderHandled, BodyHandled, SenderMatches, BodyMatches, IsContact, OwnResend, OutSince
<1>3. CASE ScanBody(h)
  <2>1. /\ AfterMatches(h, y, BodyFound(h), Lead[l].mayRetro, "retro_body", "create")
        /\ submissions' = submissions /\ At(h, "body")
    BY <1>3, ScanBodyIs, BecomesIs DEF AfterMatches
  <2>2. Lead[l].body # NoBody => BodyFound(h) = BodyMatches(l)
    BY <1>0 DEF BodyFound, Scanning
  <2>3. SenderHandled(y)
    <3>1. \A i \in SenderMatches(l) :
             handler[h].status = "spam_auto" /\ OutSince(i, Len(submissions))
      BY <1>0, <2>1 DEF SenderHandled, At
    <3>. QED
      BY <1>0, <2>1, <3>1 DEF SenderHandled, AfterMatches
  <2>4. BodyHandled(y)
    BY <1>0, <2>1, <2>2 DEF AfterMatches, BodyHandled, StillNew, OutSince
  <2>. QED
    BY <2>1, <2>3, <2>4
    DEF SenderHandled, BodyHandled, SenderMatches, BodyMatches, IsContact, OwnResend, OutSince
<1>4. CASE RetroBucket(h)
  <2>1. /\ handler[h].pc \in {"retro_sender", "retro_body"}
        /\ MovesTo(h, AfterScan(h))
        /\ \A i \in DOMAIN submissions :
              submissions'[i].status = IF i \in handler[h].retro
                                          /\ submissions[i].status = "new"
                                       THEN "spam_auto" ELSE submissions[i].status
        /\ DOMAIN submissions' = DOMAIN submissions
    <3>1. KeepsRows
      BY <1>4, RetroBucketIs DEF KeepsRows
    <3>. QED
      BY <1>4, <3>1, RetroBucketIs, SameDomain
  <2>2. /\ y.status = handler[h].status
        /\ y.pc = IF handler[h].pc = "retro_sender" THEN "body" ELSE "create"
    BY <2>1, BecomesIs DEF MovesTo, AfterScan
  <2>3. \A i \in DOMAIN submissions :
           i \in handler[h].retro => OutSince(i, Len(submissions))'
    BY <2>1 DEF OutSince
  <2>4. \A i \in DOMAIN submissions :
           OutSince(i, Len(submissions)) => OutSince(i, Len(submissions))'
    <3>1. Len(submissions) \in 0..Len(submissions) /\ Len(submissions') = Len(submissions)
      BY <2>1, SameLength DEF TypeOK
    <3>. QED
      BY <3>1, OutStays
  <2>5. ASSUME NEW k PROVE /\ SenderMatches(k)' \subseteq SenderMatches(k)
                           /\ BodyMatches(k)' \subseteq BodyMatches(k)
                           /\ SenderMatches(k) \subseteq DOMAIN submissions
                           /\ BodyMatches(k) \subseteq DOMAIN submissions
    <3>1. /\ SenderMatches(k)' \subseteq DOMAIN submissions
          /\ BodyMatches(k)' \subseteq DOMAIN submissions
      BY <2>1 DEF SenderMatches, BodyMatches
    <3>. QED
      BY <3>1, MatchesStay, MatchesAreRows
  <2>6. ASSUME NEW i \in SenderMatches(l)
        PROVE  handler[h].status = "spam_auto" /\ OutSince(i, Len(submissions))'
    BY <1>0, <2>1, <2>3, <2>4, <2>5, <2>6 DEF SenderHandled
  <2>7. SenderHandled(y)'
    BY <1>0, <2>2, <2>5, <2>6 DEF SenderHandled
  <2>8. BodyHandled(y)'
    <3>1. CASE handler[h].pc = "retro_sender"
      BY <2>2, <3>1 DEF BodyHandled
    <3>2. ASSUME handler[h].pc = "retro_body", Lead[l].body # NoBody,
                 NEW i \in BodyMatches(l)
          PROVE  /\ handler[h].status = "spam_auto"
                 /\ Lead[l].mayRetro => OutSince(i, Len(submissions))'
      BY <1>0, <2>1, <2>3, <2>4, <2>5, <3>2 DEF BodyHandled
    <3>. QED
      BY <1>0, <2>1, <2>2, <2>5, <3>1, <3>2 DEF BodyHandled
  <2>. QED
    BY <2>7, <2>8
<1>5. CASE CreateSubmission(h)
  <2>1. y.pc = "tail"
    BY <1>5, CreateIs, BecomesIs
  <2>. QED
    BY <2>1 DEF SenderHandled, BodyHandled
<1>6. CASE RunTail(h)
  <2>1. y.pc = "mark"
    BY <1>0, <1>6, RunTailIs, StopStays, BecomesIs DEF MovesTo, Scanning, Idle
  <2>. QED
    BY <2>1 DEF SenderHandled, BodyHandled
<1>7. CASE ScanFails(h)
  BY <1>7, ScanFailsIs
<1>. QED
  BY <1>1, <1>2, <1>3, <1>4, <1>5, <1>6, <1>7 DEF Continues

LEMMA CaughtKept ==
  ASSUME TypeOK, Caught, [Next]_vars
  PROVE  Caught'
<1>0. /\ TypeOK' /\ RowsStay /\ RowsAreMade /\ HandlersStep
  BY TypesKept, RowsStep, HandlersMove
<1>1. SUFFICES ASSUME ~disturbed' PROVE Caught'
  BY DEF Caught
<1>2. ~disturbed /\ ~Fault
  BY <1>1, DisturbedStays
<1>3. /\ \A h, g \in Handlers : At(h, "idle") \/ At(g, "idle") \/ h = g
      /\ \A h \in Handlers :
            Scanning(handler[h]) => SenderHandled(handler[h]) /\ BodyHandled(handler[h])
      /\ \A i, j \in DOMAIN submissions : PairCaught(i, j)
  BY <1>2, CaughtParts
<1>4. \A h, g \in Handlers : At(h, "idle")' \/ At(g, "idle")' \/ h = g
  <2>1. \A g \in Handlers : Begins(g) => \A h \in Handlers : At(h, "idle")
    BY <1>1 DEF Begins, Quiet
  <2>2. ASSUME NEW g \in Handlers, OthersStay(g), NEW h \in Handlers, h # g
        PROVE  At(h, "idle")' = At(h, "idle")
    BY <2>2 DEF OthersStay, At
  <2>3. CASE handler' = handler
    BY <1>3, <2>3 DEF At
  <2>4. ASSUME NEW g \in Handlers, OthersStay(g),
               Begins(g) \/ Continues(g) \/ ~At(g, "idle")
        PROVE  \A h \in Handlers : h = g \/ At(h, "idle")'
    BY <1>3, <2>1, <2>2, <2>4 DEF Continues
  <2>. QED
    BY <1>0, <2>3, <2>4 DEF HandlersStep
<1>5. ASSUME NEW h \in Handlers, NEW y, y = handler'[h], Scanning(y)
      PROVE  SenderHandled(y)' /\ BodyHandled(y)'
  <2>1. CASE Begins(h)
    BY <1>5, <2>1 DEF Begins, SenderHandled, BodyHandled
  <2>2. CASE Continues(h)
    BY <1>0, <1>2, <1>3, <1>5, <2>2, ScansHandle
  <2>3. CASE handler' = handler /\ DOMAIN submissions' = DOMAIN submissions
    <3>1. SenderHandled(y) /\ BodyHandled(y)
      BY <1>3, <1>5, <2>3
    <3>. QED
      BY <1>0, <2>3, <3>1, HandledStays
  <2>4. ASSUME NEW g \in Handlers, g # h, OthersStay(g),
               Begins(g) \/ Continues(g) \/ ~At(g, "idle")
        PROVE  FALSE
    <3>1. y = handler[h] /\ ~At(h, "idle")
      BY <1>5, <2>4 DEF OthersStay, Scanning, At
    <3>2. ~Begins(g)
      BY <1>1, <3>1 DEF Begins, Quiet
    <3>. QED
      BY <1>3, <2>4, <3>1, <3>2 DEF Continues
  <2>5. y # Idle
    BY <1>5 DEF Scanning, Idle
  <2>. QED
    BY <1>0, <1>5, <2>1, <2>2, <2>3, <2>4, <2>5 DEF HandlersStep
<1>6. ASSUME NEW i \in DOMAIN submissions', NEW j \in DOMAIN submissions'
      PROVE  PairCaught(i, j)'
  <2>1. CASE i \in DOMAIN submissions /\ j \in DOMAIN submissions
    <3>. DEFINE l == submissions[j].lead
    <3>1. PairCaught(i, j)
      BY <1>3, <2>1
    <3>2. submissions'[j].lead = l
      BY <1>0, <2>1 DEF RowsStay
    <3>3. /\ \A k : i \in SenderMatches(k)' <=> i \in SenderMatches(k)
          /\ \A k : i \in BodyMatches(k)' <=> i \in BodyMatches(k)
      BY <1>0, <2>1, MatchesStay
    <3>4. /\ OutSince(j, j) => OutSince(j, j)'
          /\ i < j /\ OutSince(i, j - 1) => OutSince(i, j - 1)'
      <4>1. i \in Nat /\ j \in 0..Len(submissions) /\ (i < j => j - 1 \in 0..Len(submissions))
        BY <2>1 DEF TypeOK
      <4>. QED
        BY <1>0, <2>1, <4>1, OutStays
    <3>. QED
      BY <3>1, <3>2, <3>3, <3>4 DEF PairCaught, IsContact
  <2>2. ASSUME NEW h \in Handlers, Makes(h, j), i \in DOMAIN submissions
        PROVE  PairCaught(i, j)'
    <3>. DEFINE l == handler[h].lead
    <3>1. /\ submissions'[j].lead = l /\ submissions'[j].status = handler[h].status
          /\ At(h, "create") /\ ~At(h, "idle")
      BY <2>2 DEF Makes, At
    <3>2. /\ \A k : i \in SenderMatches(k)' <=> i \in SenderMatches(k)
          /\ \A k : i \in BodyMatches(k)' <=> i \in BodyMatches(k)
      BY <1>0, <2>2, MatchesStay
    <3>3. IsContact(l) /\ Lead[l].site \notin Building =>
             SenderHandled(handler[h]) /\ BodyHandled(handler[h])
      BY <1>3, <3>1 DEF Scanning, At
    <3>4. ASSUME IsContact(l), Lead[l].site \notin Building, i \in SenderMatches(l)
          PROVE  handler[h].status = "spam_auto" /\ OutSince(i, Len(submissions))
      BY <3>1, <3>3, <3>4 DEF SenderHandled, At
    <3>5. ASSUME IsContact(l), Lead[l].site \notin Building, Lead[l].body # NoBody,
                 i \in BodyMatches(l)
          PROVE  /\ handler[h].status = "spam_auto"
                 /\ Lead[l].mayRetro => OutSince(i, Len(submissions))
      BY <3>1, <3>3, <3>5 DEF BodyHandled, At
    <3>6. j - 1 = Len(submissions) /\ Len(submissions) \in 0..Len(submissions)
      BY <2>2 DEF Makes, TypeOK
    <3>7. OutSince(i, Len(submissions)) => OutSince(i, j - 1)'
      BY <1>0, <2>2, <3>6, OutStays
    <3>8. handler[h].status = "spam_auto" => OutSince(j, j)'
      BY <3>1 DEF OutSince
    <3>. QED
      BY <3>1, <3>2, <3>4, <3>5, <3>7, <3>8 DEF PairCaught, IsContact
  <2>3. ASSUME NEW h \in Handlers, Makes(h, j), i \notin DOMAIN submissions
        PROVE  PairCaught(i, j)'
    <3>1. i = j
      BY <2>3 DEF Makes
    <3>2. i \in Nat
      BY <1>0 DEF TypeOK
    <3>. QED
      BY <3>1, <3>2 DEF PairCaught
  <2>4. ASSUME NEW h \in Handlers, Makes(h, i), j \in DOMAIN submissions
        PROVE  PairCaught(i, j)'
    <3>1. j < i /\ i \in Nat /\ j \in Nat
      BY <1>0, <2>4 DEF Makes, TypeOK
    <3>. QED
      BY <3>1 DEF PairCaught
  <2>. QED
    BY <1>0, <2>1, <2>2, <2>3, <2>4 DEF RowsAreMade
<1>7. /\ \A h, g \in Handlers : At(h, "idle")' \/ At(g, "idle")' \/ h = g
      /\ \A h \in Handlers : Scanning(handler'[h]) =>
            (SenderHandled(handler[h]) /\ BodyHandled(handler[h]))'
      /\ \A i, j \in DOMAIN submissions' : PairCaught(i, j)'
  BY <1>4, <1>5, <1>6 DEF SenderHandled, BodyHandled
<1>. QED
  BY <1>7 DEF Caught, Scanning, SenderHandled, BodyHandled, SenderDone, BodyDone, Leaves,
     At, LeadOf, IsContact

-----------------------------------------------------------------------------
(* The theorems *)

LEMMA InitFits == Init => IInv
<1>. SUFFICES ASSUME Init PROVE IInv
  OBVIOUS
<1>1. /\ DOMAIN submissions = {} /\ DOMAIN letters = {} /\ queue = {}
      /\ \A h \in Handlers : handler[h] = Idle /\ At(h, "idle") /\ handler[h].pc = "idle"
      /\ "replay" \in Handlers
  BY DEF Init, Idle, At, Handlers
<1>2. TypeOK
  <2>1. submissions \in Seq(Submission) /\ letters \in Seq(Letter)
    BY DEF Init
  <2>2. posts \in 0..MaxPosts /\ faults \in 0..MaxFaults /\ disturbed \in BOOLEAN
    <3>1. MaxPosts \in Nat /\ MaxFaults \in Nat
      BY LeadIntakeAssumption
    <3>2. 0 \in 0..MaxPosts /\ 0 \in 0..MaxFaults
      BY <3>1
    <3>. QED
      BY <3>2 DEF Init
  <2>. QED
    BY <1>1, <2>1, <2>2 DEF Init, TypeOK
<1>3. Underway
  BY <1>1 DEF Underway
<1>4. AcceptedLeadsAreKept
  BY <1>1 DEF Init, AcceptedLeadsAreKept
<1>5. AllPosted /\ Evidence
  BY <1>1 DEF AllPosted, Evidence
<1>6. Paid
  <2>1. Duplicates = {} /\ Loose = {} /\ faults = 0
    BY <1>1 DEF Duplicates, Loose, Init
  <2>2. Cardinality({}) = 0
    BY FS_EmptySet
  <2>. QED
    BY <1>1, <2>1, <2>2 DEF Paid
<1>7. Caught
  BY <1>1 DEF Caught
<1>. QED
  BY <1>2, <1>3, <1>4, <1>5, <1>6, <1>7 DEF IInv

LEMMA IInvKept == IInv /\ [Next]_vars => IInv'
BY TypesKept, UnderwayKept, LeadsKept, PostedKept, EvidenceKept, PaidKept, CaughtKept DEF IInv

LEMMA IInvHolds == Spec => []IInv
BY InitFits, IInvKept, PTL DEF Spec

(* Every reachable state has the types of the model, and a handler under way *)
(* points at rows that are there (form-ingest, ingestSubmission, replay).    *)
THEOREM TypeCorrect == Spec => []TypeOK
<1>1. IInv => TypeOK
  BY DEF IInv
<1>. QED
  BY <1>1, IInvHolds, PTL

(* A lead whose visitor was told "accepted" is a row or a dead letter for    *)
(* ever after, and a letter marked placed has its row, whatever threw and    *)
(* wherever a handler or the replay died.                                    *)
THEOREM AcceptedLeadsStay == Spec => []AcceptedLeadsAreKept
<1>1. IInv => AcceptedLeadsAreKept
  BY DEF IInv
<1>. QED
  BY <1>1, IInvHolds, PTL

(* A dead letter placed more than once cost a failure for every row beyond   *)
(* its first: without one, the replay is exactly once.                       *)
THEOREM DuplicatesArePaidFor == Spec => []DuplicatesCostFailures
<1>1. IInv => DuplicatesCostFailures
  <2>. SUFFICES ASSUME IInv PROVE DuplicatesCostFailures
    OBVIOUS
  <2>1. /\ Cardinality(Duplicates) \in Nat /\ Cardinality(Loose) \in Nat
        /\ Cardinality(Duplicates) + Cardinality(Loose) <= faults
        /\ faults \in Nat
    BY CountsAreFinite, FS_CardinalityType, LeadIntakeAssumption DEF IInv, Paid, TypeOK
  <2>2. Cardinality(Duplicates) <= faults
    BY <2>1
  <2>. QED
    BY <2>2 DEF DuplicatesCostFailures, Duplicates
<1>. QED
  BY <1>1, IInvHolds, PTL

(* A row is auto-spam on its own content or on a copy another sender, or     *)
(* another site, really received: no interleaving of scans and re-buckets    *)
(* buries a lead without evidence.                                           *)
THEOREM SpamIsProven == Spec => []SpamHasEvidence
<1>1. IInv => SpamHasEvidence
  BY DEF IInv, Evidence, Evident, Posted, SpamHasEvidence
<1>. QED
  BY <1>1, IInvHolds, PTL

(* As long as no two handlers overlapped and nothing failed, a copy is in    *)
(* the inbox only where the operator put it back, and an earlier copy only   *)
(* if he did while a later one was on its way or after, in whatever order    *)
(* posts, replays and his decisions came: one he put back before is out      *)
(* again with the next copy.                                                 *)
THEOREM SprayNeverEscapes == Spec => []SprayIsCaught
<1>1. IInv => SprayIsCaught
  <2>. SUFFICES ASSUME IInv, Quiet, ~disturbed,
                       NEW i \in DOMAIN submissions, NEW j \in DOMAIN submissions
                PROVE  LET k == submissions[i].lead
                           l == submissions[j].lead
                           sameSender == /\ IsContact(k) /\ Lead[k].sender = Lead[l].sender
                                         /\ Lead[k].site # Lead[l].site
                           sameBody == Lead[k].body = Lead[l].body /\ ~OwnResend(k, l)
                       IN  (/\ i < j /\ IsContact(l) /\ Lead[l].site \notin Building
                            /\ sameSender \/ (Lead[l].body # NoBody /\ sameBody))
                               => /\ OutSince(j, j)
                                  /\ (sameSender \/ Lead[l].mayRetro) => OutSince(i, j - 1)
    BY DEF SprayIsCaught
  <2>1. PairCaught(i, j)
    BY DEF IInv, Caught
  <2>. QED
    BY <2>1 DEF PairCaught, SenderMatches, BodyMatches, OwnResend
<1>. QED
  BY <1>1, IInvHolds, PTL

(* A row the operator took out of the inbox stays as he left it until he     *)
(* puts it back himself: no handler's late write, re-bucketing or stamping,  *)
(* takes it elsewhere, though its scan had read the row as new.              *)
THEOREM DecisionsStand == Spec => OperatorDecisionStands
<1>. DEFINE Step == \A i \in DOMAIN submissions : submissions[i].status = "read" =>
                \/ submissions'[i].status = "read"
                \/ submissions'[i].status = "new" /\ submissions'[i].restored = Len(submissions)
<1>1. IInv /\ [Next]_vars => [Step]_vars
  BY RowsStep DEF IInv, RowsStay
<1>. QED
  BY <1>1, IInvHolds, PTL DEF Spec, OperatorDecisionStands
=============================================================================
